-------------------------- MODULE Indexer_proofs ---------------------------
(***************************************************************************)
(* Proofs about the indexer: its keepers (Keepers), for any finite set of  *)
(* markets and any runs of autoGraduate and sweepFees that overlap, and    *)
(* its trade feeds (Ingestion and ProgramFeed, as MCFeed composes them),   *)
(* which implement TradeFeed.                                              *)
(***************************************************************************)
EXTENDS Keepers, MCFeed, FixedMath_proofs, SequenceTheorems

-----------------------------------------------------------------------------
(* Graduations.                                                            *)

(* A run that has sent a graduation holds the market it sent it for in the *)
(* set graduating, and no other run has sent one for that market.          *)
Claims ==
  /\ grad \in [Grads -> [pc : {"idle", "scan", "sent"}, todo : SUBSET Markets,
                         snap : SUBSET Markets]]
  /\ ready \subseteq Markets
  /\ \A r \in Grads : grad[r].pc = "sent" => NextOf(grad[r].todo) \in graduating
  /\ OneGraduationAtATime

-----------------------------------------------------------------------------
(* Fees.                                                                   *)

(* The market a run is at, and what the treasury got from it for which the *)
(* creator has not been paid yet.                                          *)
AtMarket(q) == NextOf(q.todo)
Behind(q, m) == IF q.pc = "creator" /\ AtMarket(q) = m THEN half(q.read) ELSE 0
BehindAll(m) == SumFunction([r \in Sweeps |-> Behind(sweep[r], m)])

Run == [pc : {"idle", "fetch", "treasury", "creator"}, todo : SUBSET Markets, read : Nat]

FeeTypes ==
  /\ sweep \in [Sweeps -> Run]
  /\ fees \in [Markets -> Nat]
  /\ paid \in [Markets -> [treasury : Nat, creator : Nat, swept : Nat]]
  /\ \A r \in Sweeps : sweep[r].pc # "idle" => sweep[r].todo # {}

(* Runs between their two payments are behind with the creator by what     *)
(* they paid the treasury: the creator's total and all that is still to    *)
(* come stays within what the treasury got and the odd lamports.           *)
Shares ==
  \A m \in Markets :
    paid[m].creator + BehindAll(m) <= paid[m].treasury + paid[m].swept

FeeInv == FeeTypes /\ Shares

(* One run alone, none of whose transfers failed: what it read is there to *)
(* be paid, and between its two payments the creator is behind by just     *)
(* the treasury's half.                                                    *)
AloneInv ==
  /\ FeeTypes /\ callFaults \in Nat /\ callFaults <= Faults
  /\ callFaults = Faults =>
       /\ \A r \in Sweeps :
            /\ sweep[r].pc = "treasury" => sweep[r].read <= fees[AtMarket(sweep[r])]
            /\ sweep[r].pc = "creator" => creator_share(sweep[r].read) <= fees[AtMarket(sweep[r])]
       /\ \A r \in Sweeps, m \in Markets :
            paid[m].creator + Behind(sweep[r], m) - paid[m].treasury \in 0..paid[m].swept

-----------------------------------------------------------------------------
(* Lemmas.                                                                 *)

(* The market a run is at is one of those it has still to do. *)
LEMMA NextIn ==
  ASSUME NEW todo \in SUBSET Markets, todo # {}
  PROVE  NextOf(todo) \in todo
<1> DEFINE Bad == {u \in SUBSET Markets : u # {} /\ ~ \E m \in u : \A k \in u : m <= k}
<1>0. IsFiniteSet(Markets)
  BY KeepersAssumption
<1>1. SUFFICES ASSUME Bad # {} PROVE FALSE
  BY DEF NextOf
<1>2. PICK T \in Bad : \A u \in SUBSET Markets : u \subseteq T /\ u # T => u \notin Bad
  <2> HIDE DEF Bad
  <2>1. Bad \in SUBSET SUBSET Markets
    BY DEF Bad
  <2> QED
    BY <1>1, <1>0, <2>1, SmallestSubset
<1>3. T \in SUBSET Markets /\ T # {} /\ ~ \E m \in T : \A k \in T : m <= k
  BY <1>2
<1>4. PICK x \in T : TRUE
  BY <1>3
<1>5. T \ {x} # {}
  BY <1>3, <1>4, KeepersAssumption
<1>6. T \ {x} \notin Bad
  BY <1>2, <1>3, <1>4
<1>7. PICK y \in T \ {x} : \A k \in T \ {x} : y <= k
  BY <1>3, <1>5, <1>6
<1>8. x \in Int /\ y \in Int /\ \A k \in T : k \in Int
  BY <1>3, <1>4, <1>7, KeepersAssumption
<1>9. CASE x <= y
  BY <1>3, <1>4, <1>7, <1>8, <1>9
<1>10. CASE ~(x <= y)
  BY <1>3, <1>4, <1>7, <1>8, <1>10
<1> QED
  BY <1>9, <1>10

(* The halves of a sweep: the creator gets the odd lamport. *)
LEMMA Halves ==
  ASSUME NEW f \in Nat
  PROVE  /\ half(f) \in Nat /\ creator_share(f) \in Nat
         /\ half(f) <= creator_share(f) /\ creator_share(f) <= half(f) + 1
         /\ half(f) + creator_share(f) = f
  BY DEF half, creator_share

-----------------------------------------------------------------------------
(* Graduations.                                                            *)

(* What ends a graduation of a run changes no market another run holds.    *)
LEMMA AnsweredKeeps ==
  ASSUME Claims, NEW r \in Grads, grad[r].pc = "sent", Answered(r), ready' = ready
  PROVE  Claims'
<1>1. PICK m, q : m = NextOf(grad[r].todo) /\ q = grad[r]
  OBVIOUS
<1>2. q \in [pc : {"idle", "scan", "sent"}, todo : SUBSET Markets, snap : SUBSET Markets]
  BY <1>1 DEF Claims
<1>3. graduating' = graduating \ {m}
  BY <1>1 DEF Answered, release
<1>4. PICK p : p = [q EXCEPT !.pc = "scan", !.todo = @ \ {m}]
  OBVIOUS
<1>5. /\ p \in [pc : {"idle", "scan", "sent"}, todo : SUBSET Markets, snap : SUBSET Markets]
      /\ p.pc = "scan"
  BY <1>2, <1>4
<1>6. grad' = [grad EXCEPT ![r] = p]
  BY <1>1, <1>4 DEF Answered, Claims
<1>7. grad'[r] = p /\ \A s \in Grads : s # r => grad'[s] = grad[s]
  BY <1>6 DEF Claims
<1>8. \A s \in Grads : s # r /\ grad[s].pc = "sent" => NextOf(grad[s].todo) # m
  BY <1>1 DEF Claims, OneGraduationAtATime
<1>9. \A s \in Grads : grad'[s].pc = "sent" => s # r /\ grad'[s] = grad[s]
  BY <1>5, <1>7
<1> QED
  BY <1>3, <1>5, <1>6, <1>8, <1>9 DEF Claims, OneGraduationAtATime

LEMMA GradStepKeeps ==
  ASSUME Claims, NEW r \in Grads, GradStep(r) \/ GraduateFails(r)
  PROVE  Claims'
<1> DEFINE GradRun == [pc : {"idle", "scan", "sent"}, todo : SUBSET Markets, snap : SUBSET Markets]
<1>1. ASSUME NEW p \in GradRun, p.pc # "sent", grad' = [grad EXCEPT ![r] = p],
             graduating' = graduating, ready' = ready
      PROVE  Claims'
  <2>1. grad'[r] = p /\ \A s \in Grads : s # r => grad'[s] = grad[s]
    BY <1>1 DEF Claims
  <2>2. \A s \in Grads : grad'[s].pc = "sent" => grad'[s] = grad[s]
    BY <1>1, <2>1
  <2>3. grad' \in [Grads -> GradRun]
    BY <1>1 DEF Claims
  <2> QED
    BY <1>1, <2>2, <2>3 DEF Claims, OneGraduationAtATime
<1>2. PICK q : q = grad[r]
  OBVIOUS
<1>3. q \in GradRun
  BY <1>2 DEF Claims
<1>4. CASE ReadMarkets(r)
  <2>1. PICK p : p = [pc |-> "scan", todo |-> Markets, snap |-> {m \in ready : status[m] = "bootstrap"}]
    OBVIOUS
  <2>2. p \in GradRun /\ p.pc # "sent"
    BY <2>1 DEF Claims
  <2> QED
    BY <1>1, <1>4, <2>1, <2>2 DEF ReadMarkets, program
<1>5. CASE Pass(r)
  <2>1. PICK p : p = [q EXCEPT !.todo = @ \ {NextOf(@)}]
    OBVIOUS
  <2>2. p \in GradRun /\ p.pc # "sent"
    BY <1>2, <1>3, <1>5, <2>1 DEF Pass
  <2>3. grad' = [grad EXCEPT ![r] = p]
    BY <1>2, <1>5, <2>1 DEF Pass, Claims
  <2> QED
    BY <1>1, <1>5, <2>2, <2>3 DEF Pass, program
<1>6. CASE Claim(r)
  <2>1. PICK m : m = NextOf(q.todo)
    OBVIOUS
  <2>2. m \notin graduating /\ graduating' = graduating \cup {m} /\ ready' = ready
    BY <1>2, <1>6, <2>1 DEF Claim, due, free, program
  <2>3. PICK p : p = [q EXCEPT !.pc = "sent"]
    OBVIOUS
  <2>4. p \in GradRun /\ p.todo = q.todo
    BY <1>3, <2>3
  <2>5. grad' = [grad EXCEPT ![r] = p]
    BY <1>2, <1>6, <2>3 DEF Claim, Claims
  <2>6. /\ grad' \in [Grads -> GradRun] /\ grad'[r] = p
        /\ \A s \in Grads : s # r => grad'[s] = grad[s]
    BY <2>4, <2>5 DEF Claims
  <2>7. \A s \in Grads : s # r /\ grad[s].pc = "sent" => NextOf(grad[s].todo) # m
    BY <2>2 DEF Claims
  <2> QED
    BY <2>1, <2>2, <2>4, <2>6, <2>7 DEF Claims, OneGraduationAtATime
<1>7. CASE Graduate(r) \/ GraduateFails(r)
  BY <1>7, AnsweredKeeps DEF Graduate, GraduateFails, program
<1>8. CASE GradEnds(r)
  <2>1. PICK p : p = Resting
    OBVIOUS
  <2>2. p \in GradRun /\ p.pc # "sent"
    BY <2>1 DEF Resting
  <2> QED
    BY <1>1, <1>8, <2>1, <2>2 DEF GradEnds, program
<1> QED
  BY <1>4, <1>5, <1>6, <1>7, <1>8 DEF GradStep

(* Whatever runs of autoGraduate overlap, the graduation of one market is  *)
(* under way once at a time: the set graduating, which a run reads and     *)
(* changes without an await in between, keeps the others off it.           *)
THEOREM GraduatesOnce == KeeperSpec => []OneGraduationAtATime
<1>1. KeeperInit => Claims
  <2> SUFFICES ASSUME KeeperInit PROVE Claims
    OBVIOUS
  <2>1. Resting \in [pc : {"idle", "scan", "sent"}, todo : SUBSET Markets, snap : SUBSET Markets]
    BY DEF Resting
  <2>2. \A r \in Grads : grad[r].pc # "sent"
    BY DEF KeeperInit, Resting
  <2> QED
    BY <2>1, <2>2 DEF KeeperInit, Claims, OneGraduationAtATime
<1>2. Claims /\ [KeeperNext]_keeperVars => Claims'
  <2> SUFFICES ASSUME Claims, [KeeperNext]_keeperVars PROVE Claims'
    OBVIOUS
  <2>1. ASSUME NEW m \in Markets, Trade(m) \/ FirstPush(m) \/ SetFrozen(m) PROVE Claims'
    BY <2>1 DEF Claims, Trade, FirstPush, SetFrozen, OneGraduationAtATime
  <2>2. ASSUME NEW m \in Markets, Earn(m) PROVE Claims'
    BY <2>2 DEF Claims, Earn, OneGraduationAtATime
  <2>3. ASSUME NEW r \in Grads, GradStep(r) \/ GraduateFails(r) PROVE Claims'
    BY <2>3, GradStepKeeps
  <2>4. ASSUME NEW r \in Sweeps, SweepStep(r) \/ TransferFails(r) PROVE Claims'
    <3>1. UNCHANGED <<grad, graduating, ready>>
      BY <2>4 DEF SweepStep, TransferFails, SweepStarts, FetchFees, Pay, Rejected, program
    <3> QED
      BY <3>1 DEF Claims, OneGraduationAtATime
  <2>5. CASE UNCHANGED keeperVars
    BY <2>5 DEF keeperVars, Claims, OneGraduationAtATime
  <2> QED
    BY <2>1, <2>2, <2>3, <2>4, <2>5 DEF KeeperNext
<1>3. Claims => OneGraduationAtATime
  BY DEF Claims
<1> QED
  BY <1>1, <1>2, <1>3, PTL DEF KeeperSpec

-----------------------------------------------------------------------------
(* Fees.                                                                   *)

PaidType == [treasury : Nat, creator : Nat, swept : Nat]

(* What the program pays of a market that can afford it, and to whom.      *)
LEMMA WithdrawPays ==
  ASSUME FeeTypes, NEW r \in Sweeps, Sending(r), Withdraw(r)
  PROVE  LET m == AtMarket(sweep[r])  q == sweep[r] IN
         /\ m \in Markets /\ q.read \in Nat
         /\ fees' \in [Markets -> Nat] /\ paid' \in [Markets -> PaidType]
         /\ \A k \in Markets : k # m => paid'[k] = paid[k] /\ fees'[k] = fees[k]
         /\ fees'[m] = fees[m] - Share(r)
         /\ q.pc = "treasury" =>
              /\ paid'[m].treasury = paid[m].treasury + half(q.read)
              /\ paid'[m].creator = paid[m].creator /\ paid'[m].swept = paid[m].swept
         /\ q.pc = "creator" =>
              /\ paid'[m].creator = paid[m].creator + creator_share(q.read)
              /\ paid'[m].treasury = paid[m].treasury /\ paid'[m].swept = paid[m].swept + 1
<1> PICK m, q : m = AtMarket(sweep[r]) /\ q = sweep[r]
  OBVIOUS
<1>1. q \in Run /\ q.pc \in {"treasury", "creator"}
  BY DEF FeeTypes, Sending
<1>2. m \in Markets
  <2>1. q.todo \in SUBSET Markets /\ q.todo # {}
    BY <1>1 DEF FeeTypes, Run
  <2>2. m = NextOf(q.todo)
    BY DEF AtMarket
  <2> QED
    BY <2>1, <2>2, NextIn
<1>3. q.read \in Nat
  BY <1>1 DEF Run
<1>4. PICK s : s = Share(r)
  OBVIOUS
<1>5. /\ q.pc = "treasury" => s = half(q.read)
      /\ q.pc = "creator" => s = creator_share(q.read)
  BY <1>1, <1>4 DEF Share
<1>6. s \in Nat
  BY <1>1, <1>3, <1>5, Halves
<1>7. s <= fees[m] /\ fees' = [fees EXCEPT ![m] = @ - s]
  BY <1>4 DEF Withdraw, Affordable, AtMarket
<1>8. paid' = IF q.pc = "treasury" THEN [paid EXCEPT ![m].treasury = @ + s]
              ELSE [paid EXCEPT ![m].creator = @ + s, ![m].swept = @ + 1]
  BY <1>4 DEF Withdraw, AtMarket
<1>9. PICK x \in PaidType : x = paid[m]
  BY <1>2 DEF FeeTypes, PaidType
<1>10. CASE q.pc = "treasury"
  <2>1. PICK y : y = [x EXCEPT !.treasury = @ + s]
    OBVIOUS
  <2>2. /\ y \in PaidType /\ y.treasury = x.treasury + s
        /\ y.creator = x.creator /\ y.swept = x.swept
    BY <1>6, <1>9, <2>1 DEF PaidType
  <2>3. paid' = [paid EXCEPT ![m] = y]
    BY <1>2, <1>8, <1>9, <1>10, <2>1 DEF FeeTypes, PaidType
  <2> QED
    BY <1>2, <1>3, <1>4, <1>5, <1>6, <1>7, <1>9, <1>10, <2>2, <2>3 DEF FeeTypes, PaidType
<1>11. CASE q.pc = "creator"
  <2>1. PICK y : y = [x EXCEPT !.creator = @ + s, !.swept = @ + 1]
    OBVIOUS
  <2>2. /\ y \in PaidType /\ y.treasury = x.treasury
        /\ y.creator = x.creator + s /\ y.swept = x.swept + 1
    <3>1. x.creator + s \in Nat /\ x.swept + 1 \in Nat /\ x.treasury \in Nat
      BY <1>6, <1>9 DEF PaidType
    <3>2. y = [treasury |-> x.treasury, creator |-> x.creator + s, swept |-> x.swept + 1]
      BY <1>9, <2>1 DEF PaidType
    <3> QED
      BY <3>1, <3>2 DEF PaidType
  <2>3. paid' = [paid EXCEPT ![m] = y]
    BY <1>2, <1>8, <1>9, <1>11, <2>1 DEF FeeTypes, PaidType
  <2> QED
    BY <1>2, <1>3, <1>4, <1>5, <1>6, <1>7, <1>9, <1>11, <2>2, <2>3 DEF FeeTypes, PaidType
<1> QED
  BY <1>1, <1>10, <1>11

(* A run that goes on with the next market is behind with none. *)
LEMMA LeavesRun ==
  ASSUME NEW q \in Run
  PROVE  LET rest == q.todo \ {NextOf(q.todo)}
             p == [pc |-> IF rest = {} THEN "idle" ELSE "fetch", todo |-> rest, read |-> 0]
         IN  p \in Run /\ p.pc \notin {"treasury", "creator"} /\ (p.pc # "idle" => p.todo # {})
  BY DEF Run

(* A step of one run keeps the shares when the creator gets, or is to get, *)
(* no more than the treasury and the odd lamports make up for.             *)
LEMMA OneRunKeeps ==
  ASSUME FeeInv, NEW r \in Sweeps, NEW q \in Run, q.pc # "idle" => q.todo # {},
         sweep' = [sweep EXCEPT ![r] = q],
         fees' \in [Markets -> Nat], paid' \in [Markets -> PaidType],
         \A m \in Markets :
           paid'[m].creator + Behind(q, m) + paid[m].treasury + paid[m].swept
             <= paid'[m].treasury + paid'[m].swept + paid[m].creator + Behind(sweep[r], m)
  PROVE  FeeInv'
<1>1. FeeTypes'
  BY DEF FeeInv, FeeTypes, PaidType
<1>2. ASSUME NEW m \in Markets
      PROVE  paid'[m].creator + BehindAll(m)' <= paid'[m].treasury + paid'[m].swept
  <2>1. PICK f, g : /\ f = [s \in Sweeps |-> Behind(sweep[s], m)]
                    /\ g = [s \in Sweeps |-> Behind(sweep'[s], m)]
    OBVIOUS
  <2>2. \A p \in Run : Behind(p, m) \in Nat
    BY Halves DEF Behind, Run
  <2>3. f \in [Sweeps -> Nat] /\ g \in [Sweeps -> Nat]
    BY <1>1, <2>1, <2>2 DEF FeeInv, FeeTypes
  <2>4. g[r] = Behind(q, m) /\ f[r] = Behind(sweep[r], m) /\ \A s \in Sweeps : s # r => g[s] = f[s]
    BY <2>1 DEF FeeInv, FeeTypes
  <2>5. IsFiniteSet(Sweeps)
    BY KeepersAssumption
  <2>6. SumFunction(g) = SumFunction(f) - f[r] + g[r]
    BY <2>3, <2>4, <2>5, FamilyUpdate
  <2>7. SumFunction(f) \in Nat /\ SumFunction(g) \in Nat
    BY <2>3, <2>5, FamilySum
  <2>8. BehindAll(m) = SumFunction(f) /\ BehindAll(m)' = SumFunction(g)
    BY <2>1 DEF BehindAll
  <2>9. paid[m].creator + SumFunction(f) <= paid[m].treasury + paid[m].swept
    BY <2>8 DEF FeeInv, Shares
  <2>10. /\ paid[m].creator \in Nat /\ paid[m].treasury \in Nat /\ paid[m].swept \in Nat
         /\ paid'[m].creator \in Nat /\ paid'[m].treasury \in Nat /\ paid'[m].swept \in Nat
         /\ f[r] \in Nat /\ g[r] \in Nat
    BY <2>3 DEF FeeInv, FeeTypes, PaidType
  <2>11. paid'[m].creator + g[r] + paid[m].treasury + paid[m].swept
           <= paid'[m].treasury + paid'[m].swept + paid[m].creator + f[r]
    BY <2>4
  <2> HIDE <2>4
  <2>12. paid'[m].creator + SumFunction(g) <= paid'[m].treasury + paid'[m].swept
    BY <2>6, <2>7, <2>9, <2>10, <2>11
  <2> QED
    BY <2>8, <2>12
<1> QED
  BY <1>1, <1>2 DEF FeeInv, Shares

(* A run that leaves a market without paying is no longer behind with it.  *)
LEMMA UnpaidKeeps ==
  ASSUME FeeInv, NEW r \in Sweeps, NEW q \in Run, q.pc # "idle" => q.todo # {}, q.pc # "creator",
         sweep' = [sweep EXCEPT ![r] = q], UNCHANGED <<fees, paid>>
  PROVE  FeeInv'
<1>1. \A p \in Run, m \in Markets : Behind(p, m) \in Nat
  BY Halves DEF Behind, Run
<1>2. \A m \in Markets :
        paid'[m].creator + Behind(q, m) + paid[m].treasury + paid[m].swept
          <= paid'[m].treasury + paid'[m].swept + paid[m].creator + Behind(sweep[r], m)
  <2> SUFFICES ASSUME NEW m \in Markets
               PROVE  paid'[m].creator + Behind(q, m) + paid[m].treasury + paid[m].swept
                        <= paid'[m].treasury + paid'[m].swept + paid[m].creator + Behind(sweep[r], m)
    OBVIOUS
  <2>1. Behind(q, m) = 0
    BY DEF Behind
  <2>2. Behind(sweep[r], m) \in Nat
    BY <1>1 DEF FeeInv, FeeTypes
  <2>3. paid[m].creator \in Nat /\ paid[m].treasury \in Nat /\ paid[m].swept \in Nat
    BY DEF FeeInv, FeeTypes
  <2> QED
    BY <2>1, <2>2, <2>3
<1>3. fees' \in [Markets -> Nat] /\ paid' \in [Markets -> PaidType]
  BY DEF FeeInv, FeeTypes, PaidType
<1> QED
  BY <1>2, <1>3, OneRunKeeps

(* A payment, after which the run is due to pay the creator or has left.   *)
LEMMA PaymentKeeps ==
  ASSUME FeeInv, NEW r \in Sweeps, Sending(r), Withdraw(r),
         NEW q \in Run, q.pc # "idle" => q.todo # {}, sweep' = [sweep EXCEPT ![r] = q],
         q.pc # "creator" \/ (/\ sweep[r].pc = "treasury"
                              /\ AtMarket(q) = AtMarket(sweep[r]) /\ q.read = sweep[r].read)
  PROVE  FeeInv'
<1> PICK x, n : x = sweep[r] /\ n = AtMarket(sweep[r])
  OBVIOUS
<1>1. FeeTypes
  BY DEF FeeInv
<1>2. x \in Run /\ x.pc \in {"treasury", "creator"}
  BY <1>1 DEF FeeTypes, Sending
<1>3. /\ n \in Markets /\ x.read \in Nat
      /\ fees' \in [Markets -> Nat] /\ paid' \in [Markets -> PaidType]
      /\ \A k \in Markets : k # n => paid'[k] = paid[k]
      /\ x.pc = "treasury" =>
           /\ paid'[n].treasury = paid[n].treasury + half(x.read)
           /\ paid'[n].creator = paid[n].creator /\ paid'[n].swept = paid[n].swept
      /\ x.pc = "creator" =>
           /\ paid'[n].creator = paid[n].creator + creator_share(x.read)
           /\ paid'[n].treasury = paid[n].treasury /\ paid'[n].swept = paid[n].swept + 1
  BY <1>1, WithdrawPays
<1>4. ASSUME NEW m \in Markets
      PROVE  paid'[m].creator + Behind(q, m) + paid[m].treasury + paid[m].swept
               <= paid'[m].treasury + paid'[m].swept + paid[m].creator + Behind(x, m)
  <2>1. paid[m].creator \in Nat /\ paid[m].treasury \in Nat /\ paid[m].swept \in Nat
    BY <1>1 DEF FeeTypes
  <2>2. /\ half(x.read) \in Nat /\ creator_share(x.read) \in Nat
        /\ creator_share(x.read) <= half(x.read) + 1
    BY <1>3, Halves
  <2>3. CASE m # n
    <3>1. AtMarket(x) = n /\ (q.pc = "creator" => AtMarket(q) = n)
      OBVIOUS
    <3>2. Behind(q, m) = 0 /\ Behind(x, m) = 0
      BY <2>3, <3>1 DEF Behind
    <3> QED
      BY <1>3, <2>1, <2>3, <3>2
  <2>4. CASE m = n /\ x.pc = "treasury"
    <3>1. Behind(x, m) = 0
      BY <2>4 DEF Behind
    <3>2. Behind(q, m) \in {0, half(x.read)}
      BY DEF Behind
    <3> QED
      BY <1>3, <2>1, <2>2, <2>4, <3>1, <3>2
  <2>5. CASE m = n /\ x.pc = "creator"
    <3>1. q.pc # "creator"
      BY <2>5
    <3>2. Behind(q, m) = 0
      BY <3>1 DEF Behind
    <3>3. Behind(x, m) = half(x.read)
      BY <2>5 DEF Behind
    <3> QED
      BY <1>3, <2>1, <2>2, <2>5, <3>2, <3>3
  <2> QED
    BY <1>2, <2>3, <2>4, <2>5
<1> QED
  BY <1>3, <1>4, OneRunKeeps

LEMMA SweepStepKeeps ==
  ASSUME Markets # {}, FeeInv, NEW r \in Sweeps, SweepStep(r) \/ TransferFails(r)
  PROVE  FeeInv'
<1> PICK x : x = sweep[r]
  OBVIOUS
<1>1. FeeTypes
  BY DEF FeeInv
<1>2. x \in Run /\ (x.pc # "idle" => x.todo # {})
  BY <1>1 DEF FeeTypes
<1> DEFINE rest == x.todo \ {NextOf(x.todo)}
           p == [pc |-> IF rest = {} THEN "idle" ELSE "fetch", todo |-> rest, read |-> 0]
<1>3. p \in Run /\ p.pc \notin {"treasury", "creator"} /\ (p.pc # "idle" => p.todo # {})
  BY <1>2, LeavesRun
<1>4. Leave(r) => sweep' = [sweep EXCEPT ![r] = p]
  BY DEF Leave
<1> HIDE DEF p
<1>5. CASE Leave(r) /\ UNCHANGED <<fees, paid>>
  <2>1. PICK q : q = p
    OBVIOUS
  <2> QED
    BY <1>3, <1>4, <1>5, <2>1, UnpaidKeeps
<1>6. CASE Leave(r) /\ Sending(r) /\ Withdraw(r)
  <2>1. PICK q : q = p
    OBVIOUS
  <2> QED
    BY <1>3, <1>4, <1>6, <2>1, PaymentKeeps
<1>7. CASE SweepStarts(r)
  <2>1. PICK q : q = [pc |-> "fetch", todo |-> Markets, read |-> 0]
    OBVIOUS
  <2>2. q \in Run /\ q.pc = "fetch" /\ q.todo # {}
    BY <2>1 DEF Run
  <2> QED
    BY <1>7, <2>1, <2>2, UnpaidKeeps DEF SweepStarts, program
<1>8. CASE FetchFees(r) /\ ~Leave(r)
  <2>1. PICK q : q = [x EXCEPT !.pc = "treasury", !.read = fees[NextOf(x.todo)]]
    OBVIOUS
  <2>2. NextOf(x.todo) \in Markets
    BY <1>2, <1>8, NextIn DEF Run, FetchFees
  <2>3. fees[NextOf(x.todo)] \in Nat
    BY <1>1, <2>2 DEF FeeTypes
  <2>4. q \in Run /\ q.pc = "treasury" /\ q.todo # {}
    BY <1>2, <1>8, <2>1, <2>3 DEF Run, FetchFees
  <2>5. sweep' = [sweep EXCEPT ![r] = q]
    BY <1>1, <1>8, <2>1 DEF FetchFees, FeeTypes, Run
  <2> QED
    BY <1>8, <2>4, <2>5, UnpaidKeeps DEF FetchFees, program
<1>9. CASE Pay(r) /\ x.pc = "treasury"
  <2>1. PICK q : q = [x EXCEPT !.pc = "creator"]
    OBVIOUS
  <2>2. q \in Run /\ q.todo # {} /\ AtMarket(q) = AtMarket(x) /\ q.read = x.read
    BY <1>2, <1>9, <2>1 DEF Run, AtMarket
  <2>3. sweep' = [sweep EXCEPT ![r] = q]
    BY <1>1, <1>9, <2>1 DEF Pay, FeeTypes, Run
  <2> QED
    BY <1>9, <2>2, <2>3, PaymentKeeps DEF Pay
<1> QED
  BY <1>5, <1>6, <1>7, <1>8, <1>9 DEF SweepStep, TransferFails, FetchFees, Pay, Rejected, program

(* The shares hold in every reachable state. *)
LEMMA FeesInvariant ==
  ASSUME Markets # {}
  PROVE  KeeperSpec => []FeeInv
<1>1. KeeperInit => FeeInv
  <2> SUFFICES ASSUME KeeperInit PROVE FeeInv
    OBVIOUS
  <2>1. FeeTypes
    BY DEF KeeperInit, FeeTypes, Run
  <2>2. ASSUME NEW m \in Markets PROVE BehindAll(m) = 0
    <3>1. PICK f : f = [s \in Sweeps |-> Behind(sweep[s], m)]
      OBVIOUS
    <3>2. f \in [Sweeps -> Nat] /\ \A s \in Sweeps : f[s] = 0
      BY <3>1 DEF KeeperInit, Behind
    <3>3. SumFunction(f) = 0
      BY <3>2, FamilyZero, KeepersAssumption
    <3> QED
      BY <3>1, <3>3 DEF BehindAll
  <2> QED
    BY <2>1, <2>2 DEF FeeInv, Shares, KeeperInit
<1>2. FeeInv /\ [KeeperNext]_keeperVars => FeeInv'
  <2> SUFFICES ASSUME FeeInv, [KeeperNext]_keeperVars PROVE FeeInv'
    OBVIOUS
  <2>1. ASSUME NEW r \in Sweeps, SweepStep(r) \/ TransferFails(r) PROVE FeeInv'
    BY <2>1, SweepStepKeeps
  <2>2. ASSUME NEW m \in Markets, Earn(m) PROVE FeeInv'
    <3>1. fees' \in [Markets -> Nat]
      BY <2>2, KeepersAssumption DEF Earn, FeeInv, FeeTypes
    <3> QED
      BY <2>2, <3>1 DEF Earn, FeeInv, FeeTypes, Shares, BehindAll
  <2>3. CASE UNCHANGED <<fees, paid, sweep>>
    BY <2>3 DEF FeeInv, FeeTypes, Shares, BehindAll
  <2>4. ASSUME NEW m \in Markets, Trade(m) \/ FirstPush(m) \/ SetFrozen(m)
        PROVE  UNCHANGED <<fees, paid, sweep>>
    BY <2>4 DEF Trade, FirstPush, SetFrozen
  <2>5. ASSUME NEW r \in Grads, GradStep(r) \/ GraduateFails(r)
        PROVE  UNCHANGED <<fees, paid, sweep>>
    BY <2>5 DEF GradStep, GraduateFails, ReadMarkets, Pass, Claim, Graduate, GradEnds, program
  <2>6. UNCHANGED keeperVars => UNCHANGED <<fees, paid, sweep>>
    BY DEF keeperVars
  <2> QED
    BY <2>1, <2>2, <2>3, <2>4, <2>5, <2>6 DEF KeeperNext
<1> QED
  BY <1>1, <1>2, PTL DEF KeeperSpec

(* However runs of sweepFees overlap, take fees from under each other and  *)
(* fail between their two payments, the creator never gets more than the   *)
(* treasury but for the odd lamport of each of the creator's payments; and *)
(* no market has two graduations under way.                                *)
THEOREM FeesShared == KeeperSpec => []FeesAndGraduationsKept
<1>1. CASE Markets = {}
  <2>1. CreatorNeverAhead
    BY <1>1 DEF CreatorNeverAhead
  <2> QED
    BY <2>1, GraduatesOnce, PTL DEF FeesAndGraduationsKept
<1>2. CASE Markets # {}
  <2>1. FeeInv => CreatorNeverAhead
    <3> SUFFICES ASSUME FeeInv, NEW m \in Markets
                 PROVE  paid[m].creator <= paid[m].treasury + paid[m].swept
      BY DEF CreatorNeverAhead
    <3>1. PICK f : f = [s \in Sweeps |-> Behind(sweep[s], m)]
      OBVIOUS
    <3>2. \A p \in Run : Behind(p, m) \in Nat
      BY Halves DEF Behind, Run
    <3>3. f \in [Sweeps -> Nat]
      BY <3>1, <3>2 DEF FeeInv, FeeTypes
    <3>4. SumFunction(f) \in Nat
      BY <3>3, FamilySum, KeepersAssumption
    <3>5. BehindAll(m) \in Nat
      BY <3>1, <3>4 DEF BehindAll
    <3>6. paid[m].creator \in Nat /\ paid[m].treasury \in Nat /\ paid[m].swept \in Nat
      BY DEF FeeInv, FeeTypes
    <3>7. paid[m].creator + BehindAll(m) <= paid[m].treasury + paid[m].swept
      BY DEF FeeInv, Shares
    <3> QED
      BY <3>5, <3>6, <3>7
  <2>2. FeeInv /\ OneGraduationAtATime => FeesAndGraduationsKept
    BY <2>1 DEF FeesAndGraduationsKept
  <2>3. KeeperSpec => []FeeInv
    BY <1>2, FeesInvariant
  <2> QED
    BY <2>2, <2>3, GraduatesOnce, PTL
<1> QED
  BY <1>1, <1>2

-----------------------------------------------------------------------------
(* One run alone.                                                          *)


(* A run that has gone on with the next market is behind with none. *)
LEMMA AloneLeaves ==
  ASSUME Markets # {}, NEW s, Sweeps = {s}, AloneInv, Leave(s),
         fees' \in [Markets -> Nat], paid' \in [Markets -> PaidType], callFaults' = callFaults,
         callFaults = Faults => \A m \in Markets : paid'[m].creator - paid'[m].treasury \in 0..paid'[m].swept
  PROVE  AloneInv'
<1> PICK x, p :
      /\ x = sweep[s]
      /\ p = [pc |-> IF x.todo \ {NextOf(x.todo)} = {} THEN "idle" ELSE "fetch",
              todo |-> x.todo \ {NextOf(x.todo)}, read |-> 0]
  OBVIOUS
<1>1. x \in Run
  BY DEF AloneInv, FeeTypes
<1>2. p \in Run /\ p.pc \notin {"treasury", "creator"} /\ (p.pc # "idle" => p.todo # {})
  BY <1>1, LeavesRun
<1>3. sweep' = [sweep EXCEPT ![s] = p]
  BY DEF Leave
<1>4. sweep' \in [Sweeps -> Run] /\ sweep'[s] = p
  BY <1>2, <1>3 DEF AloneInv, FeeTypes
<1>5. FeeTypes'
  BY <1>2, <1>4 DEF FeeTypes, PaidType
<1>6. ASSUME callFaults = Faults, NEW m \in Markets
      PROVE  paid'[m].creator + Behind(sweep'[s], m) - paid'[m].treasury \in 0..paid'[m].swept
  <2>1. Behind(sweep'[s], m) = 0
    BY <1>2, <1>4 DEF Behind
  <2>2. paid'[m].creator \in Nat /\ paid'[m].treasury \in Nat
    BY DEF PaidType
  <2> QED
    BY <1>6, <2>1, <2>2
<1> QED
  BY <1>2, <1>4, <1>5, <1>6 DEF AloneInv

LEMMA AloneSteps ==
  ASSUME Markets # {}, NEW s, Sweeps = {s}, AloneInv, SweepStep(s)
  PROVE  AloneInv'
<1> PICK x : x = sweep[s]
  OBVIOUS
<1>1. x \in Run /\ (x.pc # "idle" => x.todo # {}) /\ FeeTypes
  BY DEF AloneInv, FeeTypes
<1>2. \A m \in Markets : /\ paid[m].creator \in Nat /\ paid[m].treasury \in Nat
                         /\ paid[m].swept \in Nat
  BY <1>1 DEF FeeTypes
<1>3. callFaults' = callFaults
  BY DEF SweepStep, SweepStarts, FetchFees, Pay, Rejected
<1>4. fees \in [Markets -> Nat] /\ paid \in [Markets -> PaidType]
  BY <1>1 DEF FeeTypes, PaidType
<1>5. x.pc # "creator" /\ callFaults = Faults =>
        \A m \in Markets : paid[m].creator - paid[m].treasury \in 0..paid[m].swept
  <2> SUFFICES ASSUME x.pc # "creator", callFaults = Faults, NEW m \in Markets
               PROVE  paid[m].creator - paid[m].treasury \in 0..paid[m].swept
    OBVIOUS
  <2>1. Behind(x, m) = 0
    BY DEF Behind
  <2>2. paid[m].creator + Behind(x, m) - paid[m].treasury \in 0..paid[m].swept
    BY DEF AloneInv
  <2> QED
    BY <1>2, <2>1, <2>2
<1>6. x.pc # "idle" => AtMarket(x) \in Markets /\ x.read \in Nat
  BY <1>1, NextIn DEF Run, AtMarket
<1>7. ASSUME NEW q \in Run, q.pc \in {"fetch", "treasury"}, q.todo # {},
             x.pc # "creator", sweep' = [sweep EXCEPT ![s] = q], UNCHANGED <<fees, paid>>,
             q.pc = "treasury" => q.read <= fees[AtMarket(q)]
      PROVE  AloneInv'
  <2>1. sweep' \in [Sweeps -> Run] /\ sweep'[s] = q
    BY <1>1, <1>7 DEF FeeTypes
  <2>2. FeeTypes'
    BY <1>1, <1>7, <2>1 DEF FeeTypes
  <2>3. ASSUME callFaults = Faults, NEW m \in Markets
        PROVE  paid[m].creator + Behind(q, m) - paid[m].treasury \in 0..paid[m].swept
    <3>1. Behind(q, m) = 0
      BY <1>7 DEF Behind
    <3> QED
      BY <1>2, <1>5, <1>7, <2>3, <3>1
  <2> QED
    BY <1>3, <1>7, <2>1, <2>2, <2>3 DEF AloneInv
<1>8. CASE SweepStarts(s)
  <2>1. PICK q : q = [pc |-> "fetch", todo |-> Markets, read |-> 0]
    OBVIOUS
  <2>2. q \in Run /\ q.pc = "fetch" /\ q.todo # {}
    BY <2>1 DEF Run
  <2> QED
    BY <1>7, <1>8, <2>1, <2>2 DEF SweepStarts, program
<1>9. CASE FetchFees(s)
  <2>1. CASE Leave(s)
    BY <1>3, <1>4, <1>5, <1>9, <2>1, AloneLeaves DEF FetchFees, program
  <2>2. CASE ~Leave(s)
    <3>1. PICK q : q = [x EXCEPT !.pc = "treasury", !.read = fees[NextOf(x.todo)]]
      OBVIOUS
    <3>2. AtMarket(x) \in Markets /\ fees[AtMarket(x)] \in Nat
      BY <1>4, <1>6, <1>9 DEF FetchFees
    <3>3. q \in Run /\ q.pc = "treasury" /\ q.todo # {} /\ q.read = fees[AtMarket(q)]
      BY <1>1, <1>9, <3>1, <3>2 DEF Run, AtMarket, FetchFees
    <3>4. sweep' = [sweep EXCEPT ![s] = q]
      BY <1>1, <1>9, <2>2, <3>1 DEF FetchFees, FeeTypes, Run
    <3>5. q.read <= fees[AtMarket(q)]
      BY <3>1, <3>2, <3>3 DEF AtMarket
    <3> QED
      BY <1>7, <1>9, <3>3, <3>4, <3>5 DEF FetchFees, program
  <2> QED
    BY <2>1, <2>2
<1>10. CASE Pay(s)
  <2> PICK n : n = AtMarket(x)
    OBVIOUS
  <2>1. /\ n \in Markets /\ x.read \in Nat
        /\ fees' \in [Markets -> Nat] /\ paid' \in [Markets -> PaidType]
        /\ \A k \in Markets : k # n => paid'[k] = paid[k]
        /\ fees'[n] = fees[n] - Share(s)
        /\ x.pc = "treasury" =>
             /\ paid'[n].treasury = paid[n].treasury + half(x.read)
             /\ paid'[n].creator = paid[n].creator /\ paid'[n].swept = paid[n].swept
        /\ x.pc = "creator" =>
             /\ paid'[n].creator = paid[n].creator + creator_share(x.read)
             /\ paid'[n].treasury = paid[n].treasury /\ paid'[n].swept = paid[n].swept + 1
    BY <1>1, <1>10, WithdrawPays DEF Pay
  <2>2. /\ half(x.read) \in Nat /\ creator_share(x.read) \in Nat
        /\ half(x.read) <= creator_share(x.read)
        /\ creator_share(x.read) <= half(x.read) + 1
        /\ half(x.read) + creator_share(x.read) = x.read
    BY <2>1, Halves
  <2>3. CASE x.pc = "creator"
    <3>1. ASSUME callFaults = Faults, NEW m \in Markets
          PROVE  paid'[m].creator - paid'[m].treasury \in 0..paid'[m].swept
      <4>1. paid[m].creator + Behind(x, m) - paid[m].treasury \in 0..paid[m].swept
        BY <3>1 DEF AloneInv
      <4>2. CASE m = n
        <5>1. Behind(x, m) = half(x.read)
          BY <2>3, <4>2 DEF Behind
        <5> QED
          BY <1>2, <2>1, <2>2, <2>3, <4>1, <4>2, <5>1
      <4>3. CASE m # n
        <5>1. Behind(x, m) = 0
          BY <4>3 DEF Behind
        <5> QED
          BY <1>2, <2>1, <4>1, <4>3, <5>1
      <4> QED
        BY <4>2, <4>3
    <3>2. Leave(s)
      BY <1>10, <2>3 DEF Pay
    <3> QED
      BY <1>3, <2>1, <3>1, <3>2, AloneLeaves
  <2>4. CASE x.pc = "treasury"
    <3>1. PICK q : q = [x EXCEPT !.pc = "creator"]
      OBVIOUS
    <3>2. /\ q \in Run /\ q.pc = "creator" /\ q.todo # {} /\ AtMarket(q) = n
          /\ q.read = x.read
      BY <1>1, <2>4, <3>1 DEF Run, AtMarket
    <3>3. sweep' = [sweep EXCEPT ![s] = q]
      BY <1>1, <1>10, <2>4, <3>1 DEF Pay, FeeTypes, Run
    <3>4. sweep' \in [Sweeps -> Run] /\ sweep'[s] = q
      BY <1>1, <3>2, <3>3 DEF FeeTypes
    <3>5. FeeTypes'
      BY <2>1, <3>2, <3>4 DEF FeeTypes, PaidType
    <3>6. callFaults = Faults => creator_share(q.read) <= fees'[n]
      <4>1. callFaults = Faults => x.read <= fees[n]
        BY <2>4 DEF AloneInv
      <4>2. Share(s) = half(x.read) /\ fees[n] \in Nat
        BY <1>4, <2>1, <2>4 DEF Share
      <4> QED
        BY <2>1, <2>2, <3>2, <4>1, <4>2
    <3>7. ASSUME callFaults = Faults, NEW m \in Markets
          PROVE  paid'[m].creator + Behind(q, m) - paid'[m].treasury \in 0..paid'[m].swept
      <4>1. paid[m].creator - paid[m].treasury \in 0..paid[m].swept
        BY <1>5, <2>4, <3>7
      <4>2. CASE m = n
        <5>1. Behind(q, m) = half(x.read)
          BY <3>2, <4>2 DEF Behind
        <5> QED
          BY <1>2, <2>1, <2>2, <2>4, <4>1, <4>2, <5>1
      <4>3. CASE m # n
        <5>1. Behind(q, m) = 0
          BY <3>2, <4>3 DEF Behind
        <5> QED
          BY <1>2, <2>1, <4>1, <4>3, <5>1
      <4> QED
        BY <4>2, <4>3
    <3> QED
      BY <1>3, <3>2, <3>4, <3>5, <3>6, <3>7 DEF AloneInv
  <2> QED
    BY <1>10, <2>3, <2>4 DEF Pay, Sending
<1>11. CASE Rejected(s)
  <2>1. CASE x.pc = "treasury"
    BY <1>3, <1>4, <1>5, <1>11, <2>1, AloneLeaves DEF Rejected, program
  <2>2. CASE x.pc = "creator"
    <3>1. callFaults # Faults
      BY <1>11, <2>2 DEF Rejected, Affordable, Share, AloneInv, AtMarket
    <3> QED
      BY <1>3, <1>4, <1>11, <3>1, AloneLeaves DEF Rejected, program
  <2> QED
    BY <1>11, <2>1, <2>2 DEF Rejected, Sending
<1> QED
  BY <1>8, <1>9, <1>10, <1>11 DEF SweepStep

(* A single run of sweepFees, until a transfer fails, pays both sides      *)
(* alike: trades may earn fees between its reads and its payments, but the *)
(* creator only ever gets the odd lamports more.                           *)
THEOREM AloneSplitsEvenly ==
  ASSUME NEW s, Sweeps = {s}
  PROVE  KeeperSpec => []EvenSplit
<1>1. CASE Markets = {}
  <2>1. EvenSplit
    BY <1>1 DEF EvenSplit
  <2> QED
    BY <2>1, PTL
<1>2. CASE Markets # {}
  <2>1. KeeperInit => AloneInv
    <3> SUFFICES ASSUME KeeperInit PROVE AloneInv
      OBVIOUS
    <3>1. FeeTypes
      BY DEF KeeperInit, FeeTypes, Run
    <3>2. \A r \in Sweeps, m \in Markets : Behind(sweep[r], m) = 0
      BY DEF KeeperInit, Behind
    <3>3. Faults \in Nat
      BY KeepersAssumption
    <3>4. \A r \in Sweeps, m \in Markets :
            paid[m].creator + Behind(sweep[r], m) - paid[m].treasury \in 0..paid[m].swept
      BY <3>2 DEF KeeperInit
    <3> QED
      BY <3>1, <3>3, <3>4 DEF AloneInv, KeeperInit
  <2>2. AloneInv /\ FeeInv' /\ [KeeperNext]_keeperVars => AloneInv'
    <3> SUFFICES ASSUME AloneInv, FeeInv', [KeeperNext]_keeperVars PROVE AloneInv'
      OBVIOUS
    <3>1. FeeTypes'
      BY DEF FeeInv
    <3>2. CASE SweepStep(s)
      BY <1>2, <3>2, AloneSteps
    <3>3. CASE callFaults > 0 /\ callFaults' = callFaults - 1
      BY <3>1, <3>3, KeepersAssumption DEF AloneInv
    <3>4. ASSUME NEW m \in Markets, Earn(m) PROVE AloneInv'
      <4>1. PICK f \in Nat : fees' = [fees EXCEPT ![m] = @ + f]
        BY <3>4, KeepersAssumption DEF Earn
      <4>2. \A k \in Markets : fees[k] \in Nat /\ fees'[k] \in Nat /\ fees[k] <= fees'[k]
        BY <4>1 DEF AloneInv, FeeTypes
      <4>3. /\ UNCHANGED <<sweep, paid, callFaults>>
        BY <3>4 DEF Earn
      <4>4. ASSUME callFaults = Faults
            PROVE  /\ sweep[s].pc = "treasury" => sweep[s].read <= fees'[AtMarket(sweep[s])]
                   /\ sweep[s].pc = "creator" => creator_share(sweep[s].read) <= fees'[AtMarket(sweep[s])]
        <5> PICK x : x = sweep[s]
          OBVIOUS
        <5>1. x \in Run /\ (x.pc # "idle" => x.todo # {})
          BY DEF AloneInv, FeeTypes
        <5>2. x.pc # "idle" => AtMarket(x) \in Markets
          BY <5>1, NextIn DEF Run, AtMarket
        <5>3. x.read \in Nat /\ creator_share(x.read) \in Nat
          BY <5>1, Halves DEF Run
        <5>4. /\ x.pc = "treasury" => x.read <= fees[AtMarket(x)]
              /\ x.pc = "creator" => creator_share(x.read) <= fees[AtMarket(x)]
          BY <4>4 DEF AloneInv
        <5>5. CASE x.pc = "treasury"
          <6>1. PICK n \in Markets : n = AtMarket(x)
            BY <5>2, <5>5
          <6> QED
            BY <4>2, <5>3, <5>4, <5>5, <6>1
        <5>6. CASE x.pc = "creator"
          <6>1. PICK n \in Markets : n = AtMarket(x)
            BY <5>2, <5>6
          <6> QED
            BY <4>2, <5>3, <5>4, <5>6, <6>1
        <5> QED
          BY <5>5, <5>6
      <4> QED
        BY <3>1, <4>3, <4>4 DEF AloneInv, Behind
    <3>5. CASE UNCHANGED <<fees, paid, sweep, callFaults>>
      BY <3>1, <3>5 DEF AloneInv, Behind
    <3>6. ASSUME NEW m \in Markets, Trade(m) \/ FirstPush(m) \/ SetFrozen(m)
          PROVE  UNCHANGED <<fees, paid, sweep, callFaults>>
      BY <3>6 DEF Trade, FirstPush, SetFrozen
    <3>7. ASSUME NEW r \in Grads, GradStep(r) PROVE UNCHANGED <<fees, paid, sweep, callFaults>>
      BY <3>7 DEF GradStep, ReadMarkets, Pass, Claim, Graduate, GradEnds, program
    <3>8. ASSUME NEW r \in Grads, GraduateFails(r) PROVE callFaults > 0 /\ callFaults' = callFaults - 1
      BY <3>8 DEF GraduateFails, CallFails
    <3>9. TransferFails(s) => callFaults > 0 /\ callFaults' = callFaults - 1
      BY DEF TransferFails, CallFails
    <3>10. UNCHANGED keeperVars => UNCHANGED <<fees, paid, sweep, callFaults>>
      BY DEF keeperVars
    <3> QED
      BY <3>2, <3>3, <3>4, <3>5, <3>6, <3>7, <3>8, <3>9, <3>10 DEF KeeperNext
  <2>3. AloneInv => EvenSplit
    <3> SUFFICES ASSUME AloneInv, callFaults = Faults, NEW m \in Markets, sweep[s].pc # "creator"
                 PROVE  paid[m].creator - paid[m].treasury \in 0..paid[m].swept
      BY DEF EvenSplit
    <3>1. Behind(sweep[s], m) = 0
      BY DEF Behind
    <3>2. paid[m].creator + Behind(sweep[s], m) - paid[m].treasury \in 0..paid[m].swept
      BY DEF AloneInv
    <3>3. paid[m].creator \in Nat /\ paid[m].treasury \in Nat
      BY DEF AloneInv, FeeTypes
    <3> QED
      BY <3>1, <3>2, <3>3
  <2>4. KeeperSpec => []FeeInv
    BY <1>2, FeesInvariant
  <2> QED
    BY <2>1, <2>2, <2>3, <2>4, PTL DEF KeeperSpec
<1> QED
  BY <1>1, <1>2

-----------------------------------------------------------------------------
(* The poller's feed: sequences ranked.                                   *)

(* What Ranked makes of a numbering: the elements, each of them once. *)
LEMMA RankedArranges ==
  ASSUME NEW X, NEW s \in Seq(X), NEW S, IsFiniteSet(S), S \subseteq DOMAIN s,
         NEW rank, rank \in [S -> 1..Cardinality(S)],
         \A i, j \in S : rank[i] = rank[j] => i = j,
         \A n \in 1..Cardinality(S) : \E i \in S : rank[i] = n
  PROVE  /\ Ranked(s, rank) \in Seq(X)
         /\ \A n \in DOMAIN Ranked(s, rank) : \E i \in S : rank[i] = n /\ Ranked(s, rank)[n] = s[i]
         /\ \A i \in S : \E n \in DOMAIN Ranked(s, rank) : Ranked(s, rank)[n] = s[i]
<1> DEFINE k == Cardinality(S)
           pick(n) == CHOOSE i \in S : rank[i] = n
           us == Ranked(s, rank)
<1>1. k \in Nat
  BY FS_CardinalityType
<1>2. us = [n \in 1..k |-> s[pick(n)]]
  BY DEF Ranked
<1>3. \A n \in 1..k : pick(n) \in S /\ rank[pick(n)] = n
  OBVIOUS
<1>4. \A i \in S : rank[i] \in 1..k /\ pick(rank[i]) = i
  <2> SUFFICES ASSUME NEW i \in S PROVE rank[i] \in 1..k /\ pick(rank[i]) = i
    OBVIOUS
  <2>1. rank[i] \in 1..k
    OBVIOUS
  <2>2. pick(rank[i]) \in S /\ rank[pick(rank[i])] = rank[i]
    BY <1>3, <2>1
  <2> HIDE DEF pick, k
  <2>3. QED BY <2>1, <2>2
<1> HIDE DEF k, pick, us
<1>5. DOMAIN us = 1..k /\ \A n \in 1..k : us[n] = s[pick(n)]
  BY <1>2
<1>6. us \in Seq(X)
  <2>1. \A i \in S : s[i] \in X
    OBVIOUS
  <2>2. \A n \in 1..k : us[n] \in X
    BY <1>3, <1>5, <2>1
  <2>3. us \in [1..k -> X]
    BY <1>2, <1>5, <2>2
  <2>4. QED BY <1>1, <2>3, IsASeq
<1>7. \A n \in DOMAIN us : \E i \in S : rank[i] = n /\ us[n] = s[i]
  BY <1>3, <1>5
<1>8. \A i \in S : \E n \in DOMAIN us : us[n] = s[i]
  BY <1>4, <1>5
<1>9. QED BY <1>6, <1>7, <1>8 DEF us

(* Every element of a sequence at an index of S, once each. *)
Arranges(us, s, S) ==
  /\ \A n \in DOMAIN us : \E i \in S : us[n] = s[i]
  /\ \A i \in S : \E n \in DOMAIN us : us[n] = s[i]
  /\ \A m, n \in DOMAIN us : m # n => \E i, j \in S : i # j /\ us[m] = s[i] /\ us[n] = s[j]

(* What is ranked by a linear order holds each element once. *)
LEMMA ArrangedBy ==
  ASSUME NEW X, NEW s \in Seq(X), NEW S, IsFiniteSet(S), S \subseteq DOMAIN s,
         NEW R, NEW rank, rank = RankBy(S, R),
         \A i \in S : <<i, i>> \in R,
         \A i, j \in S : <<i, j>> \in R \/ <<j, i>> \in R,
         \A i, j \in S : <<i, j>> \in R /\ <<j, i>> \in R => i = j,
         \A i, j, k \in S : <<i, j>> \in R /\ <<j, k>> \in R => <<i, k>> \in R
  PROVE  Ranked(s, rank) \in Seq(X) /\ Arranges(Ranked(s, rank), s, S)
<1>1. /\ rank \in [S -> 1..Cardinality(S)]
      /\ \A i, j \in S : rank[i] = rank[j] => i = j
      /\ \A n \in 1..Cardinality(S) : \E i \in S : rank[i] = n
  BY RanksAreNumbers
<1> DEFINE us == Ranked(s, rank)
<1> HIDE DEF us
<1>2. /\ us \in Seq(X)
      /\ \A n \in DOMAIN us : \E i \in S : rank[i] = n /\ us[n] = s[i]
      /\ \A i \in S : \E n \in DOMAIN us : us[n] = s[i]
  <2> HIDE DEF us
  <2>1. /\ Ranked(s, rank) \in Seq(X)
        /\ \A n \in DOMAIN Ranked(s, rank) : \E i \in S : rank[i] = n /\ Ranked(s, rank)[n] = s[i]
        /\ \A i \in S : \E n \in DOMAIN Ranked(s, rank) : Ranked(s, rank)[n] = s[i]
    BY <1>1, RankedArranges, SMTT(60)
  <2>2. QED BY <2>1 DEF us
<1>3. ASSUME NEW m \in DOMAIN us, NEW n \in DOMAIN us, m # n
      PROVE  \E i, j \in S : i # j /\ us[m] = s[i] /\ us[n] = s[j]
  <2>1. PICK i \in S : rank[i] = m /\ us[m] = s[i]
    BY <1>2
  <2>2. PICK j \in S : rank[j] = n /\ us[n] = s[j]
    BY <1>2
  <2>3. i # j
    BY <1>3, <2>1, <2>2
  <2>4. QED BY <2>1, <2>2, <2>3
<1>4. Arranges(us, s, S)
  BY <1>2, <1>3 DEF Arranges
<1>5. QED BY <1>2, <1>4 DEF us

(* The indexes of a sequence. *)
LEMMA IndexesFinite ==
  ASSUME NEW X, NEW s \in Seq(X)
  PROVE  /\ DOMAIN s = 1..Len(s) /\ Len(s) \in Nat
         /\ \A S : S \subseteq DOMAIN s => IsFiniteSet(S)
<1>1. DOMAIN s = 1..Len(s) /\ Len(s) \in Nat
  BY LenProperties
<1>2. IsFiniteSet(1..Len(s))
  BY <1>1, FS_Interval
<1>3. QED BY <1>1, <1>2, FS_Subset

(* A part of a sequence, in its order. *)
LEMMA KeptArranges ==
  ASSUME NEW X, NEW s \in Seq(X), NEW S, S \subseteq DOMAIN s
  PROVE  Kept(s, S) \in Seq(X) /\ Arranges(Kept(s, S), s, S)
<1> DEFINE R == {p \in S \X S : p[1] <= p[2]}
           rank == RankBy(S, R)
<1>1. S \subseteq Nat /\ IsFiniteSet(S)
  BY IndexesFinite
<1>2. \A i, j \in S : <<j, i>> \in R <=> j <= i
  OBVIOUS
<1>3. rank = [i \in S |-> Cardinality({j \in S : j <= i})]
  <2>1. \A i \in S : {j \in S : <<j, i>> \in R} = {j \in S : j <= i}
    BY <1>2
  <2>2. QED BY <2>1 DEF RankBy
<1>4. Kept(s, S) = Ranked(s, rank)
  BY <1>3 DEF Kept
<1>5. /\ \A i \in S : <<i, i>> \in R
      /\ \A i, j \in S : <<i, j>> \in R \/ <<j, i>> \in R
      /\ \A i, j \in S : <<i, j>> \in R /\ <<j, i>> \in R => i = j
      /\ \A i, j, k \in S : <<i, j>> \in R /\ <<j, k>> \in R => <<i, k>> \in R
  <2> HIDE DEF R
  <2>1. QED BY <1>1, <1>2
<1> HIDE DEF R
<1>6. Ranked(s, rank) \in Seq(X) /\ Arranges(Ranked(s, rank), s, S)
  BY <1>1, <1>5, ArrangedBy
<1>7. QED BY <1>4, <1>6

(* A sequence sorted by signature. *)
LEMMA ByTimeArranges ==
  ASSUME NEW X, NEW s \in Seq(X), \A i \in DOMAIN s : s[i].sig \in Int
  PROVE  ByTime(s) \in Seq(X) /\ Arranges(ByTime(s), s, DOMAIN s)
<1> DEFINE S == DOMAIN s
           R == {p \in S \X S : NotAfter(s, p[1], p[2])}
           rank == RankBy(S, R)
<1>1. S \subseteq Nat /\ IsFiniteSet(S)
  BY IndexesFinite
<1>2. \A i, j \in S : <<j, i>> \in R <=> NotAfter(s, j, i)
  OBVIOUS
<1>3. rank = [i \in S |-> Cardinality({j \in S : NotAfter(s, j, i)})]
  <2>1. \A i \in S : {j \in S : <<j, i>> \in R} = {j \in S : NotAfter(s, j, i)}
    BY <1>2
  <2>2. QED BY <2>1 DEF RankBy
<1>4. ByTime(s) = Ranked(s, rank)
  BY <1>3 DEF ByTime
<1>5. /\ \A i \in S : <<i, i>> \in R
      /\ \A i, j \in S : <<i, j>> \in R \/ <<j, i>> \in R
      /\ \A i, j \in S : <<i, j>> \in R /\ <<j, i>> \in R => i = j
      /\ \A i, j, k \in S : <<i, j>> \in R /\ <<j, k>> \in R => <<i, k>> \in R
  <2>1. \A i \in S : i \in Nat /\ s[i].sig \in Int
    BY <1>1
  <2> HIDE DEF R, S
  <2>2. \A i, j \in S : (<<j, i>> \in R) <=> (s[j].sig < s[i].sig \/ (s[j].sig = s[i].sig /\ j <= i))
    BY <1>2 DEF NotAfter
  <2>3. \A i \in S : <<i, i>> \in R
    BY <2>1, <2>2
  <2>4. \A i, j \in S : <<i, j>> \in R \/ <<j, i>> \in R
    <3> SUFFICES ASSUME NEW i \in S, NEW j \in S PROVE <<i, j>> \in R \/ <<j, i>> \in R
      OBVIOUS
    <3>1. i \in Nat /\ j \in Nat /\ s[i].sig \in Int /\ s[j].sig \in Int
      BY <2>1
    <3>2. \/ s[i].sig < s[j].sig \/ (s[i].sig = s[j].sig /\ i <= j)
          \/ s[j].sig < s[i].sig \/ (s[j].sig = s[i].sig /\ j <= i)
      BY <3>1
    <3>3. QED BY <2>2, <3>2
  <2>5. \A i, j \in S : <<i, j>> \in R /\ <<j, i>> \in R => i = j
    BY <2>1, <2>2
  <2>6. \A i, j, k \in S : <<i, j>> \in R /\ <<j, k>> \in R => <<i, k>> \in R
    <3> SUFFICES ASSUME NEW i \in S, NEW j \in S, NEW k \in S, <<i, j>> \in R, <<j, k>> \in R
                 PROVE  <<i, k>> \in R
      OBVIOUS
    <3>1. /\ s[i].sig < s[j].sig \/ (s[i].sig = s[j].sig /\ i <= j)
          /\ s[j].sig < s[k].sig \/ (s[j].sig = s[k].sig /\ j <= k)
      BY <2>2
    <3>2. i \in Nat /\ j \in Nat /\ k \in Nat /\ s[i].sig \in Int /\ s[j].sig \in Int /\ s[k].sig \in Int
      BY <2>1
    <3>3. s[i].sig < s[k].sig \/ (s[i].sig = s[k].sig /\ i <= k)
      BY <3>1, <3>2
    <3>4. QED BY <2>2, <3>3
  <2>7. QED BY <2>3, <2>4, <2>5, <2>6
<1> HIDE DEF R
<1>6. Ranked(s, rank) \in Seq(X) /\ Arranges(Ranked(s, rank), s, S)
  BY <1>1, <1>5, ArrangedBy
<1>7. QED BY <1>4, <1>6

-----------------------------------------------------------------------------
(* What the poller's lists hold.                                           *)

(* A list without repetitions. *)
Distinct(s) == \A i, j \in DOMAIN s : s[i] = s[j] => i = j

(* A part of a list without repetitions has none, and nothing else in it. *)
LEMMA PartOfDistinct ==
  ASSUME NEW s, NEW us, NEW S, S \subseteq DOMAIN s, Arranges(us, s, S), Distinct(s)
  PROVE  /\ Distinct(us)
         /\ \A x \in ToSet(us) : \E i \in S : x = s[i]
         /\ ToSet(us) \subseteq ToSet(s)
<1>1. Distinct(us)
  <2> SUFFICES ASSUME NEW m \in DOMAIN us, NEW n \in DOMAIN us, m # n PROVE us[m] # us[n]
    BY DEF Distinct
  <2>1. PICK i \in S, j \in S : i # j /\ us[m] = s[i] /\ us[n] = s[j]
    BY DEF Arranges
  <2>2. QED BY <2>1 DEF Distinct
<1>2. \A x \in ToSet(us) : \E i \in S : x = s[i]
  BY DEF Arranges, ToSet
<1>3. QED BY <1>1, <1>2 DEF ToSet

(* A list reversed. *)
LEMMA Reversed ==
  ASSUME NEW X, NEW s \in Seq(X)
  PROVE  /\ Reverse(s) \in Seq(X) /\ Len(Reverse(s)) = Len(s)
         /\ Arranges(Reverse(s), s, DOMAIN s)
<1> DEFINE n == Len(s)  us == Reverse(s)
<1>1. n \in Nat /\ DOMAIN s = 1..n
  BY LenProperties
<1>2. us = [i \in 1..n |-> s[(n - i) + 1]]
  BY DEF Reverse
<1> HIDE DEF n, us
<1>3. \A i \in 1..n : (n - i) + 1 \in 1..n /\ (n - ((n - i) + 1)) + 1 = i
  BY <1>1
<1>4. us \in [1..n -> X] /\ DOMAIN us = 1..n
  BY <1>1, <1>2, <1>3
<1>5. us \in Seq(X)
  BY <1>1, <1>4, IsASeq
<1>6. Len(us) = n
  BY <1>1, <1>4, <1>5, LenProperties
<1>7. \A i \in 1..n : us[i] = s[(n - i) + 1] /\ s[i] = us[(n - i) + 1]
  <2> SUFFICES ASSUME NEW i \in 1..n PROVE us[i] = s[(n - i) + 1] /\ s[i] = us[(n - i) + 1]
    OBVIOUS
  <2> PICK j : j = (n - i) + 1
    OBVIOUS
  <2>1. j \in 1..n /\ (n - j) + 1 = i
    BY <1>3
  <2>2. us[i] = s[j] /\ us[j] = s[(n - j) + 1]
    BY <1>2, <2>1
  <2>3. QED BY <2>1, <2>2
<1>8. \A i \in DOMAIN us : \E j \in DOMAIN s : us[i] = s[j]
  BY <1>1, <1>3, <1>4, <1>7
<1>9. \A j \in DOMAIN s : \E i \in DOMAIN us : us[i] = s[j]
  BY <1>1, <1>3, <1>4, <1>7
<1>10. ASSUME NEW i \in DOMAIN us, NEW j \in DOMAIN us, i # j
       PROVE  \E k, l \in DOMAIN s : k # l /\ us[i] = s[k] /\ us[j] = s[l]
  <2>1. i \in 1..n /\ j \in 1..n
    BY <1>4
  <2>2. (n - i) + 1 # (n - j) + 1
    BY <1>1, <1>10, <2>1
  <2>3. (n - i) + 1 \in DOMAIN s /\ (n - j) + 1 \in DOMAIN s
    BY <1>1, <1>3, <2>1
  <2>4. QED BY <1>7, <2>1, <2>2, <2>3
<1>11. Arranges(us, s, DOMAIN s)
  BY <1>8, <1>9, <1>10 DEF Arranges
<1>12. QED BY <1>5, <1>6, <1>11 DEF us, n

(* The newest of a list: within it, no more than asked for, and some if    *)
(* there are any.                                                          *)
LEMMA NewestOf ==
  ASSUME NEW X, NEW s \in Seq(X), Distinct(s), NEW limit \in Nat
  PROVE  /\ Newest(s, limit) \in Seq(X) /\ Len(Newest(s, limit)) <= limit
         /\ Distinct(Newest(s, limit)) /\ ToSet(Newest(s, limit)) \subseteq ToSet(s)
         /\ limit > 0 /\ Newest(s, limit) = <<>> => Len(s) = 0
<1> DEFINE n == Len(s)
           m == IF n > limit THEN n - limit + 1 ELSE 1
           r == SubSeq(s, m, n)
<1>1. n \in Nat /\ DOMAIN s = 1..n
  BY LenProperties
<1>2. m \in 1..(n + 1) /\ (n + 1) - m <= limit /\ (limit > 0 /\ n > 0 => m <= n)
  BY <1>1
<1> HIDE DEF n, m
<1>3. \A i \in m..n : s[i] \in X
  <2> SUFFICES ASSUME NEW i \in m..n PROVE s[i] \in X
    OBVIOUS
  <2>1. i \in 1..n
    BY <1>1, <1>2
  <2>2. QED BY <1>1, <2>1
<1>4. /\ r \in Seq(X) /\ Len(r) = IF m <= n THEN n - m + 1 ELSE 0
      /\ \A i \in 1..(n - m + 1) : r[i] = s[m + i - 1]
  BY <1>1, <1>2, <1>3, SubSeqProperties
<1> HIDE DEF r
<1>5. DOMAIN r = 1..(n - m + 1) /\ Len(r) <= limit
  BY <1>1, <1>2, <1>4, LenProperties
<1>6. \A i \in DOMAIN r : m + i - 1 \in DOMAIN s /\ r[i] = s[m + i - 1]
  <2> SUFFICES ASSUME NEW i \in DOMAIN r PROVE m + i - 1 \in DOMAIN s /\ r[i] = s[m + i - 1]
    OBVIOUS
  <2>1. i \in 1..(n - m + 1)
    BY <1>5
  <2>2. m + i - 1 \in 1..n
    BY <1>1, <1>2, <2>1
  <2>3. QED BY <1>1, <1>4, <2>1, <2>2
<1>7. Distinct(r)
  <2> SUFFICES ASSUME NEW i \in DOMAIN r, NEW j \in DOMAIN r, r[i] = r[j] PROVE i = j
    BY DEF Distinct
  <2>1. m + i - 1 = m + j - 1
    BY <1>6 DEF Distinct
  <2>2. i \in Int /\ j \in Int /\ m \in Int
    BY <1>2, <1>5
  <2>3. QED BY <2>1, <2>2
<1>8. ToSet(r) \subseteq ToSet(s)
  BY <1>6 DEF ToSet
<1> DEFINE us == Reverse(r)
<1>9. us \in Seq(X) /\ Len(us) = Len(r) /\ Arranges(us, r, DOMAIN r)
  BY <1>4, Reversed
<1>10. Newest(s, limit) = us
  BY DEF Newest, r, m, n
<1> HIDE DEF us
<1>11. Distinct(us) /\ ToSet(us) \subseteq ToSet(r)
  BY <1>7, <1>9, PartOfDistinct
<1>12. limit > 0 /\ us = <<>> => n = 0
  <2> SUFFICES ASSUME limit > 0, us = <<>>, n > 0 PROVE FALSE
    BY <1>1
  <2>1. Len(us) = 0
    OBVIOUS
  <2>2. Len(us) = n - m + 1 /\ m <= n /\ m \in Int
    BY <1>2, <1>4, <1>9
  <2>3. QED BY <1>1, <2>1, <2>2
<1>13. QED BY <1>5, <1>8, <1>9, <1>10, <1>11, <1>12 DEF n

(* The signatures to read: within the listing, and none that failed. *)
LEMMA FreshOf ==
  ASSUME NEW X, NEW list \in Seq(X), Distinct(list), NEW first, NEW last
  PROVE  /\ Fresh(list, first, last) \in Seq(X) /\ Distinct(Fresh(list, first, last))
         /\ ToSet(Fresh(list, first, last)) \subseteq ToSet(list) \ Failed
<1> DEFINE newer(i) == first \/ \A j \in 1..i : list[j] # last
           S == {i \in DOMAIN list : newer(i) /\ list[i] \notin Failed}
           r == Kept(list, S)
           us == Reverse(r)
<1>1. Fresh(list, first, last) = us
  BY DEF Fresh
<1>2. S \subseteq DOMAIN list /\ \A i \in S : list[i] \notin Failed
  OBVIOUS
<1> HIDE DEF S
<1>3. r \in Seq(X) /\ Arranges(r, list, S)
  BY <1>2, KeptArranges
<1> HIDE DEF r
<1>4. us \in Seq(X) /\ Arranges(us, r, DOMAIN r)
  BY <1>3, Reversed
<1> HIDE DEF us
<1>5. Distinct(r) /\ (\A x \in ToSet(r) : \E i \in S : x = list[i]) /\ ToSet(r) \subseteq ToSet(list)
  BY <1>2, <1>3, PartOfDistinct
<1>6. Distinct(us) /\ ToSet(us) \subseteq ToSet(r)
  BY <1>4, <1>5, PartOfDistinct
<1>7. QED BY <1>1, <1>2, <1>4, <1>5, <1>6

(* A list without its head. *)
LEMMA TailOf ==
  ASSUME NEW X, NEW s \in Seq(X), s # <<>>, Distinct(s)
  PROVE  /\ Tail(s) \in Seq(X) /\ Distinct(Tail(s))
         /\ ToSet(Tail(s)) \subseteq ToSet(s) \ {Head(s)} /\ Head(s) \in ToSet(s)
<1> DEFINE n == Len(s)  us == Tail(s)
<1>1. n \in Nat /\ n > 0 /\ DOMAIN s = 1..n
  BY LenProperties, EmptySeq
<1>2. us \in Seq(X) /\ Len(us) = n - 1 /\ \A i \in 1..(n - 1) : us[i] = s[i + 1]
  BY HeadTailProperties
<1>3. Head(s) = s[1]
  BY <1>1, HeadTailProperties
<1> HIDE DEF n, us
<1>4. DOMAIN us = 1..(n - 1)
  BY <1>2, LenProperties
<1>5. \A i \in DOMAIN us : i + 1 \in DOMAIN s /\ i + 1 # 1 /\ us[i] = s[i + 1]
  BY <1>1, <1>2, <1>4
<1>6. 1 \in DOMAIN s
  BY <1>1
<1>7. Distinct(us)
  <2> SUFFICES ASSUME NEW i \in DOMAIN us, NEW j \in DOMAIN us, us[i] = us[j] PROVE i = j
    BY DEF Distinct
  <2>1. i + 1 = j + 1
    BY <1>5 DEF Distinct
  <2>2. i \in Int /\ j \in Int
    BY <1>4
  <2>3. QED BY <2>1, <2>2
<1>8. ToSet(us) \subseteq ToSet(s) \ {Head(s)}
  <2> SUFFICES ASSUME NEW i \in DOMAIN us PROVE us[i] \in ToSet(s) /\ us[i] # s[1]
    BY <1>3 DEF ToSet
  <2>1. QED BY <1>5, <1>6 DEF Distinct, ToSet
<1>9. QED BY <1>2, <1>3, <1>6, <1>7, <1>8 DEF us, ToSet

-----------------------------------------------------------------------------
(* The poller's feed.                                                      *)

(* A feed with at most one row of a signature, each in the history of its  *)
(* pool.                                                                   *)
Row == [sig : Swaps, phase : Pools]
HasRow(ts, s) == \E i \in DOMAIN ts : ts[i].sig = s
OneRowEach(ts) == \A i, j \in DOMAIN ts : ts[i].sig = ts[j].sig => i = j
RowsOnChain(ts) == \A i \in DOMAIN ts : ts[i].sig \in ToSet(chain[ts[i].phase])
RowsOK(ts) == ts \in Seq(Row) /\ OneRowEach(ts) /\ RowsOnChain(ts)

(* How the feed appears to TradeFeed when no signature has two rows. *)
Table(ts) == [s \in Swaps |-> IF HasRow(ts, s) THEN 1 ELSE 0]

(* Then TradeFeed counts each swap once or not at all. *)
LEMMA CopiesAreRows ==
  ASSUME NEW ts, OneRowEach(ts)
  PROVE  [s \in Swaps |-> Copies(s, ts)] = Table(ts)
<1> SUFFICES ASSUME NEW s PROVE Copies(s, ts) = IF HasRow(ts, s) THEN 1 ELSE 0
  BY DEF Table
<1> DEFINE at == {i \in DOMAIN ts : ts[i].sig = s}
<1>1. CASE HasRow(ts, s)
  <2>1. PICK i \in DOMAIN ts : ts[i].sig = s
    BY <1>1 DEF HasRow
  <2>2. at = {i}
    BY <2>1 DEF OneRowEach
  <2>3. QED BY <1>1, <2>2, FS_Singleton DEF Copies
<1>2. CASE ~HasRow(ts, s)
  <2>1. at = {}
    BY <1>2 DEF HasRow
  <2>2. QED BY <1>2, <2>1, FS_EmptySet DEF Copies
<1>3. QED BY <1>1, <1>2

(* A row appended: one that the feed had not. *)
LEMMA RowAppended ==
  ASSUME NEW ts \in Seq(Row), NEW t \in Row, OneRowEach(ts), ~HasRow(ts, t.sig)
  PROVE  /\ Append(ts, t) \in Seq(Row) /\ OneRowEach(Append(ts, t))
         /\ \A s : HasRow(Append(ts, t), s) <=> HasRow(ts, s) \/ s = t.sig
         /\ \A i \in DOMAIN Append(ts, t) : (i \in DOMAIN ts /\ Append(ts, t)[i] = ts[i]) \/ Append(ts, t)[i] = t
<1> DEFINE n == Len(ts)  us == Append(ts, t)
<1>1. /\ us \in Seq(Row) /\ n \in Nat /\ DOMAIN ts = 1..n /\ DOMAIN us = 1..(n + 1)
      /\ us[n + 1] = t /\ \A i \in 1..n : us[i] = ts[i]
  BY AppendProperties, LenProperties
<1> HIDE DEF n, us
<1> n \in Nat
  BY <1>1
<1>2. \A i \in DOMAIN us : (i \in DOMAIN ts /\ us[i] = ts[i]) \/ (i = n + 1 /\ us[i] = t)
  <2> SUFFICES ASSUME NEW i \in DOMAIN us
               PROVE  (i \in DOMAIN ts /\ us[i] = ts[i]) \/ (i = n + 1 /\ us[i] = t)
    OBVIOUS
  <2>1. i \in 1..n \/ i = n + 1
    BY <1>1
  <2>2. i \in 1..n => i \in DOMAIN ts /\ us[i] = ts[i]
    BY <1>1
  <2>3. i = n + 1 => us[i] = t
    BY <1>1
  <2>4. QED BY <2>1, <2>2, <2>3
<1>3. OneRowEach(us)
  BY <1>1, <1>2 DEF OneRowEach, HasRow
<1>4. ASSUME NEW s PROVE HasRow(us, s) <=> HasRow(ts, s) \/ s = t.sig
  <2>1. HasRow(us, s) => HasRow(ts, s) \/ s = t.sig
    BY <1>2 DEF HasRow
  <2>2. HasRow(ts, s) => HasRow(us, s)
    <3>1. \A i \in 1..n : i \in 1..(n + 1)
      OBVIOUS
    <3>2. QED BY <1>1, <3>1 DEF HasRow
  <2>3. n + 1 \in 1..(n + 1)
    BY <1>1
  <2>4. HasRow(us, t.sig)
    BY <1>1, <2>3 DEF HasRow
  <2>5. QED BY <2>1, <2>2, <2>4
<1>5. QED BY <1>1, <1>2, <1>3, <1>4 DEF us

(* A part of the feed, arranged anew. *)
LEMMA RowsArranged ==
  ASSUME NEW ts, NEW us \in Seq(Row), NEW S, S \subseteq DOMAIN ts, Arranges(us, ts, S), RowsOK(ts)
  PROVE  /\ RowsOK(us)
         /\ \A n \in DOMAIN us : \E i \in S : us[n] = ts[i]
         /\ \A s : HasRow(us, s) <=> \E i \in S : ts[i].sig = s
<1>1. \A n \in DOMAIN us : \E i \in S : us[n] = ts[i]
  BY DEF Arranges
<1>2. OneRowEach(us)
  <2> SUFFICES ASSUME NEW m \in DOMAIN us, NEW n \in DOMAIN us, m # n PROVE us[m].sig # us[n].sig
    BY DEF OneRowEach
  <2>1. PICK i \in S, j \in S : i # j /\ us[m] = ts[i] /\ us[n] = ts[j]
    BY DEF Arranges
  <2>2. QED BY <2>1 DEF RowsOK, OneRowEach
<1>3. RowsOnChain(us)
  <2> SUFFICES ASSUME NEW n \in DOMAIN us PROVE us[n].sig \in ToSet(chain[us[n].phase])
    BY DEF RowsOnChain
  <2>1. PICK i \in S : us[n] = ts[i]
    BY <1>1
  <2>2. QED BY <2>1 DEF RowsOK, RowsOnChain
<1>4. ASSUME NEW s PROVE HasRow(us, s) <=> \E i \in S : ts[i].sig = s
  <2>1. HasRow(us, s) => \E i \in S : ts[i].sig = s
    BY <1>1 DEF HasRow
  <2>2. ASSUME NEW i \in S, ts[i].sig = s PROVE HasRow(us, s)
    <3>1. PICK n \in DOMAIN us : us[n] = ts[i]
      BY DEF Arranges
    <3>2. QED BY <2>2, <3>1 DEF HasRow
  <2>3. QED BY <2>1, <2>2
<1>5. QED BY <1>1, <1>2, <1>3, <1>4 DEF RowsOK

-----------------------------------------------------------------------------
(* The poller's invariant.                                                 *)

(* Signatures number the transactions on chain; each is in one pool. *)
ChainsOK ==
  /\ chain \in [Pools -> Seq(Sigs)]
  /\ \E n \in Nat : OnChain = 1..n
  /\ \A p \in Pools : Distinct(chain[p])
  /\ \A p, q \in Pools : p # q => ToSet(chain[p]) \cap ToSet(chain[q]) = {}

(* Where a tick can be. *)
PollState ==
  [pc : {"idle", "listing", "listed", "next", "fetching"}, pool : Pools, first : BOOLEAN,
   list : Seq(Sigs), rest : Seq(Sigs)]

(* All rows of a pool were seen; none of some signatures is in the feed. *)
SeenOf(pool) == \A i \in DOMAIN trades : trades[i].phase = pool => trades[i].sig \in seen
Unread(ss) == \A s \in ss : ~HasRow(trades, s)

NoRows(pool) == \A i \in DOMAIN trades : trades[i].phase # pool

(* A tick in progress: what it listed and has still to read is of its     *)
(* pool; a first poll that listed nothing has nothing to drop, any other   *)
(* has nothing in the feed of what it will read, and any poll has not the  *)
(* signature that it is fetching.                                          *)
PollOK(p) ==
  /\ p \in PollState
  /\ Len(p.list) <= IF p.first THEN FirstLimit ELSE Limit
  /\ p.pc # "idle" =>
       /\ polling
       /\ p.first <=> cursor[p.pool] = 0
       /\ Distinct(p.list) /\ ToSet(p.list) \subseteq ToSet(chain[p.pool])
       /\ Distinct(p.rest) /\ ToSet(p.rest) \subseteq ToSet(chain[p.pool]) \ Failed
  /\ (p.pc = "listed" /\ p.first /\ p.list = <<>>) => NoRows(p.pool)
  /\ (p.pc \in {"next", "fetching"} /\ p.first) => SeenOf(p.pool) /\ Unread(ToSet(p.rest))
  /\ p.pc = "fetching" => p.rest # <<>> /\ Head(p.rest) \in seen /\ Unread({Head(p.rest)})

(* Only one tick is in progress. *)
OneTick == \A t, u \in Ticks : poll[t].pc # "idle" /\ poll[u].pc # "idle" => t = u

(* The cursor moved past a pool: all its rows are of signatures seen. *)
CursorOK ==
  /\ cursor \in [Pools -> 0..MaxSig] /\ seen \subseteq Sigs
  /\ \A p \in Pools : cursor[p] # 0 => SeenOf(p)

(* The inductive invariant of the poller. *)
PollerInv ==
  /\ ChainsOK /\ CursorOK /\ OneTick
  /\ RowsOK(trades) /\ RowsOK(disk)
  /\ migrated \in BOOLEAN /\ polling \in BOOLEAN
  /\ hook \in [Hooks -> 0..MaxSig]
  /\ poll \in [Ticks -> PollState]
  /\ \A t \in Ticks : PollOK(poll[t])

(* It implies the types. *)
LEMMA PollerTypes == PollerInv => TypeOK
<1> SUFFICES ASSUME PollerInv PROVE TypeOK
  OBVIOUS
<1>1. chain \in [Pools -> Seq(Sigs)] /\ seen \subseteq Sigs /\ cursor \in [Pools -> 0..MaxSig]
  BY DEF PollerInv, ChainsOK, CursorOK
<1>2. {trades, disk} \subseteq Seq([sig : Swaps, phase : Pools])
  BY DEF PollerInv, RowsOK, Row
<1>3. \A t \in Ticks : Len(poll[t].list) <= IF poll[t].first THEN FirstLimit ELSE Limit
  BY DEF PollerInv, PollOK
<1>4. QED BY <1>1, <1>2, <1>3 DEF PollerInv, TypeOK

-----------------------------------------------------------------------------
(* Its steps.                                                              *)

(* A step or a stutter of the abstract feed. *)
FeedStep == [Promise!Next]_Promise!vars

(* What the pools, the saved feed and a poller's row have, they keep. *)
LEMMA EnvKept ==
  ASSUME PollerInv, UNCHANGED env
  PROVE  /\ ChainsOK' /\ RowsOK(disk)' /\ migrated' \in BOOLEAN
         /\ chain' = chain /\ disk' = disk /\ OnChain' = OnChain
         /\ \A ts : RowsOK(ts) => RowsOK(ts)'
<1>1. chain' = chain /\ disk' = disk /\ migrated' = migrated
  BY DEF env
<1>2. OnChain' = OnChain
  BY <1>1 DEF OnChain
<1>3. ChainsOK'
  BY <1>1, <1>2 DEF PollerInv, ChainsOK
<1>4. ASSUME NEW ts, RowsOK(ts) PROVE RowsOK(ts)'
  BY <1>1, <1>4 DEF RowsOK, RowsOnChain
<1>5. RowsOK(disk)'
  BY <1>1 DEF PollerInv, RowsOK, RowsOnChain
<1>6. QED BY <1>1, <1>2, <1>3, <1>4, <1>5 DEF PollerInv

(* While a tick is in progress the others are idle. *)
LEMMA OthersIdle ==
  ASSUME PollerInv, NEW t \in Ticks, poll[t].pc # "idle" \/ ~polling
  PROVE  \A u \in Ticks : u # t => poll[u].pc = "idle"
BY DEF PollerInv, OneTick, PollOK

(* One tick moves while the others are idle. *)
LEMMA TickMoves ==
  ASSUME PollerInv, NEW t \in Ticks, NEW q, poll' = [poll EXCEPT ![t] = q], PollOK(q)',
         \A u \in Ticks : u # t => poll[u].pc = "idle"
  PROVE  poll' \in [Ticks -> PollState] /\ OneTick' /\ \A u \in Ticks : PollOK(poll[u])'
<1>1. q \in PollState /\ poll \in [Ticks -> PollState]
  BY DEF PollOK, PollerInv
<1>2. poll' \in [Ticks -> PollState] /\ poll'[t] = q /\ \A u \in Ticks : u # t => poll'[u] = poll[u]
  BY <1>1
<1>3. OneTick'
  BY <1>2 DEF OneTick
<1>4. ASSUME NEW u \in Ticks PROVE PollOK(poll[u])'
  <2>1. CASE u = t
    BY <1>2, <2>1 DEF PollOK, SeenOf, Unread, HasRow, NoRows
  <2>2. CASE u # t
    <3>1. poll'[u] = poll[u] /\ poll[u].pc = "idle"
      BY <1>2, <2>2
    <3>2. poll[u] \in PollState /\ Len(poll[u].list) <= IF poll[u].first THEN FirstLimit ELSE Limit
      BY DEF PollerInv, PollOK
    <3>3. QED BY <3>1, <3>2 DEF PollOK
  <2>3. QED BY <2>1, <2>2
<1>5. QED BY <1>2, <1>3, <1>4

(* Steps of which the feed shows nothing. *)
LEMMA FeedSame ==
  ASSUME PollerInv, PollerInv', chain' = chain, Table(trades') = Table(trades), disk' = disk,
         DueRebuilds' = DueRebuilds
  PROVE  FeedStep
<1>1. OneRowEach(trades) /\ OneRowEach(trades') /\ OneRowEach(disk)
  BY DEF PollerInv, RowsOK, OneRowEach
<1>2. [s \in Swaps |-> Copies(s, trades')] = [s \in Swaps |-> Copies(s, trades)]
  BY <1>1, CopiesAreRows
<1>3. QED BY <1>2 DEF FeedStep, Promise!vars, Copies

(* The rebuilds that are due while one tick is in progress. *)
Reads(p) == p.pc \in {"next", "fetching"} /\ p.list # <<>>
DueWith(c, p) == {x \in Pools : c[x] = 0 /\ ~(Reads(p) /\ p.pool = x)}

LEMMA DueMoves ==
  ASSUME PollerInv, NEW t \in Ticks, NEW q, poll' = [poll EXCEPT ![t] = q],
         \A u \in Ticks : u # t => poll[u].pc = "idle"
  PROVE  DueRebuilds = DueWith(cursor, poll[t]) /\ DueRebuilds' = DueWith(cursor', q)
<1>1. poll'[t] = q /\ \A u \in Ticks : u # t => poll'[u] = poll[u]
  BY DEF PollerInv
<1>2. \A u \in Ticks : u # t => ~Rereading(u)
  BY DEF Rereading
<1>3. \A u \in Ticks : u # t => ~Rereading(u)'
  BY <1>1 DEF Rereading
<1>4. (Rereading(t) <=> Reads(poll[t])) /\ (Rereading(t)' <=> Reads(q))
  BY <1>1 DEF Rereading, Reads
<1>5. DueRebuilds = DueWith(cursor, poll[t])
  BY <1>2, <1>4 DEF DueRebuilds, DueWith
<1>6. DueRebuilds' = DueWith(cursor', q)
  BY <1>1, <1>3, <1>4 DEF DueRebuilds, DueWith
<1>7. QED BY <1>5, <1>6

(* A step of a tick that only moves it: the feed, the seen signatures, the *)
(* cursors and the rebuilds due stay.                                      *)
LEMMA OnlyTick ==
  ASSUME PollerInv, NEW t \in Ticks, NEW q, poll' = [poll EXCEPT ![t] = q], PollOK(q)',
         \A u \in Ticks : u # t => poll[u].pc = "idle",
         UNCHANGED <<env, trades, seen, cursor, hook>>, polling' \in BOOLEAN,
         Reads(q) <=> Reads(poll[t]), Reads(q) => q.pool = poll[t].pool
  PROVE  PollerInv' /\ FeedStep
<1>1. poll' \in [Ticks -> PollState] /\ OneTick' /\ \A u \in Ticks : PollOK(poll[u])'
  BY TickMoves
<1>2. /\ ChainsOK' /\ RowsOK(disk)' /\ migrated' \in BOOLEAN
      /\ chain' = chain /\ disk' = disk /\ OnChain' = OnChain
      /\ \A ts : RowsOK(ts) => RowsOK(ts)'
  BY EnvKept
<1>3. trades' = trades /\ seen' = seen /\ cursor' = cursor /\ hook' = hook
  OBVIOUS
<1>4. CursorOK'
  BY <1>3 DEF PollerInv, CursorOK, SeenOf
<1>5. RowsOK(trades)'
  BY <1>2, <1>3 DEF PollerInv, RowsOK, OneRowEach, RowsOnChain
<1>6. PollerInv'
  BY <1>1, <1>2, <1>3, <1>4, <1>5 DEF PollerInv
<1>7. DueRebuilds' = DueRebuilds
  <2>1. DueRebuilds = DueWith(cursor, poll[t]) /\ DueRebuilds' = DueWith(cursor', q)
    BY DueMoves
  <2>2. QED BY <1>3, <2>1 DEF DueWith
<1>8. QED BY <1>2, <1>3, <1>6, <1>7, FeedSame

(* Nothing listed is within every bound. *)
LEMMA EmptyList == /\ <<>> \in Seq(Sigs) /\ Len(<<>>) = 0 /\ Distinct(<<>>) /\ ToSet(<<>>) = {}
                   /\ 0 <= FirstLimit /\ 0 <= Limit
BY FeedAssumption DEF Distinct, ToSet

(* A tick that starts on a pool. *)
LEMMA StartsOK ==
  ASSUME PollerInv, NEW pool \in Pools, NEW q, q = At(pool), polling', cursor'[pool] = cursor[pool]
  PROVE  PollOK(q)'
<1>1. /\ q.pc = "listing" /\ q.pool = pool /\ q.first = (cursor[pool] = 0)
      /\ q.list = <<>> /\ q.rest = <<>>
      /\ q = [pc |-> "listing", pool |-> pool, first |-> (cursor[pool] = 0), list |-> <<>>, rest |-> <<>>]
  BY DEF At, Idle
<1>2. q \in PollState
  BY <1>1, EmptyList DEF PollState
<1>3. QED BY <1>1, <1>2, EmptyList DEF PollOK

(* A tick at rest. *)
LEMMA IdleOK == Idle.pc = "idle" /\ PollOK(Idle) /\ PollOK(Idle)'
<1>1. Idle \in PollState /\ Idle.pc = "idle" /\ Idle.list = <<>>
  BY EmptyList DEF Idle, PollState, Pools
<1>2. QED BY <1>1, EmptyList DEF PollOK

(* The timer fires. *)
LEMMA TickStep ==
  ASSUME PollerInv, NEW t \in Ticks, Tick(t)
  PROVE  PollerInv' /\ FeedStep
<1>1. /\ ~polling /\ polling' = TRUE /\ poll' = [poll EXCEPT ![t] = At("meteora")]
      /\ UNCHANGED <<env, trades, seen, cursor, hook>>
  BY DEF Tick, may_poll
<1> PICK q : q = At("meteora")
  OBVIOUS
<1>2. "meteora" \in Pools
  BY DEF Pools
<1>3. PollOK(q)'
  BY <1>1, <1>2, StartsOK
<1>4. \A u \in Ticks : u # t => poll[u].pc = "idle"
  BY <1>1, OthersIdle
<1>5. poll' = [poll EXCEPT ![t] = q] /\ polling' \in BOOLEAN
  BY <1>1
<1>6. ~Reads(q) /\ ~Reads(poll[t])
  <2>1. poll[t].pc = "idle"
    BY DEF Tick
  <2>2. QED BY <2>1 DEF Reads, At, Idle
<1>7. QED BY <1>1, <1>3, <1>4, <1>5, <1>6, OnlyTick

(* A listing fails. *)
LEMMA ListFailsStep ==
  ASSUME PollerInv, NEW t \in Ticks, ListFails(t)
  PROVE  PollerInv' /\ FeedStep
<1>1. /\ poll[t].pc = "listing" /\ polling' = FALSE /\ poll' = [poll EXCEPT ![t] = Idle]
      /\ UNCHANGED <<env, trades, seen, cursor, hook>>
  BY DEF ListFails
<1>2. \A u \in Ticks : u # t => poll[u].pc = "idle"
  BY <1>1, OthersIdle
<1> PICK q : q = Idle
  OBVIOUS
<1>3. PollOK(q)' /\ poll' = [poll EXCEPT ![t] = q] /\ polling' \in BOOLEAN
  BY <1>1, IdleOK
<1>4. ~Reads(q) /\ ~Reads(poll[t])
  BY <1>1, IdleOK DEF Reads
<1>5. QED BY <1>1, <1>2, <1>3, <1>4, OnlyTick

(* The node answers. *)
LEMMA ListStep ==
  ASSUME PollerInv, NEW t \in Ticks, List(t)
  PROVE  PollerInv' /\ FeedStep
<1> PICK p : p = poll[t]
  OBVIOUS
<1> PICK l : l = Newest(chain[p.pool], IF p.first THEN FirstLimit ELSE Limit)
  OBVIOUS
<1> PICK q : q = [p EXCEPT !.pc = "listed", !.list = l]
  OBVIOUS
<1>1. /\ p.pc = "listing" /\ poll' = [poll EXCEPT ![t].pc = "listed", ![t].list = l]
      /\ UNCHANGED <<env, trades, seen, cursor, polling, hook>>
  BY DEF List
<1>2. PollOK(p) /\ p \in PollState
  BY DEF PollerInv, PollOK
<1>3. poll' = [poll EXCEPT ![t] = q]
  BY <1>1 DEF PollerInv
<1>4. /\ q = [pc |-> "listed", pool |-> p.pool, first |-> p.first, list |-> l, rest |-> p.rest]
      /\ q.pc = "listed" /\ q.pool = p.pool /\ q.first = p.first /\ q.list = l /\ q.rest = p.rest
  BY <1>2 DEF PollState
<1>5. p.pool \in Pools /\ p.first \in BOOLEAN /\ p.rest \in Seq(Sigs)
  BY <1>2 DEF PollState
<1>6. chain[p.pool] \in Seq(Sigs) /\ Distinct(chain[p.pool])
  BY <1>5 DEF PollerInv, ChainsOK
<1>7. (IF p.first THEN FirstLimit ELSE Limit) \in Nat
  BY FeedAssumption
<1>8. /\ l \in Seq(Sigs) /\ Len(l) <= IF p.first THEN FirstLimit ELSE Limit
      /\ Distinct(l) /\ ToSet(l) \subseteq ToSet(chain[p.pool])
  <2> PICK n \in Nat : n = IF p.first THEN FirstLimit ELSE Limit
    BY <1>7
  <2> PICK c : c = chain[p.pool]
    OBVIOUS
  <2>1. /\ Newest(c, n) \in Seq(Sigs) /\ Len(Newest(c, n)) <= n
        /\ Distinct(Newest(c, n)) /\ ToSet(Newest(c, n)) \subseteq ToSet(c)
    BY <1>6, NewestOf
  <2>2. l = Newest(c, n)
    OBVIOUS
  <2>3. QED BY <2>1, <2>2
<1>9. q \in PollState
  BY <1>4, <1>5, <1>8 DEF PollState
<1>10. chain' = chain /\ cursor' = cursor /\ polling' = polling
  BY <1>1 DEF env
<1>11. (q.first /\ q.list = <<>>) => NoRows(q.pool)'
  <2> SUFFICES ASSUME p.first, l = <<>>, NEW i \in DOMAIN trades, trades[i].phase = p.pool
               PROVE  FALSE
    BY <1>1, <1>4 DEF NoRows
  <2> PICK c : c = chain[p.pool]
    OBVIOUS
  <2>1. c \in Seq(Sigs) /\ Distinct(c) /\ Newest(c, FirstLimit) = <<>>
    BY <1>6
  <2>2. FirstLimit \in Nat /\ FirstLimit > 0
    BY FeedAssumption
  <2>3. Len(c) = 0
    BY <2>1, <2>2, NewestOf
  <2>4. DOMAIN c = {}
    BY <2>1, <2>3, LenProperties
  <2>5. trades[i].sig \in ToSet(c)
    BY DEF PollerInv, RowsOK, RowsOnChain
  <2>6. QED BY <2>4, <2>5 DEF ToSet
<1>12. PollOK(q)'
  BY <1>1, <1>2, <1>4, <1>8, <1>9, <1>10, <1>11 DEF PollOK
<1>13. \A u \in Ticks : u # t => poll[u].pc = "idle"
  BY <1>1, OthersIdle
<1>14. polling' \in BOOLEAN
  BY <1>10 DEF PollerInv
<1>15. ~Reads(q) /\ ~Reads(poll[t])
  BY <1>1, <1>4 DEF Reads
<1>16. QED BY <1>1, <1>3, <1>12, <1>13, <1>14, <1>15, OnlyTick

(* A signature of the list is done with. *)
LEMMA RestOK ==
  ASSUME PollerInv, NEW p, PollOK(p), p.pc \in {"next", "fetching"}, p.rest # <<>>,
         NEW q, q = [p EXCEPT !.pc = "next", !.rest = Tail(p.rest)],
         chain' = chain, cursor' = cursor, polling' = polling,
         p.first => SeenOf(p.pool)' /\ Unread(ToSet(Tail(p.rest)))'
  PROVE  PollOK(q)'
<1>1. p \in PollState /\ p.rest \in Seq(Sigs) /\ Distinct(p.rest)
  BY DEF PollOK, PollState
<1> PICK l : l = Tail(p.rest)
  OBVIOUS
<1>2. l \in Seq(Sigs) /\ Distinct(l) /\ ToSet(l) \subseteq ToSet(p.rest)
  BY <1>1, TailOf
<1>3. /\ q = [pc |-> "next", pool |-> p.pool, first |-> p.first, list |-> p.list, rest |-> l]
      /\ q.pc = "next" /\ q.pool = p.pool /\ q.first = p.first /\ q.list = p.list /\ q.rest = l
  BY <1>1 DEF PollState
<1>4. q \in PollState
  BY <1>1, <1>2, <1>3 DEF PollState
<1>5. p.first => SeenOf(p.pool)' /\ Unread(ToSet(l))'
  OBVIOUS
<1>6. /\ Len(q.list) <= IF q.first THEN FirstLimit ELSE Limit
      /\ polling'
      /\ q.first <=> cursor'[q.pool] = 0
      /\ Distinct(q.list) /\ ToSet(q.list) \subseteq ToSet(chain'[q.pool])
      /\ Distinct(q.rest) /\ ToSet(q.rest) \subseteq ToSet(chain'[q.pool]) \ Failed
  BY <1>2, <1>3 DEF PollOK
<1>7. q.first => SeenOf(q.pool)' /\ Unread(ToSet(q.rest))'
  <2>1. q.pool = p.pool /\ q.rest = l /\ q.first = p.first
    BY <1>3
  <2>2. QED BY <1>5, <2>1 DEF SeenOf, Unread
<1>8. QED BY <1>3, <1>4, <1>6, <1>7 DEF PollOK

(* ... and the poll reads on. *)
LEMMA RestReads ==
  ASSUME NEW p \in PollState, p.pc \in {"next", "fetching"},
         NEW q, q = [p EXCEPT !.pc = "next", !.rest = Tail(p.rest)]
  PROVE  (Reads(q) <=> Reads(p)) /\ q.pool = p.pool
<1>1. q.pc = "next" /\ q.list = p.list /\ q.pool = p.pool
  BY DEF PollState
<1>2. QED BY <1>1 DEF Reads

(* A signature already seen is skipped. *)
LEMMA SkipStep ==
  ASSUME PollerInv, NEW t \in Ticks, Skip(t)
  PROVE  PollerInv' /\ FeedStep
<1> PICK p : p = poll[t]
  OBVIOUS
<1>1. /\ p.pc = "next" /\ p.rest # <<>> /\ ~p.first
      /\ poll' = [poll EXCEPT ![t].rest = Tail(@)]
      /\ UNCHANGED <<env, trades, seen, cursor, polling, hook>>
  BY DEF Skip
<1>2. PollOK(p) /\ p \in PollState
  BY DEF PollerInv, PollOK
<1> PICK q : q = [p EXCEPT !.pc = "next", !.rest = Tail(p.rest)]
  OBVIOUS
<1>3. poll' = [poll EXCEPT ![t] = q]
  <2>1. [p EXCEPT !.rest = Tail(p.rest)] = q
    BY <1>1, <1>2 DEF PollState
  <2>2. poll' = [poll EXCEPT ![t] = [p EXCEPT !.rest = Tail(p.rest)]]
    BY <1>1 DEF PollerInv
  <2>3. QED BY <2>1, <2>2
<1>4. chain' = chain /\ cursor' = cursor /\ polling' = polling
  BY <1>1 DEF env
<1>5. PollOK(q)'
  BY <1>1, <1>2, <1>4, RestOK
<1>6. \A u \in Ticks : u # t => poll[u].pc = "idle"
  BY <1>1, OthersIdle
<1>7. polling' \in BOOLEAN
  BY <1>4 DEF PollerInv
<1>8. (Reads(q) <=> Reads(p)) /\ q.pool = p.pool
  BY <1>1, <1>2, RestReads
<1>9. QED BY <1>1, <1>3, <1>5, <1>6, <1>7, <1>8, OnlyTick

(* A transaction cannot be fetched. *)
LEMMA FetchFailsStep ==
  ASSUME PollerInv, NEW t \in Ticks, FetchFails(t)
  PROVE  PollerInv' /\ FeedStep
<1> PICK p : p = poll[t]
  OBVIOUS
<1>1. /\ p.pc = "fetching" /\ Fetched(t)
      /\ UNCHANGED <<env, trades, seen, cursor, polling, hook>>
  BY DEF FetchFails
<1>2. PollOK(p) /\ p \in PollState /\ p.rest # <<>> /\ p.rest \in Seq(Sigs) /\ Distinct(p.rest)
  BY <1>1 DEF PollerInv, PollOK, PollState
<1> PICK q : q = [p EXCEPT !.pc = "next", !.rest = Tail(p.rest)]
  OBVIOUS
<1>3. poll' = [poll EXCEPT ![t] = q]
  BY <1>1 DEF PollerInv, Fetched
<1>4. chain' = chain /\ cursor' = cursor /\ polling' = polling /\ trades' = trades /\ seen' = seen
  BY <1>1 DEF env
<1>5. p.first => SeenOf(p.pool)' /\ Unread(ToSet(Tail(p.rest)))'
  <2>1. p.first => SeenOf(p.pool) /\ Unread(ToSet(p.rest))
    BY <1>1, <1>2 DEF PollOK
  <2>2. ToSet(Tail(p.rest)) \subseteq ToSet(p.rest)
    BY <1>2, TailOf
  <2>3. QED BY <1>4, <2>1, <2>2 DEF SeenOf, Unread
<1>6. PollOK(q)'
  BY <1>1, <1>2, <1>4, <1>5, RestOK
<1>7. \A u \in Ticks : u # t => poll[u].pc = "idle"
  BY <1>1, OthersIdle
<1>8. polling' \in BOOLEAN
  BY <1>4 DEF PollerInv
<1>9. (Reads(q) <=> Reads(p)) /\ q.pool = p.pool
  BY <1>1, <1>2, RestReads
<1>10. QED BY <1>1, <1>3, <1>6, <1>7, <1>8, <1>9, OnlyTick

(* A row of a signature of the pool is a row of that pool. *)
LEMMA RowOfPool ==
  ASSUME PollerInv, NEW pool \in Pools, NEW i \in DOMAIN trades,
         trades[i].sig \in ToSet(chain[pool])
  PROVE  trades[i].phase = pool
<1>1. trades[i] \in Row /\ trades[i].sig \in ToSet(chain[trades[i].phase])
  BY DEF PollerInv, RowsOK, RowsOnChain
<1>2. trades[i].phase \in Pools
  BY <1>1 DEF Row
<1>3. QED BY <1>1, <1>2 DEF PollerInv, ChainsOK

(* A signature is taken: the feed does not have it, for a row of it would  *)
(* be of this pool, and was dropped by the first poll or is seen.          *)
LEMMA TakeStep ==
  ASSUME PollerInv, NEW t \in Ticks, Take(t)
  PROVE  PollerInv' /\ FeedStep
<1> PICK p : p = poll[t]
  OBVIOUS
<1> PICK s : s = Head(p.rest)
  OBVIOUS
<1>1. /\ p.pc = "next" /\ p.rest # <<>> /\ (p.first \/ s \notin seen)
      /\ seen' = seen \cup {s} /\ poll' = [poll EXCEPT ![t].pc = "fetching"]
      /\ UNCHANGED <<env, trades, cursor, polling, hook>>
  BY DEF Take
<1>2. PollOK(p) /\ p \in PollState /\ p.rest \in Seq(Sigs) /\ Distinct(p.rest) /\ p.pool \in Pools
  BY <1>1 DEF PollerInv, PollOK, PollState
<1>3. s \in ToSet(p.rest) /\ s \in Sigs /\ s \in ToSet(chain[p.pool])
  <2>1. s \in ToSet(p.rest)
    BY <1>1, <1>2, TailOf
  <2>2. ToSet(p.rest) \subseteq Sigs
    BY <1>2 DEF ToSet
  <2>3. QED BY <1>1, <2>1, <2>2, <1>2 DEF PollOK
<1>4. /\ chain' = chain /\ cursor' = cursor /\ polling' = polling /\ trades' = trades
      /\ hook' = hook
  BY <1>1 DEF env
<1>5. ~HasRow(trades, s)
  <2>1. CASE p.first
    BY <1>1, <1>2, <1>3, <2>1 DEF PollOK, Unread
  <2>2. CASE ~p.first
    <3>1. SeenOf(p.pool) /\ s \notin seen
      BY <1>1, <1>2, <2>2 DEF PollOK, PollerInv, CursorOK
    <3>2. ASSUME NEW i \in DOMAIN trades, trades[i].sig = s PROVE FALSE
      BY <1>2, <1>3, <3>1, <3>2, RowOfPool DEF SeenOf
    <3>3. QED BY <3>2 DEF HasRow
  <2>3. QED BY <2>1, <2>2
<1> PICK q : q = [p EXCEPT !.pc = "fetching"]
  OBVIOUS
<1>6. poll' = [poll EXCEPT ![t] = q]
  BY <1>1 DEF PollerInv
<1>7. /\ q = [pc |-> "fetching", pool |-> p.pool, first |-> p.first, list |-> p.list, rest |-> p.rest]
      /\ q.pc = "fetching" /\ q.pool = p.pool /\ q.first = p.first /\ q.list = p.list /\ q.rest = p.rest
  BY <1>2 DEF PollState
<1>8. q \in PollState
  BY <1>2, <1>7 DEF PollState
<1>9. \A pool : SeenOf(pool) => SeenOf(pool)'
  BY <1>1, <1>4 DEF SeenOf
<1>10. /\ Len(q.list) <= IF q.first THEN FirstLimit ELSE Limit
       /\ polling'
       /\ q.first <=> cursor'[q.pool] = 0
       /\ Distinct(q.list) /\ ToSet(q.list) \subseteq ToSet(chain'[q.pool])
       /\ Distinct(q.rest) /\ ToSet(q.rest) \subseteq ToSet(chain'[q.pool]) \ Failed
  BY <1>1, <1>2, <1>4, <1>7 DEF PollOK
<1>11. q.first => SeenOf(q.pool)' /\ Unread(ToSet(q.rest))'
  <2>1. q.first => SeenOf(q.pool) /\ Unread(ToSet(q.rest))
    BY <1>1, <1>2, <1>7 DEF PollOK
  <2>2. Unread(ToSet(q.rest)) => Unread(ToSet(q.rest))'
    BY <1>4 DEF Unread
  <2>3. QED BY <1>9, <2>1, <2>2
<1>12. q.rest # <<>> /\ Head(q.rest) = s /\ s \in seen' /\ Unread({s})'
  BY <1>1, <1>4, <1>5, <1>7 DEF Unread
<1>13. PollOK(q)'
  BY <1>7, <1>8, <1>10, <1>11, <1>12 DEF PollOK
<1>14. \A u \in Ticks : u # t => poll[u].pc = "idle"
  BY <1>1, OthersIdle
<1>15. poll' \in [Ticks -> PollState] /\ OneTick' /\ \A u \in Ticks : PollOK(poll[u])'
  BY <1>6, <1>13, <1>14, TickMoves
<1>16. /\ ChainsOK' /\ RowsOK(disk)' /\ migrated' \in BOOLEAN
       /\ disk' = disk /\ OnChain' = OnChain
       /\ \A ts : RowsOK(ts) => RowsOK(ts)'
  BY <1>1, EnvKept
<1>17. CursorOK'
  <2>1. seen' \subseteq Sigs
    BY <1>1, <1>3 DEF PollerInv, CursorOK
  <2>2. QED BY <1>4, <1>9, <2>1 DEF PollerInv, CursorOK
<1>18. RowsOK(trades)'
  BY <1>4, <1>16 DEF PollerInv, RowsOK, OneRowEach, RowsOnChain
<1>19. PollerInv'
  BY <1>4, <1>15, <1>16, <1>17, <1>18 DEF PollerInv
<1>20. DueRebuilds' = DueRebuilds
  <2>1. DueRebuilds = DueWith(cursor, p) /\ DueRebuilds' = DueWith(cursor', q)
    BY <1>6, <1>14, DueMoves
  <2>2. (Reads(q) <=> Reads(p)) /\ q.pool = p.pool
    BY <1>1, <1>7 DEF Reads
  <2>3. QED BY <1>4, <2>1, <2>2 DEF DueWith
<1>21. QED BY <1>4, <1>16, <1>19, <1>20, FeedSame

(* The rebuild of a pool that is due: its rows are dropped, the others     *)
(* stay.                                                                   *)
LEMMA RebuildStep ==
  ASSUME PollerInv, PollerInv', chain' = chain, disk' = disk,
         NEW p \in DueRebuilds, DueRebuilds' = DueRebuilds \ {p},
         \A s : HasRow(trades', s) <=> HasRow(trades, s) /\ s \notin ToSet(chain[p])
  PROVE  FeedStep
<1> PICK old : old = [s \in Swaps |-> Copies(s, trades)]
  OBVIOUS
<1> PICK new : new = [s \in Swaps |-> Copies(s, trades')]
  OBVIOUS
<1>1. OneRowEach(trades) /\ OneRowEach(trades')
  BY DEF PollerInv, RowsOK, OneRowEach
<1>2. old = Table(trades) /\ new = Table(trades')
  BY <1>1, CopiesAreRows
<1> PICK h : h = [x \in Pools |-> ToSet(chain[x]) \cap Swaps]
  OBVIOUS
<1>3. p \in Pools /\ h[p] = ToSet(chain[p]) \cap Swaps
  BY DEF DueRebuilds
<1>4. new = [s \in Swaps |-> IF s \in h[p] THEN 0 ELSE old[s]]
  <2> SUFFICES ASSUME NEW s \in Swaps
               PROVE  Table(trades')[s] = IF s \in h[p] THEN 0 ELSE Table(trades)[s]
    BY <1>2 DEF Table
  <2>1. QED BY <1>3 DEF Table
<1>5. [s \in Swaps |-> Copies(s, trades)]'
        = [s \in Swaps |-> IF s \in [x \in Pools |-> ToSet(chain[x]) \cap Swaps][p]
                           THEN 0 ELSE [x \in Swaps |-> Copies(x, trades)][s]]
  BY <1>4 DEF Copies
<1>6. [x \in Pools |-> ToSet(chain[x]) \cap Swaps]' = [x \in Pools |-> ToSet(chain[x]) \cap Swaps]
  OBVIOUS
<1>7. [s \in Swaps |-> Copies(s, disk)]' = [s \in Swaps |-> Copies(s, disk)]
  BY DEF Copies
<1>8. Promise!Rebuild(p)
  BY <1>5, <1>6, <1>7 DEF Promise!Rebuild
<1>9. QED BY <1>3, <1>8 DEF FeedStep, Promise!Next

(* A swap on chain, not in the feed, joins it. *)
LEMMA AddStep ==
  ASSUME PollerInv, PollerInv', chain' = chain, disk' = disk, DueRebuilds' = DueRebuilds,
         NEW p \in Pools, NEW s \in Swaps, s \in ToSet(chain[p]), ~HasRow(trades, s),
         \A x : HasRow(trades', x) <=> HasRow(trades, x) \/ x = s
  PROVE  FeedStep
<1> PICK old : old = [x \in Swaps |-> Copies(x, trades)]
  OBVIOUS
<1> PICK new : new = [x \in Swaps |-> Copies(x, trades')]
  OBVIOUS
<1>1. OneRowEach(trades) /\ OneRowEach(trades')
  BY DEF PollerInv, RowsOK, OneRowEach
<1>2. old = Table(trades) /\ new = Table(trades')
  BY <1>1, CopiesAreRows
<1>3. new = [old EXCEPT ![s] = 1] /\ old[s] = 0
  <2>1. old[s] = 0
    BY <1>2 DEF Table
  <2>2. ASSUME NEW x \in Swaps PROVE Table(trades')[x] = IF x = s THEN 1 ELSE Table(trades)[x]
    BY DEF Table
  <2>3. new = [old EXCEPT ![s] = 1]
    BY <1>2, <2>2 DEF Table
  <2>4. QED BY <2>1, <2>3
<1>4. [x \in Swaps |-> Copies(x, trades)]' = [[x \in Swaps |-> Copies(x, trades)] EXCEPT ![s] = 1]
  BY <1>3 DEF Copies
<1>5. /\ [x \in Pools |-> ToSet(chain[x]) \cap Swaps]' = [x \in Pools |-> ToSet(chain[x]) \cap Swaps]
      /\ s \in [x \in Pools |-> ToSet(chain[x]) \cap Swaps][p]
  OBVIOUS
<1>6. [x \in Swaps |-> Copies(x, disk)]' = [x \in Swaps |-> Copies(x, disk)]
  BY DEF Copies
<1>7. [x \in Swaps |-> Copies(x, trades)][s] = 0
  BY <1>3
<1>8. Promise!Record(p, s)
  BY <1>4, <1>5, <1>6, <1>7 DEF Promise!Record
<1>9. QED BY <1>8 DEF FeedStep, Promise!Next

(* A tick moves and changes the feed. *)
LEMMA TickFeeds ==
  ASSUME PollerInv, NEW t \in Ticks, NEW q, poll' = [poll EXCEPT ![t] = q], PollOK(q)',
         \A u \in Ticks : u # t => poll[u].pc = "idle",
         UNCHANGED <<env, hook>>, polling' \in BOOLEAN, CursorOK',
         NEW ts, RowsOK(ts), trades' = ts
  PROVE  PollerInv' /\ chain' = chain /\ disk' = disk
<1>1. poll' \in [Ticks -> PollState] /\ OneTick' /\ \A u \in Ticks : PollOK(poll[u])'
  BY TickMoves
<1>2. /\ ChainsOK' /\ RowsOK(disk)' /\ migrated' \in BOOLEAN
      /\ chain' = chain /\ disk' = disk /\ OnChain' = OnChain
      /\ RowsOK(ts)'
  BY EnvKept
<1>3. RowsOK(trades)'
  BY <1>2 DEF RowsOK, OneRowEach, RowsOnChain
<1>4. hook' \in [Hooks -> 0..MaxSig]
  BY DEF PollerInv
<1>5. PollerInv'
  BY <1>1, <1>2, <1>3, <1>4 DEF PollerInv
<1>6. QED BY <1>2, <1>5

(* The listing is merged: a first poll drops the rows of the pool. *)
LEMMA MergeStep ==
  ASSUME PollerInv, NEW t \in Ticks, Merge(t)
  PROVE  PollerInv' /\ FeedStep
<1> PICK p : p = poll[t]
  OBVIOUS
<1> PICK l : l = Fresh(p.list, p.first, cursor[p.pool])
  OBVIOUS
<1> PICK ts : ts = IF p.first THEN WithoutPhase(trades, p.pool) ELSE trades
  OBVIOUS
<1> PICK q : q = [p EXCEPT !.pc = "next", !.rest = l]
  OBVIOUS
<1>1. /\ p.pc = "listed" /\ trades' = ts
      /\ poll' = [poll EXCEPT ![t].pc = "next", ![t].rest = l]
      /\ UNCHANGED <<env, seen, cursor, polling, hook>>
  BY DEF Merge
<1>2. PollOK(p) /\ p \in PollState /\ p.pool \in Pools /\ p.first \in BOOLEAN /\ p.list \in Seq(Sigs)
  BY DEF PollerInv, PollOK, PollState
<1>3. poll' = [poll EXCEPT ![t] = q]
  BY <1>1 DEF PollerInv
<1>4. /\ q = [pc |-> "next", pool |-> p.pool, first |-> p.first, list |-> p.list, rest |-> l]
      /\ q.pc = "next" /\ q.pool = p.pool /\ q.first = p.first /\ q.list = p.list /\ q.rest = l
  BY <1>2 DEF PollState
<1>5. l \in Seq(Sigs) /\ Distinct(l) /\ ToSet(l) \subseteq ToSet(p.list) \ Failed
  <2>1. Distinct(p.list)
    BY <1>1, <1>2 DEF PollOK
  <2> PICK c : c = cursor[p.pool]
    OBVIOUS
  <2>2. l = Fresh(p.list, p.first, c)
    OBVIOUS
  <2>3. QED BY <1>2, <2>1, <2>2, FreshOf
<1>6. chain' = chain /\ cursor' = cursor /\ polling' = polling /\ seen' = seen
  BY <1>1 DEF env
<1>7. trades \in Seq(Row) /\ RowsOK(trades)
  BY DEF PollerInv, RowsOK
<1>8. /\ RowsOK(ts)
      /\ \A n \in DOMAIN ts : \E i \in DOMAIN trades : ts[n] = trades[i]
      /\ p.first => \A s : HasRow(ts, s) <=> \E i \in DOMAIN trades : trades[i].phase # p.pool /\ trades[i].sig = s
  <2>1. CASE p.first
    <3> DEFINE S == {i \in DOMAIN trades : trades[i].phase # p.pool}
    <3>1. ts = Kept(trades, S)
      BY <2>1 DEF WithoutPhase
    <3>2. S \subseteq DOMAIN trades
      OBVIOUS
    <3>3. \A i : i \in S <=> i \in DOMAIN trades /\ trades[i].phase # p.pool
      OBVIOUS
    <3> HIDE DEF S
    <3>4. ts \in Seq(Row) /\ Arranges(ts, trades, S)
      BY <1>7, <3>1, <3>2, KeptArranges
    <3> PICK tr : tr = trades
      OBVIOUS
    <3>5. RowsOK(tr) /\ S \subseteq DOMAIN tr /\ Arranges(ts, tr, S)
      BY <1>7, <3>2, <3>4
    <3>6. /\ RowsOK(ts)
          /\ \A n \in DOMAIN ts : \E i \in S : ts[n] = tr[i]
          /\ \A s : HasRow(ts, s) <=> \E i \in S : tr[i].sig = s
      BY <3>4, <3>5, RowsArranged
    <3>7. QED BY <3>3, <3>6
  <2>2. CASE ~p.first
    BY <1>7, <2>2
  <2>3. QED BY <2>1, <2>2
<1>9. \A pool : SeenOf(pool) => SeenOf(pool)'
  <2> SUFFICES ASSUME NEW pool, SeenOf(pool), NEW n \in DOMAIN ts, ts[n].phase = pool
               PROVE  ts[n].sig \in seen
    BY <1>1, <1>6 DEF SeenOf
  <2>1. QED BY <1>8 DEF SeenOf
<1>10. CursorOK'
  BY <1>6, <1>9 DEF PollerInv, CursorOK
<1>11. p.first => \A s : HasRow(ts, s) <=> HasRow(trades, s) /\ s \notin ToSet(chain[p.pool])
  <2> SUFFICES ASSUME p.first, NEW s
               PROVE  HasRow(ts, s) <=> HasRow(trades, s) /\ s \notin ToSet(chain[p.pool])
    OBVIOUS
  <2>1. ASSUME HasRow(ts, s) PROVE HasRow(trades, s) /\ s \notin ToSet(chain[p.pool])
    <3>1. PICK i \in DOMAIN trades : trades[i].phase # p.pool /\ trades[i].sig = s
      BY <1>8, <2>1
    <3>2. QED BY <1>2, <3>1, RowOfPool DEF HasRow
  <2>2. ASSUME HasRow(trades, s), s \notin ToSet(chain[p.pool]) PROVE HasRow(ts, s)
    <3>1. PICK i \in DOMAIN trades : trades[i].sig = s
      BY <2>2 DEF HasRow
    <3>2. trades[i].phase # p.pool
      BY <1>7, <2>2, <3>1 DEF RowsOK, RowsOnChain
    <3>3. QED BY <1>8, <3>1, <3>2
  <2>3. QED BY <2>1, <2>2
<1>12. q \in PollState
  BY <1>2, <1>4, <1>5 DEF PollState
<1>13. /\ Len(q.list) <= IF q.first THEN FirstLimit ELSE Limit
       /\ polling'
       /\ q.first <=> cursor'[q.pool] = 0
       /\ Distinct(q.list) /\ ToSet(q.list) \subseteq ToSet(chain'[q.pool])
       /\ Distinct(q.rest) /\ ToSet(q.rest) \subseteq ToSet(chain'[q.pool]) \ Failed
  BY <1>1, <1>2, <1>4, <1>5, <1>6 DEF PollOK
<1>14. q.first => SeenOf(q.pool)' /\ Unread(ToSet(q.rest))'
  <2> SUFFICES ASSUME p.first PROVE SeenOf(p.pool)' /\ Unread(ToSet(l))'
    BY <1>4 DEF SeenOf, Unread
  <2>1. ASSUME NEW n \in DOMAIN ts PROVE ts[n].phase # p.pool
    <3>1. HasRow(ts, ts[n].sig)
      BY DEF HasRow
    <3>2. PICK i \in DOMAIN trades : trades[i].phase # p.pool /\ trades[i].sig = ts[n].sig
      BY <1>8, <3>1
    <3>3. PICK j \in DOMAIN trades : ts[n] = trades[j]
      BY <1>8
    <3>4. i = j
      BY <1>7, <3>2, <3>3 DEF RowsOK, OneRowEach
    <3>5. QED BY <3>2, <3>3, <3>4
  <2>2. SeenOf(p.pool)'
    BY <1>1, <2>1 DEF SeenOf
  <2>3. ASSUME NEW s \in ToSet(l), HasRow(ts, s) PROVE FALSE
    <3>1. PICK i \in DOMAIN trades : trades[i].phase # p.pool /\ trades[i].sig = s
      BY <1>8, <2>3
    <3>2. s \in ToSet(chain[p.pool])
      BY <1>1, <1>2, <1>5 DEF PollOK
    <3>3. QED BY <1>2, <3>1, <3>2, RowOfPool
  <2>4. Unread(ToSet(l))'
    BY <1>1, <2>3 DEF Unread
  <2>5. QED BY <2>2, <2>4
<1>15. PollOK(q)'
  BY <1>4, <1>12, <1>13, <1>14 DEF PollOK
<1>16. \A u \in Ticks : u # t => poll[u].pc = "idle"
  BY <1>1, OthersIdle
<1>17. polling' \in BOOLEAN
  BY <1>6 DEF PollerInv
<1>18. PollerInv' /\ chain' = chain /\ disk' = disk
  BY <1>1, <1>3, <1>8, <1>10, <1>15, <1>16, <1>17, TickFeeds
<1>19. DueRebuilds = DueWith(cursor, p) /\ DueRebuilds' = DueWith(cursor', q)
  BY <1>3, <1>16, DueMoves
<1>20. ~Reads(p) /\ (Reads(q) <=> p.list # <<>>) /\ q.pool = p.pool
  BY <1>1, <1>4 DEF Reads
<1>21. p.first <=> cursor[p.pool] = 0
  BY <1>1, <1>2 DEF PollOK
<1>22. CASE p.first /\ p.list # <<>>
  <2>1. p.pool \in DueRebuilds /\ DueRebuilds' = DueRebuilds \ {p.pool}
    BY <1>2, <1>6, <1>19, <1>20, <1>21, <1>22 DEF DueWith
  <2>2. \A s : HasRow(trades', s) <=> HasRow(trades, s) /\ s \notin ToSet(chain[p.pool])
    BY <1>1, <1>11, <1>22
  <2>3. QED BY <1>18, <2>1, <2>2, RebuildStep
<1>23. CASE ~p.first \/ p.list = <<>>
  <2>1. DueRebuilds' = DueRebuilds
    BY <1>6, <1>19, <1>20, <1>21, <1>23 DEF DueWith
  <2>2. \A s : HasRow(ts, s) <=> HasRow(trades, s)
    <3>1. CASE ~p.first
      BY <3>1
    <3>2. CASE p.first /\ p.list = <<>>
      <4>1. NoRows(p.pool)
        BY <1>1, <1>2, <3>2 DEF PollOK
      <4>2. \A i \in DOMAIN trades : trades[i].phase # p.pool
        BY <4>1 DEF NoRows
      <4>3. ASSUME NEW s PROVE HasRow(ts, s) <=> HasRow(trades, s)
        <5>1. HasRow(ts, s) <=> \E i \in DOMAIN trades : trades[i].phase # p.pool /\ trades[i].sig = s
          BY <1>8, <3>2
        <5>2. QED BY <4>2, <5>1 DEF HasRow
      <4>4. QED BY <4>3
    <3>3. QED BY <1>23, <3>1, <3>2
  <2>3. Table(trades') = Table(trades)
    BY <1>1, <2>2 DEF Table
  <2>4. QED BY <1>18, <2>1, <2>3, FeedSame
<1>24. QED BY <1>18, <1>22, <1>23

(* The transaction is parsed: its swap was not in the feed. *)
LEMMA RecordStep ==
  ASSUME PollerInv, NEW t \in Ticks, Record(t)
  PROVE  PollerInv' /\ FeedStep
<1> PICK p : p = poll[t]
  OBVIOUS
<1> PICK s : s = Head(p.rest)
  OBVIOUS
<1>1. /\ p.pc = "fetching" /\ Feed(s, p.pool) /\ Fetched(t)
      /\ UNCHANGED <<env, seen, cursor, polling, hook>>
  BY DEF Record
<1>2. /\ PollOK(p) /\ p \in PollState /\ p.rest # <<>> /\ p.rest \in Seq(Sigs)
      /\ Distinct(p.rest) /\ p.pool \in Pools
  BY <1>1 DEF PollerInv, PollOK, PollState
<1>3. s \in ToSet(p.rest) /\ s \in Sigs /\ ToSet(Tail(p.rest)) \subseteq ToSet(p.rest) \ {s}
  <2>1. s \in ToSet(p.rest) /\ ToSet(Tail(p.rest)) \subseteq ToSet(p.rest) \ {s}
    BY <1>2, TailOf
  <2>2. ToSet(p.rest) \subseteq Sigs
    BY <1>2 DEF ToSet
  <2>3. QED BY <2>1, <2>2
<1>4. s \in ToSet(chain[p.pool]) /\ s \notin Failed
  BY <1>1, <1>2, <1>3 DEF PollOK
<1>5. s \in seen /\ ~HasRow(trades, s)
  BY <1>1, <1>2 DEF PollOK, Unread
<1>6. p.first => SeenOf(p.pool) /\ Unread(ToSet(p.rest))
  BY <1>1, <1>2 DEF PollOK
<1> PICK q : q = [p EXCEPT !.pc = "next", !.rest = Tail(p.rest)]
  OBVIOUS
<1>7. poll' = [poll EXCEPT ![t] = q]
  BY <1>1 DEF PollerInv, Fetched
<1>8. chain' = chain /\ cursor' = cursor /\ polling' = polling /\ seen' = seen
  BY <1>1 DEF env
<1>9. \A u \in Ticks : u # t => poll[u].pc = "idle"
  BY <1>1, OthersIdle
<1>10. polling' \in BOOLEAN
  BY <1>8 DEF PollerInv
<1>13. (Reads(q) <=> Reads(p)) /\ q.pool = p.pool
  BY <1>1, <1>2, RestReads
<1>11. CASE s \in NotSwap \cup Failed
  <2>1. trades' = trades
    BY <1>1, <1>11 DEF Feed
  <2>2. p.first => SeenOf(p.pool)' /\ Unread(ToSet(Tail(p.rest)))'
    BY <1>3, <1>6, <1>8, <2>1 DEF SeenOf, Unread
  <2>3. PollOK(q)'
    BY <1>1, <1>2, <1>8, <2>2, RestOK
  <2>4. QED BY <1>1, <1>7, <1>9, <1>10, <1>13, <2>1, <2>3, OnlyTick
<1>12. CASE s \notin NotSwap \cup Failed
  <2> PICK r : r = [sig |-> s, phase |-> p.pool]
    OBVIOUS
  <2> PICK ts : ts = Append(trades, r)
    OBVIOUS
  <2>1. trades' = ts
    BY <1>1, <1>12 DEF Feed
  <2>2. s \in Swaps /\ s \in OnChain
    <3>1. s \in Swaps
      BY <1>3, <1>12 DEF Swaps
    <3>2. s \in OnChain
      BY <1>2, <1>4 DEF OnChain, Pools
    <3>3. QED BY <3>1, <3>2
  <2>3. r \in Row /\ r.sig = s /\ r.phase = p.pool
    BY <1>2, <2>2 DEF Row
  <2>4. RowsOK(trades) /\ trades \in Seq(Row) /\ OneRowEach(trades) /\ RowsOnChain(trades)
    BY DEF PollerInv, RowsOK
  <2>5. /\ ts \in Seq(Row) /\ OneRowEach(ts)
        /\ \A x : HasRow(ts, x) <=> HasRow(trades, x) \/ x = s
        /\ \A i \in DOMAIN ts : (i \in DOMAIN trades /\ ts[i] = trades[i]) \/ ts[i] = r
    <3> PICK tr : tr = trades
      OBVIOUS
    <3>1. tr \in Seq(Row) /\ OneRowEach(tr) /\ ~HasRow(tr, r.sig)
      BY <1>5, <2>3, <2>4
    <3>2. /\ Append(tr, r) \in Seq(Row) /\ OneRowEach(Append(tr, r))
          /\ \A x : HasRow(Append(tr, r), x) <=> HasRow(tr, x) \/ x = r.sig
          /\ \A i \in DOMAIN Append(tr, r) : (i \in DOMAIN tr /\ Append(tr, r)[i] = tr[i]) \/ Append(tr, r)[i] = r
      BY <2>3, <3>1, RowAppended
    <3>3. ts = Append(tr, r)
      OBVIOUS
    <3>4. QED BY <2>3, <3>2, <3>3
  <2>6. RowsOK(ts)
    <3>1. ASSUME NEW i \in DOMAIN ts PROVE ts[i].sig \in ToSet(chain[ts[i].phase])
      <4>1. CASE i \in DOMAIN trades /\ ts[i] = trades[i]
        BY <2>4, <4>1 DEF RowsOnChain
      <4>2. CASE ts[i] = r
        BY <1>4, <2>3, <4>2
      <4>3. QED BY <2>5, <4>1, <4>2
    <3>2. QED BY <2>5, <3>1 DEF RowsOK, RowsOnChain
  <2>7. \A pool : SeenOf(pool) => SeenOf(pool)'
    <3> SUFFICES ASSUME NEW pool, SeenOf(pool), NEW i \in DOMAIN ts, ts[i].phase = pool
                 PROVE  ts[i].sig \in seen
      BY <1>8, <2>1 DEF SeenOf
    <3>1. CASE i \in DOMAIN trades /\ ts[i] = trades[i]
      BY <3>1 DEF SeenOf
    <3>2. CASE ts[i] = r
      BY <1>5, <2>3, <3>2
    <3>3. QED BY <2>5, <3>1, <3>2
  <2>8. CursorOK'
    BY <1>8, <2>7 DEF PollerInv, CursorOK
  <2>9. p.first => SeenOf(p.pool)' /\ Unread(ToSet(Tail(p.rest)))'
    BY <1>3, <1>6, <2>1, <2>5, <2>7 DEF Unread
  <2>10. PollOK(q)'
    BY <1>1, <1>2, <1>8, <2>9, RestOK
  <2>11. PollerInv' /\ chain' = chain /\ disk' = disk
    BY <1>1, <1>7, <1>9, <1>10, <2>1, <2>6, <2>8, <2>10, TickFeeds
  <2>12. \A x : HasRow(trades', x) <=> HasRow(trades, x) \/ x = s
    BY <2>1, <2>5
  <2>13. DueRebuilds' = DueRebuilds
    <3>1. DueRebuilds = DueWith(cursor, p) /\ DueRebuilds' = DueWith(cursor', q)
      BY <1>7, <1>9, DueMoves
    <3>2. QED BY <1>8, <1>13, <3>1 DEF DueWith
  <2>14. QED BY <1>2, <1>4, <1>5, <2>2, <2>11, <2>12, <2>13, AddStep
<1>14. QED BY <1>11, <1>12

(* The pool is done: the feed is sorted and the cursor moves. *)
LEMMA DoneStep ==
  ASSUME PollerInv, NEW t \in Ticks, Done(t)
  PROVE  PollerInv' /\ FeedStep
<1> PICK p : p = poll[t]
  OBVIOUS
<1> PICK more : more = (p.pool = "meteora" /\ migrated)
  OBVIOUS
<1> PICK ts : ts = IF p.first THEN ByTime(trades) ELSE trades
  OBVIOUS
<1> PICK c : c = next_cursor(p.list, p.pool, cursor[p.pool])
  OBVIOUS
<1> PICK q : q = IF more THEN At("meteora_amm") ELSE Idle
  OBVIOUS
<1>1. /\ p.pc = "next" /\ p.rest = <<>> /\ trades' = ts
      /\ cursor' = [cursor EXCEPT ![p.pool] = c]
      /\ poll' = [poll EXCEPT ![t] = q] /\ polling' = more
      /\ UNCHANGED <<env, seen, hook>>
  BY DEF Done
<1>2. PollOK(p) /\ p \in PollState /\ p.pool \in Pools /\ p.first \in BOOLEAN /\ p.list \in Seq(Sigs)
  BY DEF PollerInv, PollOK, PollState
<1>3. cursor \in [Pools -> 0..MaxSig] /\ seen \subseteq Sigs
  BY DEF PollerInv, CursorOK
<1>4. c \in 0..MaxSig
  <2>1. CASE p.list = <<>>
    BY <1>2, <1>3, <2>1 DEF next_cursor
  <2>2. CASE p.list # <<>>
    <3>1. c = Head(p.list)
      BY <2>2 DEF next_cursor
    <3>2. Head(p.list) \in Sigs
      BY <1>2, <2>2, HeadTailProperties
    <3>3. QED BY <3>1, <3>2, FeedAssumption DEF Sigs
  <2>3. QED BY <2>1, <2>2
<1>5. cursor' \in [Pools -> 0..MaxSig] /\ \A x \in Pools : x # p.pool => cursor'[x] = cursor[x]
  BY <1>1, <1>3, <1>4
<1>6. RowsOK(trades) /\ trades \in Seq(Row)
  BY DEF PollerInv, RowsOK
<1>7. /\ RowsOK(ts)
      /\ \A n \in DOMAIN ts : \E i \in DOMAIN trades : ts[n] = trades[i]
      /\ \A s : HasRow(ts, s) <=> HasRow(trades, s)
  <2>1. CASE p.first
    <3> PICK tr : tr = trades
      OBVIOUS
    <3>1. tr \in Seq(Row) /\ RowsOK(tr)
      BY <1>6
    <3>2. \A i \in DOMAIN tr : tr[i].sig \in Int
      <4> SUFFICES ASSUME NEW i \in DOMAIN tr PROVE tr[i].sig \in Int
        OBVIOUS
      <4>1. tr[i] \in Row
        BY <3>1
      <4>2. QED BY <4>1 DEF Row, Swaps, Sigs
    <3>3. ts = ByTime(tr)
      BY <2>1
    <3>4. ts \in Seq(Row) /\ Arranges(ts, tr, DOMAIN tr)
      BY <3>1, <3>2, <3>3, ByTimeArranges
    <3> PICK S : S = DOMAIN tr
      OBVIOUS
    <3>5. S \subseteq DOMAIN tr /\ Arranges(ts, tr, S) /\ ts \in Seq(Row) /\ RowsOK(tr)
      BY <3>1, <3>4
    <3>6. /\ RowsOK(ts)
          /\ \A n \in DOMAIN ts : \E i \in S : ts[n] = tr[i]
          /\ \A s : HasRow(ts, s) <=> \E i \in S : tr[i].sig = s
      BY <3>5, RowsArranged
    <3>7. QED BY <3>6 DEF HasRow
  <2>2. CASE ~p.first
    BY <1>6, <2>2
  <2>3. QED BY <2>1, <2>2
<1>8. \A pool : SeenOf(pool) => SeenOf(pool)'
  <2> SUFFICES ASSUME NEW pool, SeenOf(pool), NEW n \in DOMAIN ts, ts[n].phase = pool
               PROVE  ts[n].sig \in seen
    BY <1>1 DEF SeenOf
  <2>1. QED BY <1>7 DEF SeenOf
<1>9. SeenOf(p.pool)
  <2>1. CASE p.first
    BY <1>1, <1>2, <2>1 DEF PollOK
  <2>2. CASE ~p.first
    BY <1>1, <1>2, <2>2 DEF PollOK, PollerInv, CursorOK
  <2>3. QED BY <1>2, <2>1, <2>2
<1>10. CursorOK'
  <2>1. ASSUME NEW x \in Pools, cursor'[x] # 0 PROVE SeenOf(x)
    BY <1>5, <1>9, <2>1 DEF PollerInv, CursorOK
  <2>2. seen' = seen
    BY <1>1
  <2>3. QED BY <1>3, <1>5, <1>8, <2>1, <2>2 DEF CursorOK
<1>11. PollOK(q)' /\ polling' \in BOOLEAN
  <2>1. CASE more
    <3>1. "meteora_amm" \in Pools /\ p.pool # "meteora_amm" /\ q = At("meteora_amm")
      BY <2>1 DEF Pools
    <3>2. cursor'["meteora_amm"] = cursor["meteora_amm"] /\ polling'
      BY <1>1, <1>5, <2>1, <3>1
    <3>3. PollOK(q)'
      BY <3>1, <3>2, StartsOK
    <3>4. QED BY <1>1, <2>1, <3>3
  <2>2. CASE ~more
    BY <1>1, <2>2, IdleOK
  <2>3. QED BY <2>1, <2>2
<1>12. \A u \in Ticks : u # t => poll[u].pc = "idle"
  BY <1>1, OthersIdle
<1>13. PollerInv' /\ chain' = chain /\ disk' = disk
  BY <1>1, <1>7, <1>10, <1>11, <1>12, TickFeeds
<1>14. Table(trades') = Table(trades)
  BY <1>1, <1>7 DEF Table
<1>15. DueRebuilds' = DueRebuilds
  <2>1. DueRebuilds = DueWith(cursor, p) /\ DueRebuilds' = DueWith(cursor', q)
    BY <1>1, <1>12, DueMoves
  <2>2. ~Reads(q)
    BY IdleOK DEF Reads, At, Idle
  <2>3. CASE p.list = <<>>
    <3>1. c = cursor[p.pool] /\ ~Reads(p)
      BY <2>3 DEF next_cursor, Reads
    <3>2. \A x \in Pools : cursor'[x] = cursor[x]
      BY <1>1, <1>2, <1>3, <1>5, <3>1
    <3>3. QED BY <2>1, <2>2, <3>1, <3>2 DEF DueWith
  <2>4. CASE p.list # <<>>
    <3>1. c = Head(p.list) /\ Reads(p)
      BY <1>1, <2>4 DEF next_cursor, Reads
    <3>2. c \in Sigs
      BY <1>2, <2>4, <3>1, HeadTailProperties
    <3>3. cursor'[p.pool] # 0
      BY <1>1, <1>2, <1>3, <3>2, FeedAssumption DEF Sigs
    <3>4. QED BY <1>5, <2>1, <2>2, <3>1, <3>3 DEF DueWith
  <2>5. QED BY <2>3, <2>4
<1>16. QED BY <1>13, <1>14, <1>15, FeedSame

(* A list gets an element it had not. *)
LEMMA AppendTo ==
  ASSUME NEW X, NEW s \in Seq(X), NEW x \in X, Distinct(s), x \notin ToSet(s)
  PROVE  /\ Append(s, x) \in Seq(X) /\ Distinct(Append(s, x))
         /\ ToSet(Append(s, x)) = ToSet(s) \cup {x}
<1> DEFINE n == Len(s)  us == Append(s, x)
<1>1. /\ us \in Seq(X) /\ n \in Nat /\ DOMAIN s = 1..n /\ DOMAIN us = 1..(n + 1)
      /\ us[n + 1] = x /\ \A i \in 1..n : us[i] = s[i]
  BY AppendProperties, LenProperties
<1> HIDE DEF n, us
<1> n \in Nat
  BY <1>1
<1>2. \A i \in DOMAIN us : (i \in DOMAIN s /\ us[i] = s[i]) \/ (i = n + 1 /\ us[i] = x)
  <2> SUFFICES ASSUME NEW i \in DOMAIN us PROVE (i \in DOMAIN s /\ us[i] = s[i]) \/ (i = n + 1 /\ us[i] = x)
    OBVIOUS
  <2>1. i \in 1..n \/ i = n + 1
    BY <1>1
  <2>2. i \in 1..n => i \in DOMAIN s /\ us[i] = s[i]
    BY <1>1
  <2>3. i = n + 1 => us[i] = x
    BY <1>1
  <2>4. QED BY <2>1, <2>2, <2>3
<1>3. Distinct(us)
  BY <1>2 DEF Distinct, ToSet
<1>4. ToSet(us) = ToSet(s) \cup {x}
  <2>1. ToSet(us) \subseteq ToSet(s) \cup {x}
    BY <1>2 DEF ToSet
  <2>2. \A i \in 1..n : i \in 1..(n + 1)
    OBVIOUS
  <2>3. n + 1 \in 1..(n + 1)
    OBVIOUS
  <2>4. ToSet(s) \subseteq ToSet(us)
    BY <1>1, <2>2 DEF ToSet
  <2>5. x \in ToSet(us)
    BY <1>1, <2>3 DEF ToSet
  <2>6. QED BY <2>1, <2>4, <2>5
<1>5. QED BY <1>1, <1>3, <1>4 DEF us

(* A transaction lands: its number is new. *)
LEMMA SwapStep ==
  ASSUME PollerInv, Swap
  PROVE  PollerInv' /\ FeedStep
<1>1. PICK n \in Nat : OnChain = 1..n
  BY DEF PollerInv, ChainsOK
<1>2. Cardinality(OnChain) = n
  BY <1>1, FS_Interval
<1> PICK x : x = n + 1
  OBVIOUS
<1> PICK live : live = Live
  OBVIOUS
<1>3. /\ n < MaxSig /\ chain' = [chain EXCEPT ![live] = Append(@, x)]
      /\ UNCHANGED <<migrated, trades, seen, cursor, polling, poll, hook, disk>>
  BY <1>2 DEF Swap
<1>4. live \in Pools /\ x \in Sigs /\ x \notin OnChain
  BY <1>1, <1>3, FeedAssumption DEF Live, Pools, Sigs
<1>5. chain \in [Pools -> Seq(Sigs)] /\ \A p \in Pools : Distinct(chain[p])
  BY DEF PollerInv, ChainsOK
<1>6. ToSet(chain["meteora"]) \subseteq OnChain /\ ToSet(chain["meteora_amm"]) \subseteq OnChain
  BY DEF OnChain
<1>7. \A p \in Pools : x \notin ToSet(chain[p])
  BY <1>4, <1>6 DEF Pools
<1>8. /\ chain'[live] \in Seq(Sigs) /\ Distinct(chain'[live])
      /\ ToSet(chain'[live]) = ToSet(chain[live]) \cup {x}
  <2> PICK s : s = chain[live]
    OBVIOUS
  <2>1. s \in Seq(Sigs) /\ Distinct(s) /\ x \notin ToSet(s)
    BY <1>4, <1>5, <1>7
  <2>2. /\ Append(s, x) \in Seq(Sigs) /\ Distinct(Append(s, x))
        /\ ToSet(Append(s, x)) = ToSet(s) \cup {x}
    BY <1>4, <2>1, AppendTo
  <2>3. chain'[live] = Append(s, x)
    BY <1>3, <1>4, <1>5
  <2>4. QED BY <2>2, <2>3
<1>9. \A p \in Pools : p # live => chain'[p] = chain[p]
  BY <1>3, <1>5
<1>10. chain' \in [Pools -> Seq(Sigs)]
  BY <1>3, <1>4, <1>5, <1>8
<1>11. \A p \in Pools : ToSet(chain'[p]) = IF p = live THEN ToSet(chain[p]) \cup {x} ELSE ToSet(chain[p])
  BY <1>8, <1>9
<1>12. OnChain' = OnChain \cup {x}
  <2>1. "meteora" \in Pools /\ "meteora_amm" \in Pools /\ (live = "meteora" \/ live = "meteora_amm")
    BY <1>4 DEF Pools
  <2>2. OnChain' = ToSet(chain'["meteora"]) \cup ToSet(chain'["meteora_amm"])
    BY DEF OnChain
  <2>3. QED BY <1>11, <2>1, <2>2 DEF OnChain
<1>13. OnChain' = 1..(n + 1)
  BY <1>1, <1>12
<1>14. ChainsOK'
  <2>1. \A p \in Pools : Distinct(chain'[p])
    BY <1>5, <1>8, <1>9
  <2>2. \A p, q \in Pools : p # q => ToSet(chain[p]) \cap ToSet(chain[q]) = {}
    BY DEF PollerInv, ChainsOK
  <2>3. \A p, q \in Pools : p # q => ToSet(chain'[p]) \cap ToSet(chain'[q]) = {}
    BY <1>7, <1>11, <2>2
  <2>4. n + 1 \in Nat
    OBVIOUS
  <2>5. QED BY <1>10, <1>13, <2>1, <2>3, <2>4 DEF ChainsOK
<1>15. \A p \in Pools : ToSet(chain[p]) \subseteq ToSet(chain'[p])
  BY <1>11
<1>16. ASSUME NEW ts, RowsOK(ts) PROVE RowsOK(ts)'
  <2>1. ASSUME NEW i \in DOMAIN ts PROVE ts[i].sig \in ToSet(chain'[ts[i].phase])
    <3>1. ts[i] \in Row
      BY <1>16 DEF RowsOK
    <3>2. ts[i].phase \in Pools
      BY <3>1 DEF Row
    <3>3. QED BY <1>15, <1>16, <3>2 DEF RowsOK, RowsOnChain
  <2>2. QED BY <1>16, <2>1 DEF RowsOK, RowsOnChain
<1>17. RowsOK(trades)' /\ RowsOK(disk)'
  BY <1>3, <1>16 DEF PollerInv, RowsOK, RowsOnChain, OneRowEach
<1>18. ASSUME NEW p, PollOK(p) PROVE PollOK(p)'
  <2>1. p.pool \in Pools
    BY <1>18 DEF PollOK, PollState
  <2>2. ToSet(chain[p.pool]) \subseteq ToSet(chain'[p.pool])
    BY <1>15, <2>1
  <2>3. SeenOf(p.pool) => SeenOf(p.pool)'
    BY <1>3 DEF SeenOf
  <2>4. \A ss : Unread(ss) => Unread(ss)'
    BY <1>3 DEF Unread
  <2>5. p.pc # "idle" => /\ polling'
                         /\ p.first <=> cursor'[p.pool] = 0
                         /\ Distinct(p.list) /\ ToSet(p.list) \subseteq ToSet(chain'[p.pool])
                         /\ Distinct(p.rest) /\ ToSet(p.rest) \subseteq ToSet(chain'[p.pool]) \ Failed
    BY <1>3, <1>18, <2>2 DEF PollOK
  <2>6. (p.pc \in {"next", "fetching"} /\ p.first) => SeenOf(p.pool)' /\ Unread(ToSet(p.rest))'
    BY <1>18, <2>3, <2>4 DEF PollOK
  <2>7. p.pc = "fetching" => p.rest # <<>> /\ Head(p.rest) \in seen' /\ Unread({Head(p.rest)})'
    BY <1>3, <1>18, <2>4 DEF PollOK
  <2>8. p \in PollState /\ Len(p.list) <= IF p.first THEN FirstLimit ELSE Limit
    BY <1>18 DEF PollOK
  <2>9. (p.pc = "listed" /\ p.first /\ p.list = <<>>) => NoRows(p.pool)'
    BY <1>3, <1>18 DEF PollOK, NoRows
  <2>10. QED BY <2>5, <2>6, <2>7, <2>8, <2>9 DEF PollOK
<1>19. \A t \in Ticks : PollOK(poll[t])'
  <2> SUFFICES ASSUME NEW t \in Ticks PROVE PollOK(poll[t])'
    OBVIOUS
  <2> PICK p : p = poll[t]
    OBVIOUS
  <2>1. PollOK(p)'
    BY <1>18 DEF PollerInv
  <2>2. poll'[t] = p
    BY <1>3
  <2>3. QED BY <2>1, <2>2 DEF PollOK, SeenOf, Unread, NoRows
<1>20. CursorOK' /\ OneTick'
  BY <1>3 DEF PollerInv, CursorOK, SeenOf, OneTick
<1>21. PollerInv'
  BY <1>3, <1>14, <1>17, <1>19, <1>20 DEF PollerInv
<1>22. FeedStep
  <2> PICK S : S = {x} \cap Swaps
    OBVIOUS
  <2>1. [p \in Pools |-> ToSet(chain[p]) \cap Swaps]'
          = [[p \in Pools |-> ToSet(chain[p]) \cap Swaps] EXCEPT ![live] = @ \cup S]
    <3>1. \A p \in Pools : ToSet(chain'[p]) \cap Swaps =
            IF p = live THEN (ToSet(chain[p]) \cap Swaps) \cup S ELSE ToSet(chain[p]) \cap Swaps
      BY <1>11
    <3>2. QED BY <1>4, <3>1
  <2>2. /\ [s \in Swaps |-> Copies(s, trades)]' = [s \in Swaps |-> Copies(s, trades)]
        /\ [s \in Swaps |-> Copies(s, disk)]' = [s \in Swaps |-> Copies(s, disk)]
    BY <1>3 DEF Copies
  <2>3. DueRebuilds' = DueRebuilds
    BY <1>3 DEF DueRebuilds, Rereading
  <2>4. Promise!Happen(live, S)
    BY <2>1, <2>2, <2>3 DEF Promise!Happen
  <2>5. S \in SUBSET Swaps
    OBVIOUS
  <2>6. QED BY <1>4, <2>4, <2>5 DEF FeedStep, Promise!Next
<1>23. QED BY <1>21, <1>22

(* Steps that leave the ticks alone, and the end of them all. *)
LEMMA ProcessStep ==
  ASSUME PollerInv, Migrate \/ Persist \/ Restart
  PROVE  PollerInv' /\ FeedStep
<1>1. CASE Migrate
  <2>1. /\ migrated' \in BOOLEAN
        /\ UNCHANGED <<chain, trades, seen, cursor, polling, poll, hook, disk>>
    BY <1>1 DEF Migrate
  <2>2. ChainsOK' /\ OnChain' = OnChain
    BY <2>1 DEF PollerInv, ChainsOK, OnChain
  <2>3. CursorOK' /\ OneTick' /\ RowsOK(trades)' /\ RowsOK(disk)'
    BY <2>1 DEF PollerInv, CursorOK, SeenOf, OneTick, RowsOK, RowsOnChain, OneRowEach
  <2>4. \A t \in Ticks : PollOK(poll[t])'
    BY <2>1 DEF PollerInv, PollOK, SeenOf, Unread, NoRows
  <2>5. PollerInv'
    BY <2>1, <2>2, <2>3, <2>4 DEF PollerInv
  <2>6. DueRebuilds' = DueRebuilds
    BY <2>1 DEF DueRebuilds, Rereading
  <2>7. QED BY <2>1, <2>5, <2>6, FeedSame
<1>2. CASE Persist
  <2>1. disk' = trades /\ UNCHANGED <<chain, migrated, trades, seen, cursor, polling, poll, hook>>
    BY <1>2 DEF Persist
  <2>2. ChainsOK' /\ OnChain' = OnChain
    BY <2>1 DEF PollerInv, ChainsOK, OnChain
  <2>3. CursorOK' /\ OneTick' /\ RowsOK(trades)' /\ RowsOK(disk)'
    BY <2>1 DEF PollerInv, CursorOK, SeenOf, OneTick, RowsOK, RowsOnChain, OneRowEach
  <2>4. \A t \in Ticks : PollOK(poll[t])'
    BY <2>1 DEF PollerInv, PollOK, SeenOf, Unread, NoRows
  <2>5. PollerInv'
    BY <2>1, <2>2, <2>3, <2>4 DEF PollerInv
  <2>6. DueRebuilds' = DueRebuilds
    BY <2>1 DEF DueRebuilds, Rereading
  <2>7. Promise!Save
    BY <2>1, <2>6 DEF Promise!Save, Copies, Swaps, Sigs
  <2>8. QED BY <2>5, <2>7 DEF FeedStep, Promise!Next
<1>3. CASE Restart
  <2>1. /\ trades' = disk /\ seen' = {} /\ cursor' = [p \in Pools |-> 0]
        /\ polling' = FALSE /\ poll' = [t \in Ticks |-> Idle]
        /\ hook' = [h \in Hooks |-> 0]
        /\ UNCHANGED <<chain, migrated, disk>>
    BY <1>3 DEF Restart, env
  <2>2. ChainsOK' /\ OnChain' = OnChain
    BY <2>1 DEF PollerInv, ChainsOK, OnChain
  <2>3. RowsOK(trades)' /\ RowsOK(disk)'
    BY <2>1 DEF PollerInv, RowsOK, RowsOnChain, OneRowEach
  <2>4. CursorOK'
    <3>1. cursor' \in [Pools -> 0..MaxSig] /\ \A p \in Pools : cursor'[p] = 0
      BY <2>1, FeedAssumption
    <3>2. QED BY <2>1, <3>1 DEF CursorOK
  <2>5. OneTick' /\ poll' \in [Ticks -> PollState] /\ \A t \in Ticks : PollOK(poll[t])'
    <3>1. \A t \in Ticks : poll'[t] = Idle
      BY <2>1
    <3>2. Idle \in PollState
      BY IdleOK DEF PollOK
    <3>3. \A t \in Ticks : PollOK(poll[t])'
      BY <3>1, IdleOK DEF PollOK, SeenOf, Unread, NoRows
    <3>4. OneTick'
      BY <3>1, IdleOK DEF OneTick
    <3>5. QED BY <2>1, <3>2, <3>3, <3>4
  <2>6. hook' \in [Hooks -> 0..MaxSig]
    BY <2>1, FeedAssumption
  <2>7. PollerInv'
    BY <2>1, <2>2, <2>3, <2>4, <2>5, <2>6 DEF PollerInv
  <2>8. DueRebuilds' = Pools
    <3>1. \A p \in Pools : cursor'[p] = 0
      BY <2>1
    <3>2. \A t \in Ticks : poll'[t].pc = "idle"
      BY <2>1, IdleOK
    <3>3. QED BY <3>1, <3>2 DEF DueRebuilds, Rereading
  <2>9. Promise!Restart
    BY <2>1, <2>8 DEF Promise!Restart, Copies, Swaps, Sigs
  <2>10. QED BY <2>7, <2>9 DEF FeedStep, Promise!Next
<1>4. QED BY <1>1, <1>2, <1>3

(* The initial states. *)
LEMMA PollerStarts == Init => PollerInv /\ Promise!Init
<1> SUFFICES ASSUME Init PROVE PollerInv /\ Promise!Init
  OBVIOUS
<1>1. /\ chain = [p \in Pools |-> <<>>] /\ migrated = FALSE /\ trades = <<>> /\ disk = <<>>
      /\ seen = {} /\ cursor = [p \in Pools |-> 0] /\ polling = FALSE
      /\ poll = [t \in Ticks |-> Idle] /\ hook = [h \in Hooks |-> 0]
  BY DEF Init
<1>2. \A p \in Pools : chain[p] = <<>>
  BY <1>1
<1>3. OnChain = {}
  BY <1>2, EmptyList DEF OnChain, Pools
<1>4. ChainsOK
  <2>1. 0 \in Nat /\ OnChain = 1..0
    BY <1>3
  <2>2. QED BY <1>1, <1>2, <2>1, EmptyList DEF ChainsOK
<1>5. RowsOK(<<>>) /\ \A s : ~HasRow(<<>>, s)
  BY DEF RowsOK, OneRowEach, RowsOnChain, HasRow
<1>6. CursorOK
  BY <1>1, FeedAssumption DEF CursorOK
<1>7. \A t \in Ticks : poll[t] = Idle
  BY <1>1
<1>8. OneTick /\ poll \in [Ticks -> PollState] /\ \A t \in Ticks : PollOK(poll[t])
  <2>1. Idle \in PollState
    BY IdleOK DEF PollOK
  <2>2. QED BY <1>1, <1>7, <2>1, IdleOK DEF OneTick
<1>9. hook \in [Hooks -> 0..MaxSig]
  BY <1>1, FeedAssumption
<1>10. PollerInv
  BY <1>1, <1>4, <1>5, <1>6, <1>8, <1>9 DEF PollerInv
<1>11. [s \in Swaps |-> Copies(s, <<>>)] = [s \in Swaps |-> 0]
  <2>1. OneRowEach(<<>>) /\ Table(<<>>) = [s \in Swaps |-> 0]
    BY <1>5 DEF RowsOK, Table
  <2>2. QED BY <2>1, CopiesAreRows
<1>12. DueRebuilds = Pools
  <2>1. \A p \in Pools : cursor[p] = 0
    BY <1>1
  <2>2. \A t \in Ticks : poll[t].pc = "idle"
    BY <1>7, IdleOK
  <2>3. QED BY <2>1, <2>2 DEF DueRebuilds, Rereading
<1>13. [p \in Pools |-> ToSet(chain[p]) \cap Swaps] = [p \in Pools |-> {}]
  <2>1. \A p \in Pools : ToSet(chain[p]) = {}
    BY <1>2, EmptyList
  <2>2. QED BY <2>1
<1>14. Promise!Init
  BY <1>1, <1>11, <1>12, <1>13 DEF Promise!Init, Promise!Nothing
<1>15. QED BY <1>10, <1>14

(* Every step of the poller is a step of the abstract feed; without Helius *)
(* requests there are no others.                                           *)
LEMMA PollerNext ==
  ASSUME PollerInv, Next
  PROVE  PollerInv' /\ FeedStep
<1>1. ASSUME NEW t \in Ticks, Tick(t) \/ PollStep(t) \/ ListFails(t) \/ FetchFails(t)
      PROVE  PollerInv' /\ FeedStep
  <2>1. CASE Tick(t)
    BY <2>1, TickStep
  <2>2. CASE List(t)
    BY <2>2, ListStep
  <2>3. CASE Merge(t)
    BY <2>3, MergeStep
  <2>4. CASE Skip(t)
    BY <2>4, SkipStep
  <2>5. CASE Take(t)
    BY <2>5, TakeStep
  <2>6. CASE Record(t)
    BY <2>6, RecordStep
  <2>7. CASE Done(t)
    BY <2>7, DoneStep
  <2>8. CASE ListFails(t)
    BY <2>8, ListFailsStep
  <2>9. CASE FetchFails(t)
    BY <2>9, FetchFailsStep
  <2>10. QED BY <1>1, <2>1, <2>2, <2>3, <2>4, <2>5, <2>6, <2>7, <2>8, <2>9 DEF PollStep
<1>2. CASE Swap
  BY <1>2, SwapStep
<1>3. CASE Migrate \/ Persist \/ Restart
  BY <1>3, ProcessStep
<1>4. ~\E h \in Hooks : HookDeliver(h) \/ HookRecord(h) \/ HookFails(h)
  BY FeedAssumption
<1>5. QED BY <1>1, <1>2, <1>3, <1>4 DEF Next

(* The other parts of MCFeed leave the poller alone. *)
LEMMA PollerRests ==
  ASSUME PollerInv, UNCHANGED vars
  PROVE  PollerInv' /\ FeedStep
<1>1. UNCHANGED <<chain, migrated, trades, seen, cursor, polling, poll, hook, disk>>
  BY DEF vars
<1>2. ChainsOK' /\ OnChain' = OnChain
  BY <1>1 DEF PollerInv, ChainsOK, OnChain
<1>3. CursorOK' /\ OneTick' /\ RowsOK(trades)' /\ RowsOK(disk)'
  BY <1>1 DEF PollerInv, CursorOK, SeenOf, OneTick, RowsOK, RowsOnChain, OneRowEach
<1>4. \A t \in Ticks : PollOK(poll[t])'
  BY <1>1 DEF PollerInv, PollOK, SeenOf, Unread, NoRows
<1>5. PollerInv'
  BY <1>1, <1>2, <1>3, <1>4 DEF PollerInv
<1>6. DueRebuilds' = DueRebuilds
  BY <1>1 DEF DueRebuilds, Rereading
<1>7. QED BY <1>1, <1>5, <1>6, FeedSame

(* The poller implements the abstract feed, for any numbers of signatures, *)
(* ticks, limits, faults and restarts.                                     *)
THEOREM PollerRefines == FeedSpec => RefinesTradeFeed /\ []TypeOK
<1>1. FeedInit => PollerInv /\ Promise!Init
  BY PollerStarts DEF FeedInit
<1>2. ASSUME PollerInv, [FeedNext]_<<part, vars, pVars, rVars>> PROVE PollerInv' /\ FeedStep
  BY <1>2, PollerNext, PollerRests DEF FeedNext
<1>3. PollerInv => TypeOK
  BY PollerTypes
<1>4. QED BY <1>1, <1>2, <1>3, PTL DEF FeedSpec, FeedStep, RefinesTradeFeed, Promise!Spec

-----------------------------------------------------------------------------
(* The feed of the log subscription.                                       *)

(* Rows of the stored trades; which trade one is. *)
Prices == {0} \cup {Program!Cardinality({e \in Program!Trades : e[1] <= n}) : n \in Nat}
Entries == [tx : Program!Ids, ev : Nat, price : Prices]
Trade_of(t) == <<t.tx, t.ev>>
Has(ts, e) == \E i \in DOMAIN ts : Trade_of(ts[i]) = e
Once(ts) == \A i, j \in DOMAIN ts : Trade_of(ts[i]) = Trade_of(ts[j]) => i = j

(* A stored trade landed, and its transaction is seen or will not be       *)
(* notified again.                                                         *)
Told(ts) ==
  \A i \in DOMAIN ts :
    /\ Trade_of(ts[i]) \in Program!Landed
    /\ ts[i].tx \in pSeen \/ notified[ts[i].tx] = 0

(* The inductive invariant: a transaction a task works on is seen, and of  *)
(* its trades only those before the event the task is at are stored.       *)
ProgramInv ==
  /\ landed \in Nat /\ notified \in [Program!Ids -> Nat] /\ task \in [Program!Ids -> Nat]
  /\ pSeen \subseteq {x \in Program!Ids : x <= landed}
  /\ \A x \in Program!Ids : task[x] <= Len(Txs[x]) /\ (task[x] > 0 => x \in pSeen)
  /\ {pTrades, pDisk} \subseteq Seq(Entries)
  /\ Once(pTrades) /\ Once(pDisk) /\ Told(pTrades) /\ Told(pDisk)
  /\ \A i \in DOMAIN pTrades : task[pTrades[i].tx] > 0 => pTrades[i].ev < task[pTrades[i].tx]

(* The transactions. *)
LEMMA TxsType ==
  /\ Program!Ids = 1..Len(Txs) /\ Len(Txs) \in Nat
  /\ \A x \in Program!Ids : Txs[x] \in Seq({"trade", "tick"}) /\ Len(Txs[x]) \in Nat \ {0}
                            /\ DOMAIN Txs[x] = 1..Len(Txs[x])
BY FeedAssumption DEF Program!Ids

(* What a trade is. *)
LEMMA InTrades ==
  ASSUME NEW x, NEW i
  PROVE  <<x, i>> \in Program!Trades <=>
           x \in Program!Ids /\ i \in DOMAIN Txs[x] /\ Txs[x][i] = "trade"
BY DEF Program!Trades

(* The instance counts as this module does. *)
LEMMA SameCardinality == \A S : Program!Cardinality(S) = Cardinality(S)
BY DEF Program!Cardinality, Cardinality, Program!IsFiniteSet, IsFiniteSet

(* Stored at most once, a trade counts once or not at all. *)
LEMMA CopiesAreOne ==
  ASSUME NEW ts, Once(ts)
  PROVE  Program!Copies(ts) = [e \in Program!Trades |-> IF Has(ts, e) THEN 1 ELSE 0]
<1> SUFFICES ASSUME NEW e
             PROVE  Cardinality({i \in DOMAIN ts : <<ts[i].tx, ts[i].ev>> = e})
                      = IF Has(ts, e) THEN 1 ELSE 0
  BY SameCardinality DEF Program!Copies
<1> DEFINE at == {i \in DOMAIN ts : <<ts[i].tx, ts[i].ev>> = e}
<1>1. CASE Has(ts, e)
  <2>1. PICK i \in DOMAIN ts : Trade_of(ts[i]) = e
    BY <1>1 DEF Has
  <2>2. at = {i}
    BY <2>1 DEF Once, Trade_of
  <2>3. QED BY <1>1, <2>2, FS_Singleton
<1>2. CASE ~Has(ts, e)
  <2>1. at = {}
    BY <1>2 DEF Has, Trade_of
  <2>2. QED BY <1>2, <2>1, FS_EmptySet
<1>3. QED BY <1>1, <1>2


(* What has landed. *)
LEMMA InLanded ==
  ASSUME NEW x, NEW i
  PROVE  <<x, i>> \in Program!Landed <=> <<x, i>> \in Program!Trades /\ x <= landed
BY DEF Program!Landed

(* What is appended happened, and was not there yet. *)
LEMMA Appended ==
  ASSUME NEW ts \in Seq(Entries), NEW t \in Entries, Once(ts), ~Has(ts, Trade_of(t))
  PROVE  /\ Append(ts, t) \in Seq(Entries) /\ Once(Append(ts, t))
         /\ \A e : Has(Append(ts, t), e) <=> Has(ts, e) \/ e = Trade_of(t)
         /\ \A i \in DOMAIN Append(ts, t) : (i \in DOMAIN ts /\ Append(ts, t)[i] = ts[i]) \/ Append(ts, t)[i] = t
<1> DEFINE n == Len(ts)  us == Append(ts, t)
<1>1. /\ us \in Seq(Entries) /\ n \in Nat /\ DOMAIN ts = 1..n /\ DOMAIN us = 1..(n + 1)
      /\ us[n + 1] = t /\ \A i \in 1..n : us[i] = ts[i]
  BY AppendProperties, LenProperties
<1> HIDE DEF n, us
<1>2. \A i \in DOMAIN us : (i \in DOMAIN ts /\ us[i] = ts[i]) \/ (i = n + 1 /\ us[i] = t)
  <2> SUFFICES ASSUME NEW i \in DOMAIN us
               PROVE  (i \in DOMAIN ts /\ us[i] = ts[i]) \/ (i = n + 1 /\ us[i] = t)
    OBVIOUS
  <2>1. i \in 1..(n + 1) /\ n \in Nat
    BY <1>1
  <2>2. i \in 1..n \/ i = n + 1
    BY <2>1
  <2>3. i \in 1..n => i \in DOMAIN ts /\ us[i] = ts[i]
    BY <1>1
  <2>4. i = n + 1 => us[i] = t
    BY <1>1
  <2>5. QED BY <2>2, <2>3, <2>4
<1>3. Once(us)
  BY <1>1, <1>2 DEF Once, Has
<1> n \in Nat
  BY <1>1
<1>4. ASSUME NEW e PROVE Has(us, e) <=> Has(ts, e) \/ e = Trade_of(t)
  <2>1. Has(us, e) => Has(ts, e) \/ e = Trade_of(t)
    BY <1>2 DEF Has
  <2>2. Has(ts, e) => Has(us, e)
    <3>1. \A i \in 1..n : i \in 1..(n + 1)
      OBVIOUS
    <3>2. QED BY <1>1, <3>1 DEF Has
  <2>3. n + 1 \in 1..(n + 1)
    BY <1>1
  <2>4. Has(us, Trade_of(t))
    BY <1>1, <2>3 DEF Has
  <2>5. QED BY <2>1, <2>2, <2>4
<1>5. QED BY <1>1, <1>2, <1>3, <1>4 DEF us

(* The initial states. *)
LEMMA ProgramStarts == Program!Init => ProgramInv /\ Program!Promise!Init
<1> SUFFICES ASSUME Program!Init PROVE ProgramInv /\ Program!Promise!Init
  OBVIOUS
<1>1. /\ landed = 0 /\ pSeen = {} /\ pTrades = <<>> /\ pDisk = <<>>
      /\ notified = [x \in Program!Ids |-> 2] /\ task = [x \in Program!Ids |-> 0]
  BY DEF Program!Init
<1>2. Once(<<>>) /\ Told(<<>>) /\ \A e : ~Has(<<>>, e)
  BY DEF Once, Told, Has
<1>3. ProgramInv
  BY <1>1, <1>2, TxsType DEF ProgramInv
<1>4. Program!Landed = {}
  BY <1>1, TxsType DEF Program!Landed, Program!Trades
<1>5. Program!Copies(<<>>) = [e \in Program!Trades |-> 0]
  BY <1>2, CopiesAreOne
<1>6. Program!Promise!Init
  BY <1>1, <1>4, <1>5 DEF Program!Promise!Init, Program!Promise!Nothing
<1>7. QED BY <1>3, <1>6

(* What was told stays so while more lands, is seen and notified. *)
LEMMA StaysTold ==
  ASSUME NEW ts \in Seq(Entries), Told(ts), landed \in Nat, landed' \in Nat, landed <= landed',
         \A x \in Program!Ids : x \in pSeen \/ notified[x] = 0 => x \in pSeen' \/ notified'[x] = 0
  PROVE  \A i \in DOMAIN ts :
           /\ Trade_of(ts[i]) \in Program!Landed'
           /\ ts[i].tx \in pSeen' \/ notified'[ts[i].tx] = 0
<1> SUFFICES ASSUME NEW i \in DOMAIN ts
             PROVE  /\ Trade_of(ts[i]) \in Program!Landed'
                    /\ ts[i].tx \in pSeen' \/ notified'[ts[i].tx] = 0
  OBVIOUS
<1>1. ts[i] \in Entries
  OBVIOUS
<1> PICK x, e : x = ts[i].tx /\ e = ts[i].ev
  OBVIOUS
<1>2. x \in Program!Ids /\ x \in Int
  BY <1>1, TxsType DEF Entries
<1>3. <<x, e>> \in Program!Landed /\ (x \in pSeen \/ notified[x] = 0)
  BY DEF Told, Trade_of
<1>4. <<x, e>> \in Program!Trades /\ x <= landed
  BY <1>3, InLanded
<1>5. x <= landed'
  BY <1>2, <1>4
<1>6. <<x, e>> \in Program!Landed'
  BY <1>4, <1>5 DEF Program!Landed
<1>7. QED BY <1>2, <1>3, <1>6 DEF Trade_of

(* A task goes on to the next event, or ends. *)
LEMMA Advances ==
  ASSUME ProgramInv, NEW x \in Program!Ids, task[x] > 0, Program!Advance(x)
  PROVE  /\ task' \in [Program!Ids -> Nat]
         /\ \A y \in Program!Ids : /\ task'[y] <= Len(Txs[y])
                                   /\ task'[y] > 0 => task[y] > 0 /\ (task'[y] = task[y] \/ (y = x /\ task'[y] = task[x] + 1))
<1>1. task \in [Program!Ids -> Nat] /\ \A y \in Program!Ids : task[y] <= Len(Txs[y])
  BY DEF ProgramInv
<1>2. task' = [task EXCEPT ![x] = IF task[x] < Len(Txs[x]) THEN task[x] + 1 ELSE 0]
  BY DEF Program!Advance, Program!advance
<1>3. Len(Txs[x]) \in Nat
  BY TxsType
<1>4. (IF task[x] < Len(Txs[x]) THEN task[x] + 1 ELSE 0) \in 0..Len(Txs[x])
  BY <1>1, <1>3
<1> PICK k : k = IF task[x] < Len(Txs[x]) THEN task[x] + 1 ELSE 0
  OBVIOUS
<1>5. k \in Nat /\ k <= Len(Txs[x]) /\ (k > 0 => k = task[x] + 1)
  BY <1>3, <1>4
<1>6. task' = [task EXCEPT ![x] = k]
  BY <1>2
<1>7. task' \in [Program!Ids -> Nat] /\ task'[x] = k /\ \A y \in Program!Ids : y # x => task'[y] = task[y]
  BY <1>1, <1>5, <1>6
<1>8. ASSUME NEW y \in Program!Ids
      PROVE  /\ task'[y] <= Len(Txs[y])
             /\ task'[y] > 0 => task[y] > 0 /\ (task'[y] = task[y] \/ (y = x /\ task'[y] = task[x] + 1))
  <2>1. CASE y = x
    BY <1>5, <1>7, <2>1
  <2>2. CASE y # x
    BY <1>1, <1>7, <2>2
  <2>3. QED BY <2>1, <2>2
<1>9. QED BY <1>7, <1>8

(* A trade is stored by its task, and only by it. *)
LEMMA TradeStored ==
  ASSUME ProgramInv, NEW x \in Program!Ids, Program!Working(x, "trade"), NEW p \in Prices,
         pTrades' = Append(pTrades, [tx |-> x, ev |-> task[x], price |-> p]),
         Program!Advance(x), UNCHANGED <<landed, notified, pSeen, pDisk>>
  PROVE  /\ ProgramInv'
         /\ <<x, task[x]>> \in Program!Landed /\ ~Has(pTrades, <<x, task[x]>>)
         /\ \A e : Has(pTrades', e) <=> Has(pTrades, e) \/ e = <<x, task[x]>>
<1> DEFINE k == task[x]  t == [tx |-> x, ev |-> k, price |-> p]
<1>1. k \in Nat /\ k > 0 /\ k <= Len(Txs[x]) /\ x \in pSeen /\ Txs[x][k] = "trade"
  BY DEF ProgramInv, Program!Working
<1>2. k \in DOMAIN Txs[x]
  BY <1>1, TxsType
<1>3. <<x, k>> \in Program!Trades
  BY <1>1, <1>2, InTrades
<1>4. x <= landed /\ landed \in Nat
  BY <1>1 DEF ProgramInv
<1>5. <<x, k>> \in Program!Landed
  BY <1>3, <1>4, InLanded
<1>6. t \in Entries /\ Trade_of(t) = <<x, k>> /\ t.tx = x /\ t.ev = k
  BY <1>1 DEF Entries, Trade_of
<1>7. ~Has(pTrades, <<x, k>>)
  <2>1. ASSUME NEW i \in DOMAIN pTrades, Trade_of(pTrades[i]) = <<x, k>> PROVE FALSE
    <3>1. pTrades[i].tx = x /\ pTrades[i].ev = k
      BY <2>1 DEF Trade_of
    <3>2. k < k
      BY <1>1, <3>1 DEF ProgramInv
    <3>3. QED BY <1>1, <3>2
  <2>2. QED BY <2>1 DEF Has
<1>8. pTrades \in Seq(Entries) /\ Once(pTrades)
  BY DEF ProgramInv
<1> HIDE DEF t, k
<1>9. pTrades' = Append(pTrades, t)
  BY DEF t, k
<1>10. /\ pTrades' \in Seq(Entries) /\ Once(pTrades')
       /\ \A e : Has(pTrades', e) <=> Has(pTrades, e) \/ e = <<x, k>>
       /\ \A i \in DOMAIN pTrades' : (i \in DOMAIN pTrades /\ pTrades'[i] = pTrades[i]) \/ pTrades'[i] = t
  <2>1. ~Has(pTrades, Trade_of(t)) /\ t \in Entries
    BY <1>6, <1>7
  <2> DEFINE us == Append(pTrades, t)
  <2>2. /\ us \in Seq(Entries) /\ Once(us)
        /\ \A e : Has(us, e) <=> Has(pTrades, e) \/ e = Trade_of(t)
        /\ \A i \in DOMAIN us : (i \in DOMAIN pTrades /\ us[i] = pTrades[i]) \/ us[i] = t
    BY <1>8, <2>1, Appended
  <2> HIDE DEF us
  <2>3. pTrades' = us /\ Trade_of(t) = <<x, k>>
    BY <1>6, <1>9 DEF us
  <2>4. QED BY <2>2, <2>3
<1>11. /\ landed' = landed /\ notified' = notified /\ pSeen' = pSeen /\ pDisk' = pDisk
       /\ Program!Landed' = Program!Landed
  BY DEF Program!Landed
<1>12. Told(pDisk)' /\ Once(pDisk)'
  BY <1>11 DEF ProgramInv, Told, Once
<1>13. Told(pTrades)'
  <2> SUFFICES ASSUME NEW i \in DOMAIN pTrades'
               PROVE  /\ Trade_of(pTrades'[i]) \in Program!Landed
                      /\ pTrades'[i].tx \in pSeen \/ notified[pTrades'[i].tx] = 0
    BY <1>11 DEF Told
  <2>1. CASE i \in DOMAIN pTrades /\ pTrades'[i] = pTrades[i]
    BY <2>1 DEF ProgramInv, Told
  <2>2. CASE pTrades'[i] = t
    BY <1>1, <1>5, <1>6, <2>2
  <2>3. QED BY <1>10, <2>1, <2>2
<1>14. /\ task' \in [Program!Ids -> Nat]
       /\ \A y \in Program!Ids : /\ task'[y] <= Len(Txs[y])
                                 /\ task'[y] > 0 => task[y] > 0 /\ (task'[y] = task[y] \/ (y = x /\ task'[y] = k + 1))
  BY <1>1, Advances DEF k
<1>15. \A i \in DOMAIN pTrades' : task'[pTrades'[i].tx] > 0 => pTrades'[i].ev < task'[pTrades'[i].tx]
  <2> SUFFICES ASSUME NEW i \in DOMAIN pTrades', task'[pTrades'[i].tx] > 0
               PROVE  pTrades'[i].ev < task'[pTrades'[i].tx]
    OBVIOUS
  <2>1. CASE i \in DOMAIN pTrades /\ pTrades'[i] = pTrades[i]
    <3> PICK y, n : y = pTrades[i].tx /\ n = pTrades[i].ev
      OBVIOUS
    <3>1. pTrades[i] \in Entries
      BY <1>8, <2>1
    <3>2. y \in Program!Ids /\ n \in Nat
      BY <3>1 DEF Entries
    <3>3. task[y] > 0 /\ (task'[y] = task[y] \/ (y = x /\ task'[y] = k + 1))
      BY <1>14, <2>1, <3>2
    <3>4. n < task[y]
      BY <2>1, <3>3 DEF ProgramInv
    <3>5. k = task[x] /\ task[y] \in Nat
      BY <3>2 DEF k, ProgramInv
    <3>6. n < task'[y]
      BY <3>2, <3>3, <3>4, <3>5
    <3>7. QED BY <2>1, <3>6
  <2>2. CASE pTrades'[i] = t
    <3>1. task'[x] > 0 /\ pTrades'[i].ev = k /\ pTrades'[i].tx = x
      BY <1>6, <2>2
    <3>2. task'[x] = task[x] \/ task'[x] = k + 1
      BY <1>14, <3>1
    <3>3. task'[x] # task[x]
      <4>1. task'[x] = IF k < Len(Txs[x]) THEN k + 1 ELSE 0
        BY DEF Program!Advance, Program!advance, k, ProgramInv
      <4>2. QED BY <1>1, <3>1, <4>1 DEF k
    <3>4. QED BY <1>1, <3>1, <3>2, <3>3
  <2>3. QED BY <1>10, <2>1, <2>2
<1>16. \A y \in Program!Ids : task'[y] > 0 => y \in pSeen'
  BY <1>11, <1>14 DEF ProgramInv
<1>17. landed' \in Nat /\ notified' \in [Program!Ids -> Nat] /\ pDisk' \in Seq(Entries)
       /\ pSeen' \subseteq {y \in Program!Ids : y <= landed'}
  BY <1>11 DEF ProgramInv
<1>18. ProgramInv'
  BY <1>10, <1>12, <1>13, <1>14, <1>15, <1>16, <1>17 DEF ProgramInv
<1>19. QED BY <1>5, <1>7, <1>10, <1>18 DEF k

(* The prices that trades are stored with. *)
LEMMA PricesAre == 0 \in Prices /\ (landed \in Nat => Program!Cardinality(Program!Landed) \in Prices)
BY DEF Prices, Program!Landed

(* Steps that store no trade. *)
LEMMA ProgramKeeps ==
  ASSUME ProgramInv,
         \/ Program!Land \/ Program!Persist \/ Program!Restart
         \/ \E x \in Program!Ids : Program!Notify(x) \/ Program!HandleTick(x)
  PROVE  ProgramInv'
<1>0. pTrades \in Seq(Entries) /\ pDisk \in Seq(Entries) /\ landed \in Nat
  BY DEF ProgramInv
<1>1. CASE Program!Land
  <2>1. /\ landed' = landed + 1 /\ UNCHANGED <<notified, pSeen, task, pTrades, pDisk>>
    BY <1>1 DEF Program!Land
  <2>2. landed' \in Nat /\ landed <= landed'
    BY <1>0, <2>1
  <2>3. Told(pTrades)' /\ Told(pDisk)'
    BY <1>0, <2>1, <2>2, StaysTold DEF ProgramInv, Told
  <2>4. pSeen' \subseteq {x \in Program!Ids : x <= landed'}
    BY <1>0, <2>1, TxsType DEF ProgramInv
  <2>5. QED BY <2>1, <2>2, <2>3, <2>4 DEF ProgramInv, Once
<1>2. CASE Program!Persist
  <2>1. pDisk' = pTrades /\ UNCHANGED <<landed, notified, pSeen, task, pTrades>>
    BY <1>2 DEF Program!Persist
  <2>2. Told(pTrades)' /\ Told(pDisk)'
    BY <2>1 DEF ProgramInv, Told, Program!Landed
  <2>3. QED BY <2>1, <2>2 DEF ProgramInv, Once
<1>3. CASE Program!Restart
  <2>1. /\ pTrades' = pDisk /\ pDisk' = pDisk /\ landed' = landed /\ pSeen' = {}
        /\ task' = [x \in Program!Ids |-> 0]
        /\ notified' = [x \in Program!Ids |-> IF x \in pSeen THEN 0 ELSE notified[x]]
    BY <1>3 DEF Program!Restart
  <2>2. \A x \in Program!Ids : x \in pSeen \/ notified[x] = 0 => x \in pSeen' \/ notified'[x] = 0
    BY <2>1
  <2>9. Told(pDisk) /\ landed' \in Nat /\ landed <= landed'
    BY <1>0, <2>1 DEF ProgramInv
  <2>10. \A i \in DOMAIN pDisk :
           /\ Trade_of(pDisk[i]) \in Program!Landed'
           /\ pDisk[i].tx \in pSeen' \/ notified'[pDisk[i].tx] = 0
    BY <1>0, <2>2, <2>9, StaysTold
  <2>3. Told(pTrades)' /\ Told(pDisk)'
    BY <2>1, <2>10 DEF Told
  <2>4. notified' \in [Program!Ids -> Nat] /\ task' \in [Program!Ids -> Nat]
    BY <2>1 DEF ProgramInv
  <2>5. \A x \in Program!Ids : task'[x] = 0
    BY <2>1
  <2>6. \A x \in Program!Ids : task'[x] <= Len(Txs[x]) /\ (task'[x] > 0 => x \in pSeen')
    BY <2>5, TxsType
  <2>7. \A i \in DOMAIN pTrades' : ~(task'[pTrades'[i].tx] > 0)
    <3> SUFFICES ASSUME NEW i \in DOMAIN pTrades' PROVE ~(task'[pTrades'[i].tx] > 0)
      OBVIOUS
    <3>1. pTrades'[i] \in Entries
      BY <1>0, <2>1
    <3>2. QED BY <2>5, <3>1 DEF Entries
  <2>8. QED BY <1>0, <2>1, <2>3, <2>4, <2>6, <2>7 DEF ProgramInv, Once
<1>4. ASSUME NEW x \in Program!Ids, Program!Notify(x) PROVE ProgramInv'
  <2>1. /\ x <= landed /\ notified[x] > 0 /\ notified' = [notified EXCEPT ![x] = @ - 1]
        /\ UNCHANGED <<landed, pTrades, pDisk>>
        /\ IF x \notin pSeen THEN pSeen' = pSeen \cup {x} /\ task' = [task EXCEPT ![x] = 1]
           ELSE UNCHANGED <<pSeen, task>>
    BY <1>4 DEF Program!Notify, Program!unseen
  <2>2. notified \in [Program!Ids -> Nat] /\ task \in [Program!Ids -> Nat]
    BY DEF ProgramInv
  <2>3. notified' \in [Program!Ids -> Nat] /\ task' \in [Program!Ids -> Nat]
    BY <2>1, <2>2
  <2>4. pSeen \subseteq pSeen' /\ x \in pSeen' /\ pSeen' \subseteq {y \in Program!Ids : y <= landed'}
    BY <2>1 DEF ProgramInv
  <2>5. \A y \in Program!Ids : y # x => notified'[y] = notified[y] /\ task'[y] = task[y]
    BY <2>1, <2>2
  <2>6. \A y \in Program!Ids : y \in pSeen \/ notified[y] = 0 => y \in pSeen' \/ notified'[y] = 0
    BY <2>4, <2>5
  <2>11. Told(pTrades) /\ Told(pDisk) /\ landed' \in Nat /\ landed <= landed'
    BY <1>0, <2>1 DEF ProgramInv
  <2>12. \A ts \in {pTrades, pDisk} : \A i \in DOMAIN ts :
           /\ Trade_of(ts[i]) \in Program!Landed'
           /\ ts[i].tx \in pSeen' \/ notified'[ts[i].tx] = 0
    BY <1>0, <2>6, <2>11, StaysTold
  <2>7. Told(pTrades)' /\ Told(pDisk)'
    BY <2>1, <2>12 DEF Told
  <2>8. \A y \in Program!Ids : task'[y] <= Len(Txs[y]) /\ (task'[y] > 0 => y \in pSeen')
    <3>1. task'[x] <= Len(Txs[x])
      BY <2>1, <2>2, TxsType DEF ProgramInv
    <3>2. QED BY <2>4, <2>5, <3>1 DEF ProgramInv
  <2>9. \A i \in DOMAIN pTrades' : task'[pTrades'[i].tx] > 0 => pTrades'[i].ev < task'[pTrades'[i].tx]
    <3> SUFFICES ASSUME NEW i \in DOMAIN pTrades, task'[pTrades[i].tx] > 0
                 PROVE  pTrades[i].ev < task'[pTrades[i].tx]
      BY <2>1
    <3>0. pTrades[i] \in Entries
      BY <1>0
    <3>1. pTrades[i].tx \in Program!Ids
      BY <3>0 DEF Entries
    <3>2. pTrades[i].tx = x => task'[x] = task[x]
      <4>1. pTrades[i].tx = x => x \in pSeen \/ notified[x] = 0
        BY DEF ProgramInv, Told
      <4>2. QED BY <2>1, <2>2, <4>1
    <3>3. task'[pTrades[i].tx] = task[pTrades[i].tx]
      BY <2>5, <3>1, <3>2
    <3>4. QED BY <3>3 DEF ProgramInv
  <2>10. QED BY <1>0, <2>1, <2>3, <2>4, <2>7, <2>8, <2>9 DEF ProgramInv, Once
<1>5. ASSUME NEW x \in Program!Ids, Program!HandleTick(x) PROVE ProgramInv'
  <2>1. /\ task[x] > 0 /\ Program!Advance(x)
        /\ UNCHANGED <<landed, notified, pSeen, pTrades, pDisk>>
    BY <1>5 DEF Program!HandleTick, Program!Working
  <2>2. /\ task' \in [Program!Ids -> Nat]
        /\ \A y \in Program!Ids : /\ task'[y] <= Len(Txs[y])
                                  /\ task'[y] > 0 => task[y] > 0 /\ (task'[y] = task[y] \/ (y = x /\ task'[y] = task[x] + 1))
    BY <2>1, Advances
  <2>3. Told(pTrades)' /\ Told(pDisk)'
    BY <2>1 DEF ProgramInv, Told, Program!Landed
  <2>4. \A i \in DOMAIN pTrades' : task'[pTrades'[i].tx] > 0 => pTrades'[i].ev < task'[pTrades'[i].tx]
    <3> SUFFICES ASSUME NEW i \in DOMAIN pTrades, task'[pTrades[i].tx] > 0
                 PROVE  pTrades[i].ev < task'[pTrades[i].tx]
      BY <2>1
    <3> PICK y, n : y = pTrades[i].tx /\ n = pTrades[i].ev
      OBVIOUS
    <3>1. y \in Program!Ids /\ n \in Nat
      <4>1. pTrades[i] \in Entries
        BY <1>0
      <4>2. QED BY <4>1 DEF Entries
    <3>2. task[y] > 0 /\ task[y] \in Nat /\ (task'[y] = task[y] \/ task'[y] = task[y] + 1)
      BY <2>2, <3>1 DEF ProgramInv
    <3>3. n < task[y]
      BY <3>2 DEF ProgramInv
    <3>4. QED BY <3>1, <3>2, <3>3
  <2>5. \A y \in Program!Ids : task'[y] > 0 => y \in pSeen'
    BY <2>1, <2>2 DEF ProgramInv
  <2>6. QED BY <2>1, <2>2, <2>3, <2>4, <2>5 DEF ProgramInv, Once
<1>6. QED BY <1>1, <1>2, <1>3, <1>4, <1>5

(* Every step is a step of the abstract feed. *)
LEMMA ProgramSteps ==
  ASSUME ProgramInv, Program!Next
  PROVE  /\ ProgramInv'
         /\ [Program!Promise!Next]_(Program!Promise!vars)
<1> DEFINE copies(ts) == [e \in Program!Trades |-> IF Has(ts, e) THEN 1 ELSE 0]
<1>0. /\ pTrades \in Seq(Entries) /\ pDisk \in Seq(Entries) /\ landed \in Nat
      /\ Once(pTrades) /\ Once(pDisk)
  BY DEF ProgramInv
<1>1. Program!Copies(pTrades) = copies(pTrades) /\ Program!Copies(pDisk) = copies(pDisk)
  BY <1>0, CopiesAreOne
<1>2. ASSUME ProgramInv'
      PROVE Program!Copies(pTrades)' = copies(pTrades') /\ Program!Copies(pDisk)' = copies(pDisk')
  <2>1. Once(pTrades') /\ Once(pDisk')
    BY <1>2 DEF ProgramInv
  <2>2. Program!Copies(pTrades') = copies(pTrades') /\ Program!Copies(pDisk') = copies(pDisk')
    BY <2>1, CopiesAreOne
  <2>3. QED BY <2>2
<1> HIDE DEF copies
<1>3. CASE Program!Land
  <2>1. ProgramInv'
    BY <1>3, ProgramKeeps
  <2> DEFINE S == {e \in Program!Trades : e[1] = landed + 1}
  <2>2. landed' = landed + 1 /\ pTrades' = pTrades /\ pDisk' = pDisk
    BY <1>3 DEF Program!Land
  <2>3. Program!Landed' = Program!Landed \cup S
    <3>1. \A e \in Program!Trades : e[1] \in Int
      BY TxsType DEF Program!Trades
    <3>2. QED BY <1>0, <2>2, <3>1 DEF Program!Landed
  <2>4. S \in SUBSET Program!Trades
    OBVIOUS
  <2>5. Program!Promise!Happen("program", S)
    BY <1>1, <1>2, <2>1, <2>2, <2>3 DEF Program!Promise!Happen
  <2>6. Program!Promise!Next
    BY <2>4, <2>5 DEF Program!Promise!Next
  <2>7. QED BY <2>1, <2>6
<1>4. CASE Program!Persist
  <2>1. ProgramInv'
    BY <1>4, ProgramKeeps
  <2>2. landed' = landed /\ pTrades' = pTrades /\ pDisk' = pTrades
    BY <1>4 DEF Program!Persist
  <2>3. Program!Landed' = Program!Landed
    BY <2>2 DEF Program!Landed
  <2>4. Program!Promise!Save
    BY <1>1, <1>2, <2>1, <2>2, <2>3 DEF Program!Promise!Save
  <2>5. QED BY <2>1, <2>4 DEF Program!Promise!Next
<1>5. CASE Program!Restart
  <2>1. ProgramInv'
    BY <1>5, ProgramKeeps
  <2>2. landed' = landed /\ pTrades' = pDisk /\ pDisk' = pDisk
    BY <1>5 DEF Program!Restart
  <2>3. Program!Landed' = Program!Landed
    BY <2>2 DEF Program!Landed
  <2>4. Program!Promise!Restart
    BY <1>1, <1>2, <2>1, <2>2, <2>3 DEF Program!Promise!Restart
  <2>5. QED BY <2>1, <2>4 DEF Program!Promise!Next
<1>6. ASSUME NEW x \in Program!Ids, Program!Notify(x) \/ Program!HandleTick(x)
      PROVE  /\ ProgramInv'
             /\ [Program!Promise!Next]_(Program!Promise!vars)
  <2>1. ProgramInv'
    BY <1>6, ProgramKeeps
  <2>2. landed' = landed /\ pTrades' = pTrades /\ pDisk' = pDisk
    BY <1>6 DEF Program!Notify, Program!HandleTick
  <2>3. Program!Landed' = Program!Landed
    BY <2>2 DEF Program!Landed
  <2>4. UNCHANGED Program!Promise!vars
    BY <1>1, <1>2, <2>1, <2>2, <2>3 DEF Program!Promise!vars
  <2>5. QED BY <2>1, <2>4
<1>7. ASSUME NEW x \in Program!Ids, Program!HandleTrade(x) \/ Program!HandleTradeBlind(x)
      PROVE  /\ ProgramInv'
             /\ [Program!Promise!Next]_(Program!Promise!vars)
  <2>1. PICK p \in Prices :
          /\ Program!Working(x, "trade") /\ Program!Advance(x)
          /\ pTrades' = Append(pTrades, [tx |-> x, ev |-> task[x], price |-> p])
          /\ UNCHANGED <<landed, notified, pSeen, pDisk>>
    <3>1. CASE Program!HandleTrade(x)
      BY <1>0, <3>1, PricesAre DEF Program!HandleTrade, Program!price_now
    <3>2. CASE Program!HandleTradeBlind(x)
      BY <3>2, PricesAre DEF Program!HandleTradeBlind
    <3>3. QED BY <1>7, <3>1, <3>2
  <2> PICK s : s = <<x, task[x]>>
    OBVIOUS
  <2>2. /\ ProgramInv'
        /\ s \in Program!Landed /\ ~Has(pTrades, s)
        /\ \A e : Has(pTrades', e) <=> Has(pTrades, e) \/ e = s
    BY <2>1, TradeStored
  <2>3. s \in Program!Trades
    BY <2>2 DEF Program!Landed
  <2>4. Program!Landed' = Program!Landed
    BY <2>1 DEF Program!Landed
  <2>5. copies(pTrades)[s] = 0
    BY <2>2, <2>3 DEF copies
  <2>6. copies(pTrades') = [copies(pTrades) EXCEPT ![s] = 1]
    BY <2>2, <2>3 DEF copies
  <2>7. Program!Promise!Record("program", s)
    BY <1>1, <1>2, <2>1, <2>2, <2>4, <2>5, <2>6 DEF Program!Promise!Record
  <2>8. QED BY <2>2, <2>3, <2>7 DEF Program!Promise!Next
<1>8. QED BY <1>3, <1>4, <1>5, <1>6, <1>7 DEF Program!Next, Program!Handle

(* The other parts of MCFeed leave the subscription alone. *)
LEMMA ProgramStands ==
  ASSUME ProgramInv, UNCHANGED pVars
  PROVE  ProgramInv' /\ UNCHANGED Program!Promise!vars
<1>1. UNCHANGED <<landed, notified, pSeen, task, pTrades, pDisk>>
  BY DEF pVars
<1>2. Program!Landed' = Program!Landed
  BY <1>1 DEF Program!Landed
<1>3. ProgramInv'
  BY <1>1, <1>2 DEF ProgramInv, Told, Once
<1>4. UNCHANGED Program!Promise!vars
  BY <1>1, <1>2 DEF Program!Promise!vars, Program!Copies
<1>5. QED BY <1>3, <1>4

(* The log subscription implements the abstract feed. *)
THEOREM ProgramFeedRefines == FeedSpec => Program!RefinesTradeFeed
<1>1. FeedInit => ProgramInv /\ Program!Promise!Init
  BY ProgramStarts DEF FeedInit
<1>2. ProgramInv /\ [FeedNext]_<<part, vars, pVars, rVars>> => ProgramInv' /\ [Program!Promise!Next]_(Program!Promise!vars)
  <2>1. ASSUME ProgramInv, part = "program" /\ Program!Next PROVE ProgramInv' /\ [Program!Promise!Next]_(Program!Promise!vars)
    BY <2>1, ProgramSteps
  <2>2. ASSUME ProgramInv, UNCHANGED pVars PROVE ProgramInv' /\ [Program!Promise!Next]_(Program!Promise!vars)
    BY <2>2, ProgramStands
  <2>3. QED BY <2>1, <2>2 DEF FeedNext
<1>3. QED BY <1>1, <1>2, PTL DEF FeedSpec, Program!RefinesTradeFeed, Program!Promise!Spec

-----------------------------------------------------------------------------
(* Both feeds.                                                             *)

(* The property of the run, for any numbers of signatures, ticks, limits,  *)
(* faults and restarts and any transactions of the program's market: the   *)
(* poller and the log subscription put no swap into the feed twice and     *)
(* none that did not happen; besides a restart, which goes back to what    *)
(* was saved, the poller forgets swaps once after each start and pool, by  *)
(* that pool's first poll and of that pool only, the subscription never.   *)
THEOREM FeedsImplement == FeedSpec => FeedsRefineTradeFeed
<1>1. FeedSpec => RefinesTradeFeed /\ []TypeOK
  BY PollerRefines
<1>2. FeedSpec => Program!RefinesTradeFeed
  BY ProgramFeedRefines
<1>3. QED BY <1>1, <1>2, PTL DEF FeedsRefineTradeFeed
=============================================================================
