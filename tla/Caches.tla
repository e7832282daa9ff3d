------------------------------- MODULE Caches -------------------------------
(***************************************************************************)
(* The indexer's cached reads (src/indexer/src/index.ts, launch.ts): each  *)
(* serves its entry while it is young, else awaits the source and caches   *)
(* the answer under the time it arrives. They differ in what a failed read *)
(* serves and leaves behind. Requests overlap, and nothing stops several   *)
(* of them from reading at once. /markets caches rows built from the pool  *)
(* cache. A source may change right after it is read, so a value is        *)
(* abstracted to the time since it was read: how old it may be. Lifetime   *)
(* fees, which are to only go up, keep their amount.                       *)
(***************************************************************************)
EXTENDS Integers, FiniteSets, FiniteSetsExt

CONSTANTS Readers,       \* requests that may overlap
          Kinds,         \* the caches under check
          Ttl,           \* Ttl[k]: how long an entry of cache k is served
          MaxWait,       \* bound: how long one await takes
          MaxAge,        \* bound: ages above it count as it
          MaxFees,       \* bound: fees of each pool
          Faults         \* bound: reads that fail

VARIABLES cache,         \* cache[k]: [age of the value, time since it was cached]
          reader,        \* reader[r]: [pc, kind, age, wait]
          served,        \* served[k]: the age of the value served last
          curveFees, dammFees,   \* accrued in the two pools
          shownFees,     \* the lifetime fees served last
          faults

vars == <<cache, reader, served, curveFees, dammFees, shownFees, faults>>
feeVars == <<curveFees, dammFees, shownFees>>

None == -1
Empty == [age |-> None, kept |-> 0]
Idle == [pc |-> "idle", kind |-> "pool", age |-> None, wait |-> 0]

Init ==
  /\ cache = [k \in Kinds |-> Empty]
  /\ reader = [r \in Readers |-> Idle]
  /\ served = [k \in Kinds |-> None]
  /\ curveFees = 0 /\ dammFees = 0 /\ shownFees = 0
  /\ faults = Faults

Older(a) == IF a = None THEN None ELSE Min({a + 1, MaxAge})

(* Time passes, unless an await is overdue. *)
Tick ==
  /\ \A r \in Readers : reader[r].pc # "idle" => reader[r].wait < MaxWait
  /\ cache' = [k \in Kinds |-> [age |-> Older(cache[k].age), kept |-> Min({cache[k].kept + 1, MaxAge})]]
  /\ reader' = [r \in Readers |-> IF reader[r].pc = "idle" THEN Idle
                  ELSE [reader[r] EXCEPT !.age = Older(@), !.wait = @ + 1]]
  /\ UNCHANGED <<served, feeVars, faults>>

young(k) == cache[k].age # None /\ cache[k].kept < Ttl[k]

-----------------------------------------------------------------------------
(* What each cache does with an answer, None for a failed read.            *)

Entry(a) == [age |-> a, kept |-> 0]
keep_on_error(old, a) == IF a = None THEN old ELSE Entry(a)

meteoraPool(old, a) == keep_on_error(old, a)
dexVolume24hSol_redated(old, a) == IF a = None THEN [old EXCEPT !.kept = 0] ELSE Entry(a)
dexVolume24hSol(old, a) == keep_on_error(old, a)
getSolUsd_forgets(old, a) == Entry(a)
getSolUsd(old, a) == keep_on_error(old, a)
meFloor(old, a) == Entry(a)                 \* a failure is cached as well

Cached(k, a) ==
  CASE k = "pool" -> meteoraPool(cache[k], a)
    [] k = "dex" -> dexVolume24hSol(cache[k], a)
    [] k = "sol" -> getSolUsd(cache[k], a)
    [] k = "floor" -> meFloor(cache[k], a)

(* getSolUsd serves its entry after a failure; the others serve null.      *)
Answer(k, a) == IF k = "sol" THEN getSolUsd(cache[k], a).age ELSE a

-----------------------------------------------------------------------------
(* A request: served from the cache, or it awaits the source.              *)

Hit(r, k) ==
  /\ reader[r].pc = "idle" /\ young(k)
  /\ served' = [served EXCEPT ![k] = cache[k].age]
  /\ UNCHANGED <<cache, reader, feeVars, faults>>

Miss(r, k) ==
  /\ reader[r].pc = "idle" /\ ~young(k)
  /\ reader' = [reader EXCEPT ![r] =
       IF k = "body" /\ young("pool")
       THEN [pc |-> "build", kind |-> k, age |-> cache["pool"].age, wait |-> 0]
       ELSE [pc |-> "ask", kind |-> k, age |-> None, wait |-> 0]]
  /\ UNCHANGED <<cache, served, feeVars, faults>>

(* The source is read; its answer arrives later. *)
Read(r) ==
  /\ reader[r].pc = "ask"
  /\ reader' = [reader EXCEPT ![r].pc = "answer", ![r].age = 0]
  /\ UNCHANGED <<cache, served, feeVars, faults>>

ReadFails(r) ==
  /\ reader[r].pc = "ask" /\ faults > 0 /\ faults' = faults - 1
  /\ reader' = [reader EXCEPT ![r].pc = "answer"]
  /\ UNCHANGED <<cache, served, feeVars>>

(* The answer arrives. A /markets row goes on with the pool it now knows.  *)
Arrive(r) ==
  LET k == IF reader[r].kind = "body" THEN "pool" ELSE reader[r].kind
      a == reader[r].age
  IN
  /\ reader[r].pc = "answer"
  /\ cache' = [cache EXCEPT ![k] = Cached(k, a)]
  /\ IF reader[r].kind = "body"
     THEN reader' = [reader EXCEPT ![r].pc = "build", ![r].wait = 0] /\ UNCHANGED served
     ELSE reader' = [reader EXCEPT ![r] = Idle] /\ served' = [served EXCEPT ![k] = Answer(k, a)]
  /\ UNCHANGED <<feeVars, faults>>

body_entry_dated_by_value(a) == [age |-> a, kept |-> IF a = 0 THEN 0 ELSE -a]
body_entry(a) == Entry(a)

(* /markets: all rows are there, the body is cached and sent. A row whose  *)
(* pool could not be read shows the on-chain values instead.               *)
Build(r) ==
  LET a == IF reader[r].age = None THEN 0 ELSE reader[r].age IN
  /\ reader[r].pc = "build"
  /\ cache' = [cache EXCEPT !["body"] = body_entry(a)]
  /\ served' = [served EXCEPT !["body"] = a]
  /\ reader' = [reader EXCEPT ![r] = Idle]
  /\ UNCHANGED <<feeVars, faults>>

-----------------------------------------------------------------------------
(* Lifetime fees: what accrued in the curve pool and in the DAMM v2 pool.  *)

Accrue ==
  /\ \/ curveFees < MaxFees /\ curveFees' = curveFees + 1 /\ UNCHANGED dammFees
     \/ dammFees < MaxFees /\ dammFees' = dammFees + 1 /\ UNCHANGED curveFees
  /\ UNCHANGED <<cache, reader, served, shownFees, faults>>

marketFeeStats_latest(curveRead, dammRead) == IF dammFees > 0 THEN dammFees ELSE curveFees
marketFeeStats(curveRead, dammRead) ==
  (IF curveRead THEN curveFees ELSE 0) + (IF dammRead THEN dammFees ELSE 0)

(* A pool that cannot be read counts as nothing; the sum is cached and shown. *)
ShowFees == \E curveRead, dammRead \in BOOLEAN :
  /\ IF curveRead /\ dammRead THEN UNCHANGED faults ELSE faults > 0 /\ faults' = faults - 1
  /\ shownFees' = marketFeeStats(curveRead, dammRead)
  /\ UNCHANGED <<cache, reader, served, curveFees, dammFees>>

Next ==
  \/ Tick \/ Accrue \/ ShowFees
  \/ \E r \in Readers :
       \/ \E k \in Kinds : Hit(r, k) \/ Miss(r, k)
       \/ Read(r) \/ ReadFails(r) \/ Arrive(r) \/ Build(r)

Spec == Init /\ [][Next]_vars

-----------------------------------------------------------------------------
(* Properties. *)

(* What /markets shows of a pool was read at most both TTLs and two awaits *)
(* ago, however requests overlap and reads fail.                           *)
ViewsAreRecent ==
  "body" \in Kinds => served["body"] <= Ttl["pool"] + Ttl["body"] + 2 * MaxWait

(* The same for a single cache, where one await counts. SOL/USD is exempt: *)
(* it serves an entry of any age while reads fail.                         *)
EntriesAreRecent == \A k \in Kinds \ {"body", "sol"} : served[k] <= Ttl[k] + MaxWait

(* Once a SOL price was served, no failed read takes it away again: the    *)
(* conversions of /markets and /aggregator keep a rate.                    *)
RateIsKept == [][\A k \in Kinds : k = "sol" /\ served[k] # None => served'[k] # None]_vars

(* index.ts says of the fee totals that "Both only ever go up": they do    *)
(* until a pool cannot be read.                                            *)
FeesOnlyGoUp == [][faults' = Faults => shownFees' >= shownFees]_vars
=============================================================================
