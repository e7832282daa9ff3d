---------------------------- MODULE Views_proofs ----------------------------
(***************************************************************************)
(* Proofs about what the indexer and the relayer compute for others to see *)
(* (MCViews): the caches, for any readers that overlap, any lives, waits   *)
(* and failures; lists read page by page while their entries move; and the *)
(* trades that webhook and poller feed, with the candles made of them.     *)
(***************************************************************************)
EXTENDS MCViews, FixedMath_proofs

-----------------------------------------------------------------------------
(* The caches.                                                             *)

Age == Nat \cup {None}
CacheEntry == [age : Age, kept : Nat]
ReaderState == [pc : {"idle", "ask", "answer", "build"}, kind : Kinds, age : Age, wait : 0..MaxWait]

(* How old a value is follows from the time since it was cached and the    *)
(* awaits it has been through; one that /markets builds from may have been *)
(* in the pool cache before.                                               *)
EntryOK(k, c) ==
  c.age <= c.kept + MaxWait + (IF k = "body" THEN Ttl["pool"] + MaxWait ELSE 0)
ReaderOK(r) ==
  /\ r.pc = "ask" => r.age = None
  /\ r.pc = "answer" => r.age <= r.wait
  /\ r.pc = "build" => r.age <= Ttl["pool"] + MaxWait + r.wait

FreshInv ==
  /\ cache \in [Kinds -> CacheEntry] /\ reader \in [Readers -> ReaderState]
  /\ served \in [Kinds -> Age]
  /\ \A k \in Kinds : EntryOK(k, cache[k])
  /\ \A r \in Readers : ReaderOK(reader[r])
  /\ ViewsAreRecent /\ EntriesAreRecent
  /\ served["sol"] # None => cache["sol"].age # None

(* Fees never fall: while no read has failed, what is shown accrued.       *)
FeesInv ==
  /\ curveFees \in Nat /\ dammFees \in Nat /\ shownFees \in Nat
  /\ faults \in Nat /\ faults <= Faults
  /\ faults = Faults => shownFees <= curveFees + dammFees

-----------------------------------------------------------------------------
LEMMA MinOf ==
  ASSUME NEW a \in Int, NEW b \in Int
  PROVE  /\ Min({a, b}) \in {a, b}
         /\ Min({a, b}) <= a /\ Min({a, b}) <= b
<1>1. \E x \in {a, b} : \A y \in {a, b} : x <= y
  <2>1. CASE a <= b
    BY <2>1
  <2>2. CASE b <= a
    BY <2>2
  <2> QED
    BY <2>1, <2>2
<1> QED
  BY <1>1 DEF Min

(* A value gets older by at most one, and what is missing stays missing.   *)
LEMMA OlderBy ==
  ASSUME NEW a \in Age
  PROVE  /\ Older(a) \in Age /\ Older(a) <= a + 1
         /\ a # None => Older(a) <= MaxAge
         /\ Older(a) = None <=> a = None
<1>1. CASE a = None
  BY <1>1 DEF Older, Age, None
<1>2. CASE a # None
  <2>1. a \in Nat /\ MaxAge \in Nat
    BY <1>2, CachesAssumption DEF Age
  <2>2. Min({a + 1, MaxAge}) \in {a + 1, MaxAge} /\ Min({a + 1, MaxAge}) <= a + 1
        /\ Min({a + 1, MaxAge}) <= MaxAge
    BY <2>1, MinOf
  <2> QED
    BY <1>2, <2>1, <2>2 DEF Older, Age, None
<1> QED
  BY <1>1, <1>2

(* Constants of the caches as numbers.                                     *)
LEMMA Lives ==
  /\ MaxWait \in Nat /\ MaxAge \in Nat
  /\ \A k \in Kinds : Ttl[k] \in Nat
  /\ {"pool", "body", "sol"} \subseteq Kinds
  /\ Ttl["pool"] \in Nat /\ Ttl["body"] \in Nat
  BY CachesAssumption

LEMMA FreshInit == Init => FreshInv /\ FeesInv
<1> SUFFICES ASSUME Init PROVE FreshInv /\ FeesInv
  OBVIOUS
<1>1. None \in Age /\ Empty \in CacheEntry /\ Idle \in ReaderState
  BY Lives DEF Empty, Idle, Age, CacheEntry, ReaderState, None
<1>2. cache \in [Kinds -> CacheEntry] /\ reader \in [Readers -> ReaderState]
      /\ served \in [Kinds -> Age]
  BY <1>1 DEF Init
<1>3. \A k \in Kinds : EntryOK(k, cache[k])
  BY Lives DEF Init, EntryOK, Empty, None
<1>4. \A r \in Readers : ReaderOK(reader[r])
  BY DEF Init, ReaderOK, Idle, None
<1>5. ViewsAreRecent /\ EntriesAreRecent /\ (served["sol"] # None => cache["sol"].age # None)
  BY Lives DEF Init, ViewsAreRecent, EntriesAreRecent, None
<1>6. FeesInv
  BY CachesAssumption DEF Init, FeesInv
<1> QED
  BY <1>2, <1>3, <1>4, <1>5, <1>6 DEF FreshInv

(* Time passes for entries and awaits alike.                               *)
LEMMA TickKeeps ==
  ASSUME FreshInv, Tick
  PROVE  FreshInv'
<1>1. cache' \in [Kinds -> CacheEntry] /\ \A k \in Kinds : EntryOK(k, cache'[k])
                                           /\ (cache'[k].age = None <=> cache[k].age = None)
  <2>1. ASSUME NEW k \in Kinds
        PROVE  /\ cache'[k] \in CacheEntry /\ EntryOK(k, cache'[k])
               /\ cache'[k].age = None <=> cache[k].age = None
    <3> DEFINE a == cache[k].age  n == cache[k].kept
    <3>1. a \in Age /\ n \in Nat /\ EntryOK(k, cache[k])
      BY <2>1 DEF FreshInv, CacheEntry
    <3>2. cache'[k] = [age |-> Older(a), kept |-> Min({n + 1, MaxAge})]
      BY <2>1 DEF Tick
    <3>3. Min({n + 1, MaxAge}) \in {n + 1, MaxAge}
      <4>1. n + 1 \in Int /\ MaxAge \in Int
        BY <3>1, Lives
      <4> HIDE DEF n
      <4> QED
        BY <4>1, MinOf
    <3>4. Older(a) \in Age /\ Older(a) <= a + 1 /\ (a # None => Older(a) <= MaxAge)
          /\ (Older(a) = None <=> a = None)
      BY <3>1, OlderBy
    <3>5. Older(a) <= MaxAge
      BY <3>4, Lives DEF None
    <3>6. cache'[k] \in CacheEntry
      BY <3>1, <3>2, <3>3, <3>4, Lives DEF CacheEntry
    <3> DEFINE slack == MaxWait + (IF k = "body" THEN Ttl["pool"] + MaxWait ELSE 0)
    <3>7. slack \in Nat
      BY Lives
    <3>8. a <= n + slack
      BY <3>1, <3>7, Lives DEF EntryOK, Age, None
    <3>9. Older(a) <= Min({n + 1, MaxAge}) + slack
      <4> HIDE DEF slack
      <4> QED
        BY <3>1, <3>3, <3>4, <3>5, <3>7, <3>8, Lives DEF Age, None
    <3>10. EntryOK(k, cache'[k])
      BY <3>2, <3>9, <3>3, <3>4, Lives, <3>1 DEF EntryOK, Age, None
    <3> QED
      BY <3>2, <3>4, <3>6, <3>10
  <2>2. cache' = [k \in Kinds |-> cache'[k]]
    BY DEF Tick
  <2> QED
    BY <2>1, <2>2
<1>2. reader' \in [Readers -> ReaderState] /\ \A r \in Readers : ReaderOK(reader'[r])
  <2>1. ASSUME NEW r \in Readers
        PROVE  reader'[r] \in ReaderState /\ ReaderOK(reader'[r])
    <3>1. reader[r] \in ReaderState /\ ReaderOK(reader[r])
      BY <2>1 DEF FreshInv
    <3>2. CASE reader[r].pc = "idle"
      <4>1. reader'[r] = Idle
        BY <2>1, <3>2 DEF Tick
      <4> QED
        BY <4>1, Lives DEF Idle, ReaderState, ReaderOK, Age, None
    <3>3. CASE reader[r].pc # "idle"
      <4> DEFINE a == reader[r].age  w == reader[r].wait
      <4>1. reader'[r] = [reader[r] EXCEPT !.age = Older(a), !.wait = w + 1]
        BY <2>1, <3>3 DEF Tick
      <4>2. w < MaxWait /\ w \in 0..MaxWait /\ a \in Age
        BY <2>1, <3>1, <3>3 DEF Tick, ReaderState
      <4>3. Older(a) \in Age /\ Older(a) <= a + 1 /\ (Older(a) = None <=> a = None)
        BY <4>2, OlderBy
      <4>4. w + 1 \in 0..MaxWait
        BY <4>2, Lives
      <4>5. reader'[r] \in ReaderState
        BY <3>1, <4>1, <4>3, <4>4 DEF ReaderState
      <4>6. /\ reader'[r].pc = reader[r].pc
            /\ reader'[r].age = Older(a) /\ reader'[r].wait = w + 1
        BY <3>1, <4>1 DEF ReaderState
      <4>7. ReaderOK(reader'[r])
        BY <3>1, <4>2, <4>3, <4>6, Lives DEF ReaderOK, Age, None
      <4> QED
        BY <4>5, <4>7
    <3> QED
      BY <3>2, <3>3
  <2>2. reader' = [r \in Readers |-> reader'[r]]
    BY DEF Tick
  <2> QED
    BY <2>1, <2>2
<1>3. served' = served
  BY DEF Tick
<1> QED
  BY <1>1, <1>2, <1>3, Lives DEF FreshInv, ViewsAreRecent, EntriesAreRecent

(* What a hit serves is an entry younger than its life.                    *)
LEMMA HitKeeps ==
  ASSUME FreshInv, NEW r \in Readers, NEW k \in Kinds, Hit(r, k)
  PROVE  FreshInv' /\ (k = "sol" => served'["sol"] # None)
<1> DEFINE c == cache[k]
<1>1. /\ c.age \in Age /\ c.kept \in Nat /\ EntryOK(k, c)
      /\ c.age # None /\ c.kept < Ttl[k]
  BY DEF FreshInv, CacheEntry, Hit, young
<1>2. served' = [served EXCEPT ![k] = c.age] /\ cache' = cache /\ reader' = reader
  BY DEF Hit
<1>3. served' \in [Kinds -> Age] /\ \A j \in Kinds : served'[j] = IF j = k THEN c.age ELSE served[j]
  BY <1>1, <1>2 DEF FreshInv
<1>4. ViewsAreRecent'
  BY <1>1, <1>3, Lives DEF FreshInv, ViewsAreRecent, EntryOK, Age, None
<1>5. EntriesAreRecent'
  BY <1>1, <1>3, Lives DEF FreshInv, EntriesAreRecent, EntryOK, Age, None
<1>6. served'["sol"] # None => cache'["sol"].age # None
  BY <1>1, <1>2, <1>3, Lives DEF FreshInv
<1> QED
  BY <1>1, <1>2, <1>3, <1>4, <1>5, <1>6 DEF FreshInv

(* A request that misses asks the source, or builds from the pool cache.   *)
LEMMA MissKeeps ==
  ASSUME FreshInv, NEW r \in Readers, NEW k \in Kinds, Miss(r, k)
  PROVE  FreshInv'
<1> DEFINE q == reader'[r]
<1>1. /\ cache' = cache /\ served' = served
      /\ reader' = [reader EXCEPT ![r] =
           IF k = "body" /\ young("pool")
           THEN [pc |-> "build", kind |-> k, age |-> cache["pool"].age, wait |-> 0]
           ELSE [pc |-> "ask", kind |-> k, age |-> None, wait |-> 0]]
  BY DEF Miss
<1>2. cache["pool"].age \in Age /\ cache["pool"].kept \in Nat /\ EntryOK("pool", cache["pool"])
  BY Lives DEF FreshInv, CacheEntry
<1>3. q \in ReaderState /\ ReaderOK(q)
  <2>1. CASE k = "body" /\ young("pool")
    <3>1. q = [pc |-> "build", kind |-> k, age |-> cache["pool"].age, wait |-> 0]
      BY <1>1, <2>1 DEF FreshInv
    <3>2. cache["pool"].age <= Ttl["pool"] + MaxWait + 0
      BY <1>2, <2>1, Lives DEF EntryOK, young, Age, None
    <3> QED
      BY <1>2, <3>1, <3>2, Lives DEF ReaderState, ReaderOK
  <2>2. CASE ~(k = "body" /\ young("pool"))
    <3>1. q = [pc |-> "ask", kind |-> k, age |-> None, wait |-> 0]
      BY <1>1, <2>2 DEF FreshInv
    <3> QED
      BY <3>1, Lives DEF ReaderState, ReaderOK, Age, None
  <2> QED
    BY <2>1, <2>2
<1>4. reader' \in [Readers -> ReaderState] /\ \A s \in Readers : ReaderOK(reader'[s])
  BY <1>1, <1>3 DEF FreshInv
<1> QED
  BY <1>1, <1>4, Lives DEF FreshInv, ViewsAreRecent, EntriesAreRecent

LEMMA ReadKeeps ==
  ASSUME FreshInv, NEW r \in Readers, Read(r) \/ ReadFails(r)
  PROVE  FreshInv'
<1>1. reader[r].pc = "ask" /\ reader[r] \in ReaderState /\ ReaderOK(reader[r])
  BY DEF FreshInv, Read, ReadFails
<1>2. /\ cache' = cache /\ served' = served
      /\ \/ reader' = [reader EXCEPT ![r].pc = "answer", ![r].age = 0]
         \/ reader' = [reader EXCEPT ![r].pc = "answer"]
  BY DEF Read, ReadFails
<1>3. /\ reader'[r] \in ReaderState /\ reader'[r].pc = "answer"
      /\ reader'[r].wait = reader[r].wait /\ reader'[r].age \in {0, reader[r].age}
      /\ \A s \in Readers : s # r => reader'[s] = reader[s]
      /\ reader' = [s \in Readers |-> reader'[s]]
  BY <1>1, <1>2 DEF FreshInv, ReaderState, Age
<1>4. reader[r].age = None /\ reader[r].wait \in Nat
  BY <1>1, Lives DEF ReaderOK, ReaderState
<1>5. ReaderOK(reader'[r])
  BY <1>3, <1>4 DEF ReaderOK, None
<1>6. reader' \in [Readers -> ReaderState] /\ \A s \in Readers : ReaderOK(reader'[s])
  BY <1>3, <1>5 DEF FreshInv
<1> QED
  BY <1>2, <1>6, Lives DEF FreshInv, ViewsAreRecent, EntriesAreRecent

(* An answer is cached under the time it arrives, one await after it was   *)
(* read; a failed read leaves the entry, or for the floor an empty one.    *)
LEMMA ArriveKeeps ==
  ASSUME FreshInv, NEW r \in Readers, Arrive(r)
  PROVE  FreshInv' /\ (served["sol"] # None => served'["sol"] # None)
<1> DEFINE q == reader[r]
           k == IF q.kind = "body" THEN "pool" ELSE q.kind
           a == q.age
           c == Cached(k, a)
<1>1. q \in ReaderState /\ q.pc = "answer" /\ a <= q.wait
  BY DEF FreshInv, Arrive, ReaderOK
<1>2. k \in Kinds /\ k # "body" /\ a \in Age /\ a <= MaxWait /\ q.wait \in 0..MaxWait
  BY <1>1, Lives DEF ReaderState, Age, None
<1>3. cache[k] \in CacheEntry /\ EntryOK(k, cache[k])
  BY <1>2 DEF FreshInv
<1>4. c \in {cache[k], Entry(a)} /\ (k = "sol" /\ a = None => c = cache[k])
      /\ (a # None => c = Entry(a))
  BY <1>2, CachesAssumption
     DEF Cached, meteoraPool, dexVolume24hSol, getSolUsd, meFloor, keep_on_error, Entry
<1>5. Entry(a) \in CacheEntry /\ EntryOK(k, Entry(a))
  BY <1>2, Lives DEF Entry, CacheEntry, EntryOK, Age, None
<1>6. c \in CacheEntry /\ EntryOK(k, c)
  BY <1>3, <1>4, <1>5
<1>7. /\ cache' = [cache EXCEPT ![k] = c]
      /\ \/ q.kind = "body" /\ reader' = [reader EXCEPT ![r].pc = "build", ![r].wait = 0]
            /\ served' = served
         \/ /\ q.kind # "body" /\ reader' = [reader EXCEPT ![r] = Idle]
            /\ served' = [served EXCEPT ![k] = Answer(k, a)]
  BY DEF Arrive
<1>8. cache' \in [Kinds -> CacheEntry] /\ (\A j \in Kinds : EntryOK(j, cache'[j]))
      /\ \A j \in Kinds : cache'[j] = IF j = k THEN c ELSE cache[j]
  <2> HIDE DEF c, k
  <2> QED
    BY <1>2, <1>6, <1>7 DEF FreshInv
<1>9. reader'[r] \in ReaderState /\ ReaderOK(reader'[r])
  <2>1. CASE q.kind = "body"
    <3>1. /\ reader'[r] \in ReaderState /\ reader'[r].pc = "build"
          /\ reader'[r].wait = 0 /\ reader'[r].age = a
      BY <1>1, <1>7, <2>1, Lives DEF FreshInv, ReaderState
    <3> QED
      BY <1>2, <3>1, Lives DEF ReaderOK, Age, None
  <2>2. CASE q.kind # "body"
    <3>1. reader'[r] = Idle
      BY <1>7, <2>2 DEF FreshInv
    <3> QED
      BY <3>1, Lives DEF Idle, ReaderState, ReaderOK, Age, None
  <2> QED
    BY <2>1, <2>2
<1>10. reader' \in [Readers -> ReaderState] /\ \A s \in Readers : ReaderOK(reader'[s])
  BY <1>7, <1>9 DEF FreshInv
<1>11. k # "sol" => Answer(k, a) = a
  BY DEF Answer
<1>12. k = "sol" => Answer(k, a) = c.age
  BY <1>2 DEF Answer, Cached
<1>13. Answer(k, a) \in Age
  BY <1>2, <1>6, <1>11, <1>12 DEF CacheEntry
<1>14. served' \in [Kinds -> Age]
       /\ \A j \in Kinds : served'[j] = IF j = k /\ q.kind # "body" THEN Answer(k, a) ELSE served[j]
  <2> HIDE DEF c, a
  <2> QED
    BY <1>2, <1>7, <1>13 DEF FreshInv
<1>15. ViewsAreRecent'
  BY <1>2, <1>14, Lives DEF FreshInv, ViewsAreRecent
<1>16. EntriesAreRecent'
  BY <1>2, <1>11, <1>14, Lives DEF FreshInv, EntriesAreRecent, Age, None
<1>17. /\ served'["sol"] # None => cache'["sol"].age # None
       /\ served["sol"] # None => served'["sol"] # None
  <2>1. CASE k = "sol" /\ q.kind # "body"
    <3>1. served'["sol"] = c.age /\ cache'["sol"] = c
      BY <1>8, <1>12, <1>14, <2>1, Lives
    <3>2. cache["sol"].age # None => c.age # None
      BY <1>4, <2>1 DEF Entry
    <3> QED
      BY <3>1, <3>2 DEF FreshInv
  <2>2. CASE k # "sol"
    BY <1>8, <1>14, <2>2, Lives DEF FreshInv
  <2>3. k = "sol" => q.kind # "body"
    OBVIOUS
  <2> QED
    BY <2>1, <2>2, <2>3
<1> QED
  BY <1>8, <1>10, <1>14, <1>15, <1>16, <1>17 DEF FreshInv

(* A built body is as old as the pool entry it was built from.             *)
LEMMA BuildKeeps ==
  ASSUME FreshInv, NEW r \in Readers, Build(r)
  PROVE  FreshInv' /\ served'["sol"] = served["sol"]
<1> DEFINE q == reader[r]
           a == IF q.age = None THEN 0 ELSE q.age
<1>1. q \in ReaderState /\ q.pc = "build" /\ q.age <= Ttl["pool"] + MaxWait + q.wait
  BY DEF FreshInv, Build, ReaderOK
<1>2. q.age \in Age /\ q.wait \in 0..MaxWait
  BY <1>1 DEF ReaderState
<1>3. a \in Nat /\ a <= Ttl["pool"] + MaxWait + MaxWait
  BY <1>1, <1>2, Lives DEF Age, None
<1>4. /\ cache' = [cache EXCEPT !["body"] = Entry(a)]
      /\ served' = [served EXCEPT !["body"] = a]
      /\ reader' = [reader EXCEPT ![r] = Idle]
  BY DEF Build, body_entry
<1>5. Entry(a) \in CacheEntry /\ EntryOK("body", Entry(a))
  <2> HIDE DEF a
  <2> QED
    BY <1>3, Lives DEF Entry, CacheEntry, EntryOK, Age
<1>6. cache' \in [Kinds -> CacheEntry] /\ (\A j \in Kinds : EntryOK(j, cache'[j]))
      /\ cache'["sol"] = cache["sol"]
  <2> HIDE DEF a
  <2> QED
    BY <1>4, <1>5, Lives DEF FreshInv
<1>7. Idle \in ReaderState /\ ReaderOK(Idle)
  BY Lives DEF Idle, ReaderState, ReaderOK, Age, None
<1>8. reader' \in [Readers -> ReaderState] /\ \A s \in Readers : ReaderOK(reader'[s])
  BY <1>4, <1>7 DEF FreshInv
<1>9. served' \in [Kinds -> Age]
      /\ \A j \in Kinds : served'[j] = IF j = "body" THEN a ELSE served[j]
  <2> HIDE DEF a
  <2> QED
    BY <1>3, <1>4, Lives DEF FreshInv, Age
<1>10. ViewsAreRecent' /\ EntriesAreRecent'
  <2> HIDE DEF a
  <2> QED
    BY <1>3, <1>9, Lives DEF FreshInv, ViewsAreRecent, EntriesAreRecent
<1> QED
  BY <1>6, <1>8, <1>9, <1>10, Lives DEF FreshInv

(* Every kind that a part reads is a cache.                                *)
LEMMA PartsRead == \A p \in DOMAIN Read_by : Read_by[p] \subseteq Kinds
  BY CachesAssumption DEF Read_by

LEMMA CacheSteps ==
  ASSUME FreshInv, NEW kinds, kinds \subseteq Kinds, CacheNext(kinds)
  PROVE  FreshInv' /\ (served["sol"] # None => served'["sol"] # None)
<1>1. CASE Tick
  <2>1. served' = served
    BY <1>1 DEF Tick
  <2> QED
    BY <1>1, <2>1, TickKeeps
<1>2. ASSUME NEW r \in Readers, NEW k \in Kinds, Hit(r, k) \/ Miss(r, k)
      PROVE  FreshInv' /\ (served["sol"] # None => served'["sol"] # None)
  <2>1. CASE Hit(r, k)
    <3>1. k # "sol" => served'["sol"] = served["sol"]
      BY <2>1, Lives DEF FreshInv, Hit
    <3> QED
      BY <1>2, <2>1, <3>1, HitKeeps
  <2>2. CASE Miss(r, k)
    <3>1. served' = served
      BY <2>2 DEF Miss
    <3> QED
      BY <1>2, <2>2, <3>1, MissKeeps
  <2> QED
    BY <1>2, <2>1, <2>2
<1>3. ASSUME NEW r \in Readers, Read(r) \/ ReadFails(r) \/ Arrive(r) \/ Build(r)
      PROVE  FreshInv' /\ (served["sol"] # None => served'["sol"] # None)
  <2>1. CASE Read(r) \/ ReadFails(r)
    <3>1. served' = served
      BY <2>1 DEF Read, ReadFails
    <3> QED
      BY <1>3, <2>1, <3>1, ReadKeeps
  <2>2. CASE Arrive(r)
    BY <1>3, <2>2, ArriveKeeps
  <2>3. CASE Build(r)
    BY <1>3, <2>3, BuildKeeps
  <2> QED
    BY <1>3, <2>1, <2>2, <2>3
<1> QED
  BY <1>1, <1>2, <1>3 DEF CacheNext

(* The reads of one part change faults and no fees; the fees of another    *)
(* change no cache.                                                        *)
LEMMA FeesKept ==
  ASSUME FeesInv, UNCHANGED vars \/ (\E kinds : CacheNext(kinds)) \/ Accrue \/ ShowFees
  PROVE  FeesInv' /\ (faults' = Faults => shownFees' >= shownFees)
<1>1. CASE UNCHANGED vars
  BY <1>1 DEF FeesInv, vars, feeVars
<1>2. CASE \E kinds : CacheNext(kinds)
  <2>1. /\ curveFees' = curveFees /\ dammFees' = dammFees /\ shownFees' = shownFees
        /\ faults' = faults \/ (faults > 0 /\ faults' = faults - 1)
    <3>1. CASE Tick
      BY <3>1 DEF feeVars, Tick
    <3>2. CASE \E r \in Readers : \E k : Hit(r, k) \/ Miss(r, k)
      BY <3>2 DEF feeVars, Hit, Miss
    <3>3. CASE \E r \in Readers : Read(r) \/ ReadFails(r) \/ Arrive(r) \/ Build(r)
      BY <3>3 DEF feeVars, Read, ReadFails, Arrive, Build
    <3> QED
      BY <1>2, <3>1, <3>2, <3>3 DEF CacheNext
  <2> QED
    BY <2>1, CachesAssumption DEF FeesInv, feeVars
<1>3. CASE Accrue
  BY <1>3 DEF FeesInv, Accrue
<1>4. CASE ShowFees
  <2>1. PICK curveRead \in BOOLEAN, dammRead \in BOOLEAN :
          /\ IF curveRead /\ dammRead THEN UNCHANGED faults ELSE faults > 0 /\ faults' = faults - 1
          /\ shownFees' = marketFeeStats(curveRead, dammRead)
          /\ UNCHANGED <<curveFees, dammFees>>
    BY <1>4 DEF ShowFees
  <2>2. shownFees' \in Nat
    BY <2>1 DEF FeesInv, marketFeeStats
  <2>3. curveRead /\ dammRead => shownFees' = curveFees + dammFees
    BY <2>1 DEF marketFeeStats
  <2> QED
    BY <2>1, <2>2, <2>3, CachesAssumption DEF FeesInv
<1> QED
  BY <1>1, <1>2, <1>3, <1>4

(* What a step of the composition does to the caches.                      *)
LEMMA CachePart ==
  ASSUME ViewsNext
  PROVE  \/ \E p \in DOMAIN Read_by : CacheNext(Read_by[p])
         \/ Accrue \/ ShowFees
         \/ UNCHANGED vars
  BY DEF ViewsNext

(* Entries and views built of entries are no older than the lives of the   *)
(* caches and the awaits allow, however readers overlap and reads fail; a  *)
(* SOL price once served is kept; and the fee totals shown never fall      *)
(* until a read fails. For any readers, lives, waits and numbers of        *)
(* failures.                                                               *)
THEOREM CachesStayFresh == ViewsSpec => CachesAreFresh
<1>1. ViewsInit => FreshInv /\ FeesInv
  BY FreshInit DEF ViewsInit
<1>2. FreshInv /\ FeesInv
        /\ [ViewsNext]_<<part, vars, hookVars, candleVars, holderVars, walletVars, scanVars, saleVars>>
      => /\ FreshInv' /\ FeesInv'
         /\ [\A k \in Kinds : k = "sol" /\ served[k] # None => served'[k] # None]_vars
         /\ [faults' = Faults => shownFees' >= shownFees]_vars
  <2> SUFFICES ASSUME FreshInv, FeesInv, ViewsNext \/ UNCHANGED vars
               PROVE  /\ FreshInv' /\ FeesInv'
                      /\ served["sol"] # None => served'["sol"] # None
                      /\ faults' = Faults => shownFees' >= shownFees
    OBVIOUS
  <2>1. CASE UNCHANGED vars
    <3>1. FreshInv' /\ served' = served
      BY <2>1 DEF vars, FreshInv, ViewsAreRecent, EntriesAreRecent
    <3> QED
      BY <2>1, <3>1, FeesKept
  <2>2. ASSUME NEW p \in DOMAIN Read_by, CacheNext(Read_by[p])
        PROVE  /\ FreshInv' /\ FeesInv'
               /\ served["sol"] # None => served'["sol"] # None
               /\ faults' = Faults => shownFees' >= shownFees
    <3>1. FreshInv' /\ (served["sol"] # None => served'["sol"] # None)
      BY <2>2, PartsRead, CacheSteps
    <3>2. \E kinds : CacheNext(kinds)
      BY <2>2
    <3> QED
      BY <3>1, <3>2, FeesKept
  <2>3. CASE Accrue \/ ShowFees
    <3>1. UNCHANGED <<cache, reader, served>>
      BY <2>3 DEF Accrue, ShowFees
    <3>2. FreshInv'
      BY <3>1 DEF FreshInv, ViewsAreRecent, EntriesAreRecent
    <3> QED
      BY <2>3, <3>1, <3>2, FeesKept
  <2> QED
    BY <2>1, <2>2, <2>3, CachePart
<1>3. FreshInv => ViewsAreRecent /\ EntriesAreRecent
  BY DEF FreshInv
<1> QED
  BY <1>1, <1>2, <1>3, PTL DEF ViewsSpec, CachesAreFresh, RateIsKept, FeesOnlyGoUp

-----------------------------------------------------------------------------
(* Holders of a token.                                                     *)

LEMMA SameHolder ==
  /\ \A S : Holder!Cardinality(S) = Cardinality(S)
  /\ \A S : Holder!Max(S) = Max(S)
  /\ \A f, S : Holder!SumFunctionOnSet(f, S) = SumFunctionOnSet(f, S)
  BY DEF Holder!Cardinality, Cardinality, Holder!Max, Max,
         Holder!SumFunctionOnSet, Holder!FoldFunctionOnSet, Holder!MapThenFoldSet,
         SumFunctionOnSet, FoldFunctionOnSet, MapThenFoldSet

(* The largest of a finite set of numbers.                                 *)
LEMMA MaxOf ==
  ASSUME NEW S, IsFiniteSet(S), Numbers(S), S # {}
  PROVE  Max(S) \in S /\ \A x \in S : x <= Max(S)
<1>1. Cardinality(S) \in Nat /\ Cardinality(S) # 0
  BY FS_CardinalityType, FS_EmptySet
<1>2. Cardinality(S) \in 1..Cardinality(S)
  BY <1>1
<1>3. PICK i \in S : Rank(S, i) = Cardinality(S)
  BY <1>2, NumbersRanked
<1>4. UpTo(S, i) = S
  BY <1>3, FS_Subset DEF Rank, UpTo
<1>5. \A x \in S : x <= i
  BY <1>4 DEF UpTo
<1>6. \A x \in S : x \in Int
  BY DEF Numbers
<1>7. \E x \in S : \A y \in S : x >= y
  BY <1>5, <1>6
<1>8. Max(S) \in S /\ \A y \in S : Max(S) >= y
  BY <1>7 DEF Max
<1> QED
  BY <1>6, <1>8

Amounts(f) == [a \in Holder!Accounts |-> Holder!Larger(f[a], 0)]
Before(o, c) == {a \in Holder!Of(o) : a <= c}

(* What is shown of a wallet is at most what the accounts read so far      *)
(* held; while nothing moved or failed it is just that, and the pages read *)
(* were full or the last ones.                                             *)
HolderTypes ==
  /\ owner \in [Holder!Accounts -> Holder!Owners]
  /\ amount \in [Holder!Accounts -> Int] /\ held \in [Holder!Accounts -> Int]
  /\ balances \in [Holder!Owners -> Nat]
  /\ page \in Nat /\ cursor \in 0..MaxAccount
  /\ pageFaults \in Nat /\ pageFaults <= Faults

HolderInv ==
  /\ HolderTypes
  /\ \A a \in Holder!Accounts : amount[a] <= held[a]
  /\ \A o \in Holder!Owners :
       balances[o] <= IF o \in Wallets THEN Holder!Sum(held, Before(o, cursor)) ELSE 0
  /\ quiet /\ pageFaults = Faults =>
       \A o \in Wallets : balances[o] = Holder!Sum(amount, Before(o, cursor))
  /\ pc = "read" /\ quiet => page * PageSize <= cursor \/ Holder!Listed(cursor) = {}
  /\ pc = "sent" /\ quiet /\ pageFaults = Faults => Holder!Listed(cursor) = {}

LEMMA SumIs == \A f, S : Holder!Sum(f, S) = SumOn(Amounts(f), S)
  BY SameHolder, SumOnIs DEF Holder!Sum, Amounts

LEMMA AccountsFinite ==
  /\ \A S : S \subseteq Holder!Accounts => IsFiniteSet(S)
  /\ \A o, c : Before(o, c) \subseteq Holder!Accounts /\ Holder!Of(o) \subseteq Holder!Accounts
<1>1. IsFiniteSet(Holder!Accounts)
  BY PagesAssumption, FS_Interval DEF Holder!Accounts
<1> QED
  BY <1>1, FS_Subset DEF Before, Holder!Of

LEMMA AmountsAre ==
  ASSUME NEW f \in [Holder!Accounts -> Int]
  PROVE  \A a \in Holder!Accounts : /\ Amounts(f)[a] \in Nat /\ f[a] <= Amounts(f)[a]
                                    /\ Amounts(f)[a] = IF f[a] > 0 THEN f[a] ELSE 0
  BY DEF Amounts, Holder!Larger

(* The sums of amounts, with the facts about SumOn.                        *)
LEMMA AmountsAdd ==
  ASSUME NEW f \in [Holder!Accounts -> Int],
         NEW A, NEW B, A \subseteq Holder!Accounts, B \subseteq Holder!Accounts, A \cap B = {}
  PROVE  /\ Holder!Sum(f, A) \in Nat
         /\ Holder!Sum(f, A \cup B) = Holder!Sum(f, A) + Holder!Sum(f, B)
<1>1. IsFiniteSet(A) /\ IsFiniteSet(B)
  BY AccountsFinite
<1>2. \A x \in A \cup B : Amounts(f)[x] \in Nat
  BY AmountsAre
<1>3. SumOn(Amounts(f), A \cup B) = SumOn(Amounts(f), A) + SumOn(Amounts(f), B)
  BY <1>1, <1>2, SumUnion
<1>4. SumOn(Amounts(f), A) \in Nat
  BY <1>1, <1>2, SumNat
<1> QED
  BY <1>3, <1>4, SumIs

LEMMA AmountsGrow ==
  ASSUME NEW f \in [Holder!Accounts -> Int], NEW g \in [Holder!Accounts -> Int],
         NEW S, S \subseteq Holder!Accounts, \A a \in S : f[a] <= g[a]
  PROVE  Holder!Sum(f, S) <= Holder!Sum(g, S)
<1>1. IsFiniteSet(S)
  BY AccountsFinite
<1>2. \A a \in S : /\ Amounts(f)[a] \in Nat /\ Amounts(g)[a] \in Nat
                   /\ Amounts(f)[a] <= Amounts(g)[a]
  <2> SUFFICES ASSUME NEW a \in S
               PROVE  /\ Amounts(f)[a] \in Nat /\ Amounts(g)[a] \in Nat
                      /\ Amounts(f)[a] <= Amounts(g)[a]
    OBVIOUS
  <2>1. a \in Holder!Accounts /\ f[a] \in Int /\ g[a] \in Int /\ f[a] <= g[a]
    OBVIOUS
  <2>2. /\ Amounts(f)[a] = IF f[a] > 0 THEN f[a] ELSE 0
        /\ Amounts(g)[a] = IF g[a] > 0 THEN g[a] ELSE 0
    BY <2>1, AmountsAre
  <2> QED
    BY <2>1, <2>2
<1>3. SumOn(Amounts(f), S) <= SumOn(Amounts(g), S)
  BY <1>1, <1>2, SumMono
<1> QED
  BY <1>3, SumIs

LEMMA NoAmounts ==
  ASSUME NEW f \in [Holder!Accounts -> Int], NEW S, S \subseteq Holder!Accounts,
         \A a \in S : f[a] <= 0
  PROVE  Holder!Sum(f, S) = 0
<1>1. IsFiniteSet(S)
  BY AccountsFinite
<1>2. \A a \in S : Amounts(f)[a] = 0
  <2> SUFFICES ASSUME NEW a \in S PROVE Amounts(f)[a] = 0
    OBVIOUS
  <2>1. a \in Holder!Accounts /\ f[a] \in Int /\ f[a] <= 0
    OBVIOUS
  <2> QED
    BY <2>1, AmountsAre
<1>3. SumOn(Amounts(f), S) = 0
  BY <1>1, <1>2, SumZero
<1> QED
  BY <1>3, SumIs

(* What a page holds: the accounts open between the cursor and its last    *)
(* one. It is full, or there are no more.                                  *)
LEMMA PageIs ==
  ASSUME HolderTypes, NEW p, p = Holder!PageOf(cursor)
  PROVE  /\ p \subseteq Holder!Listed(cursor)
         /\ p = {} => Holder!Listed(cursor) = {}
         /\ p # {} =>
              /\ Max(p) \in p
              /\ p = {a \in Holder!Listed(cursor) : a <= Max(p)}
              /\ cursor + PageSize <= Max(p) \/ Holder!Listed(Max(p)) = {}
<1>1. PICK L : L = Holder!Listed(cursor)
  OBVIOUS
<1>2. /\ L \subseteq Holder!Accounts /\ IsFiniteSet(L) /\ Numbers(L)
      /\ \A a \in L : a \in Int /\ a > cursor /\ amount[a] >= 0
  <2>1. L \subseteq Holder!Accounts
    BY <1>1 DEF Holder!Listed
  <2>2. IsFiniteSet(L)
    BY <2>1, AccountsFinite
  <2> QED
    BY <1>1, <2>1, <2>2, PagesAssumption
       DEF Holder!Listed, Holder!after, Holder!Accounts, Numbers
<1>3. p = {a \in L : Rank(L, a) <= PageSize}
  BY <1>1, SameHolder DEF Holder!PageOf, Rank, UpTo
<1>4. /\ Cardinality(L) \in Nat
      /\ \A i \in L : Rank(L, i) \in 1..Cardinality(L)
      /\ \A i, j \in L : i <= j => Rank(L, i) <= Rank(L, j)
      /\ \A n \in 1..Cardinality(L) : \E i \in L : Rank(L, i) = n
  BY <1>2, NumbersRanked
<1>5. PageSize \in Nat /\ PageSize >= 1
  BY PagesAssumption
<1>6. p = {} => L = {}
  <2>1. SUFFICES ASSUME p = {}, L # {} PROVE FALSE
    OBVIOUS
  <2>2. Cardinality(L) # 0
    BY <1>2, <2>1, FS_EmptySet
  <2>3. PICK i \in L : Rank(L, i) = 1
    BY <1>4, <2>2
  <2> QED
    BY <1>3, <1>5, <2>1, <2>3
<1>7. ASSUME p # {}
      PROVE  /\ Max(p) \in p
             /\ p = {a \in L : a <= Max(p)}
             /\ cursor + PageSize <= Max(p) \/ Holder!Listed(Max(p)) = {}
  <2>1. p \subseteq L /\ IsFiniteSet(p) /\ Numbers(p)
    BY <1>2, <1>3, FS_Subset DEF Numbers
  <2>2. Max(p) \in p /\ \A x \in p : x <= Max(p)
    BY <1>7, <2>1, MaxOf
  <2>3. PICK m : m = Max(p)
    OBVIOUS
  <2>4. m \in p /\ m \in L /\ m \in Int /\ m > cursor /\ m \in Holder!Accounts
    BY <1>2, <2>1, <2>2, <2>3
  <2>5. ASSUME NEW a \in L, a <= m PROVE a \in p
    <3>1. Rank(L, a) <= Rank(L, m) /\ Rank(L, m) <= PageSize
      BY <1>3, <1>4, <2>4, <2>5
    <3>2. Rank(L, a) \in Nat /\ Rank(L, m) \in Nat
      BY <1>4, <2>4
    <3> QED
      BY <1>3, <1>5, <3>1, <3>2
  <2>6. p = {a \in L : a <= m}
    BY <2>1, <2>2, <2>3, <2>5
  <2>7. ASSUME NEW b \in Holder!Listed(m)
        PROVE  cursor + PageSize <= m
    <3>1. b \in L /\ b > m
      BY <1>1, <2>4, PagesAssumption DEF Holder!Listed, Holder!after, Holder!Accounts, HolderTypes
    <3>2. b \notin p
      BY <1>2, <2>4, <2>6, <3>1
    <3>3. Rank(L, b) > PageSize
      BY <1>3, <1>4, <1>5, <3>1, <3>2
    <3>4. PageSize <= Cardinality(L)
      BY <1>4, <1>5, <3>1, <3>3
    <3>5. Cardinality({i \in L : Rank(L, i) \in 0 + 1 .. PageSize}) = PageSize - 0
      <4>1. 0 \in Nat /\ PageSize \in Nat /\ 0 <= PageSize
        BY <1>5
      <4> QED
        BY <1>2, <3>4, <4>1, NumbersBetween
    <3>6. p = {i \in L : Rank(L, i) \in 0 + 1 .. PageSize}
      BY <1>3, <1>4, <1>5
    <3>7. Cardinality(p) = PageSize
      BY <1>5, <3>5, <3>6
    <3>8. cursor \in Int /\ cursor + 1 \in Int /\ m \in Int
      BY <2>4, PagesAssumption DEF HolderTypes
    <3>9. p \subseteq cursor + 1 .. m
      <4> SUFFICES ASSUME NEW a \in p PROVE a \in cursor + 1 .. m
        OBVIOUS
      <4>1. a \in L /\ a <= m
        BY <2>6
      <4>2. a \in Int /\ a > cursor
        BY <1>2, <4>1
      <4> QED
        BY <3>8, <4>1, <4>2
    <3>10. /\ IsFiniteSet(cursor + 1 .. m)
           /\ Cardinality(cursor + 1 .. m) = IF cursor + 1 > m THEN 0 ELSE m - (cursor + 1) + 1
      BY <3>8, FS_Interval
    <3>11. Cardinality(p) <= Cardinality(cursor + 1 .. m)
      BY <3>9, <3>10, FS_Subset
    <3> QED
      BY <1>5, <2>4, <3>7, <3>8, <3>10, <3>11
  <2>8. cursor + PageSize <= m \/ Holder!Listed(m) = {}
    BY <2>7
  <2> QED
    BY <2>3, <2>4, <2>6, <2>8
<1> QED
  BY <1>1, <1>3, <1>6, <1>7

(* The accounts up to the end of a page are those up to its beginning,     *)
(* those on the page, and closed ones.                                     *)
LEMMA PageAdds ==
  ASSUME HolderTypes, NEW p, p = Holder!PageOf(cursor), p # {},
         NEW o \in Holder!Owners, NEW f \in [Holder!Accounts -> Int]
  PROVE  /\ (\A a \in p : amount[a] <= f[a])
            => /\ Holder!Sum(f, Before(o, Max(p))) \in Nat
               /\ Holder!Sum(f, Before(o, cursor)) + Holder!Sum(amount, p \cap Holder!Of(o))
                    <= Holder!Sum(f, Before(o, Max(p)))
         /\ f = amount
            => Holder!Sum(f, Before(o, cursor)) + Holder!Sum(amount, p \cap Holder!Of(o))
                 = Holder!Sum(f, Before(o, Max(p)))
<1> DEFINE B == Before(o, cursor)
           P == p \cap Holder!Of(o)
           E == Before(o, Max(p))
           C == E \ (B \cup P)
<1>0. amount \in [Holder!Accounts -> Int]
  BY DEF HolderTypes
<1>1. PICK m : m = Max(p)
  OBVIOUS
<1>2. /\ m \in p /\ p = {a \in Holder!Listed(cursor) : a <= m}
      /\ p \subseteq Holder!Listed(cursor)
  BY <1>1, PageIs
<1>3. m \in Int /\ cursor \in Int /\ m > cursor
  BY <1>2, PagesAssumption DEF Holder!Listed, Holder!after, Holder!Accounts, HolderTypes
<1>4. /\ B \subseteq Holder!Accounts /\ P \subseteq Holder!Accounts /\ E \subseteq Holder!Accounts
      /\ C \subseteq Holder!Accounts /\ B \cup P \subseteq Holder!Accounts
  BY AccountsFinite
<1>5. B \subseteq E
  BY <1>1, <1>3 DEF Before, Holder!Of, Holder!Accounts
<1>6. P \subseteq E /\ B \cap P = {}
  <2> SUFFICES ASSUME NEW a \in P PROVE a \in E /\ a \notin B
    OBVIOUS
  <2>1. a \in Holder!Of(o) /\ a <= m /\ a > cursor /\ a \in Int
    BY <1>2 DEF Holder!Listed, Holder!after, Holder!Accounts
  <2> QED
    BY <1>1, <1>3, <2>1 DEF Before
<1>7. \A a \in C : amount[a] <= 0
  <2> SUFFICES ASSUME NEW a \in C, amount[a] > 0 PROVE FALSE
    BY <1>0, <1>4
  <2>1. a \in Holder!Of(o) /\ a \in Holder!Accounts /\ a <= m /\ a \in Int /\ ~ (a <= cursor) /\ a \notin p
    BY <1>1 DEF Before, Holder!Of, Holder!Accounts
  <2>2. a > cursor /\ amount[a] >= 0
    BY <1>0, <1>3, <2>1
  <2> QED
    BY <1>2, <2>1, <2>2 DEF Holder!Listed, Holder!after
<1>8. E = (B \cup P) \cup C /\ (B \cup P) \cap C = {}
  BY <1>5, <1>6
<1> HIDE DEF B, P, E, C
<1>9. Holder!Sum(f, B \cup P) = Holder!Sum(f, B) + Holder!Sum(f, P)
  BY <1>4, <1>6, AmountsAdd
<1>10. Holder!Sum(f, (B \cup P) \cup C) = Holder!Sum(f, B \cup P) + Holder!Sum(f, C)
  BY <1>4, <1>8, AmountsAdd
<1>11. /\ Holder!Sum(f, B) \in Nat /\ Holder!Sum(f, P) \in Nat /\ Holder!Sum(f, C) \in Nat
       /\ Holder!Sum(amount, P) \in Nat /\ Holder!Sum(f, E) \in Nat
  <2>1. \A A : A \subseteq Holder!Accounts => Holder!Sum(f, A) \in Nat /\ Holder!Sum(amount, A) \in Nat
    <3> SUFFICES ASSUME NEW A, A \subseteq Holder!Accounts
                 PROVE  Holder!Sum(f, A) \in Nat /\ Holder!Sum(amount, A) \in Nat
      OBVIOUS
    <3>1. {} \subseteq Holder!Accounts /\ A \cap {} = {}
      OBVIOUS
    <3> QED
      BY <1>0, <3>1, AmountsAdd
  <2> QED
    BY <1>4, <2>1
<1>12. Holder!Sum(f, E) = Holder!Sum(f, B) + Holder!Sum(f, P) + Holder!Sum(f, C)
  BY <1>8, <1>9, <1>10
<1>13. ASSUME \A a \in p : amount[a] <= f[a]
       PROVE  Holder!Sum(amount, P) <= Holder!Sum(f, P)
  <2>1. \A a \in P : amount[a] <= f[a]
    BY <1>13 DEF P
  <2> QED
    BY <1>0, <1>4, <2>1, AmountsGrow
<1>14. ASSUME f = amount
       PROVE  Holder!Sum(f, C) = 0 /\ Holder!Sum(amount, P) = Holder!Sum(f, P)
  <2>1. \A a \in C : f[a] <= 0
    BY <1>7, <1>14
  <2> QED
    BY <1>4, <1>14, <2>1, NoAmounts
<1> QED
  <2>1. ASSUME \A a \in p : amount[a] <= f[a]
        PROVE  Holder!Sum(f, B) + Holder!Sum(amount, P) <= Holder!Sum(f, E)
    BY <1>11, <1>12, <1>13, <2>1
  <2>2. ASSUME f = amount
        PROVE  Holder!Sum(f, B) + Holder!Sum(amount, P) = Holder!Sum(f, E)
    BY <1>11, <1>12, <1>14, <2>2
  <2> QED
    BY <1>11, <2>1, <2>2 DEF B, P, E

LEMMA AmountsNat ==
  ASSUME NEW f \in [Holder!Accounts -> Int], NEW S, S \subseteq Holder!Accounts
  PROVE  Holder!Sum(f, S) \in Nat
<1>1. {} \subseteq Holder!Accounts /\ S \cap {} = {}
  OBVIOUS
<1> QED
  BY <1>1, AmountsAdd

LEMMA NobodyBefore ==
  ASSUME NEW f \in [Holder!Accounts -> Int], NEW o
  PROVE  Holder!Sum(f, Before(o, 0)) = 0
<1>1. Before(o, 0) = {}
  BY DEF Before, Holder!Of, Holder!Accounts
<1>2. PICK S : S = Before(o, 0)
  OBVIOUS
<1>3. S \subseteq Holder!Accounts /\ \A a \in S : f[a] <= 0
  BY <1>1, <1>2
<1>4. Holder!Sum(f, S) = 0
  BY <1>3, NoAmounts
<1> QED
  BY <1>2, <1>4

LEMMA HolderStarts == Holder!Init => HolderInv
<1> SUFFICES ASSUME Holder!Init PROVE HolderInv
  OBVIOUS
<1>1. /\ owner \in [Holder!Accounts -> Holder!Owners] /\ amount \in [Holder!Accounts -> Int]
      /\ held = amount /\ page = 0 /\ cursor = 0 /\ balances = [o \in Holder!Owners |-> 0]
      /\ pc = "idle" /\ pageFaults = Faults
  BY PagesAssumption DEF Holder!Init, Holder!Nobody
<1>2. HolderTypes
  BY <1>1, PagesAssumption, CachesAssumption DEF HolderTypes
<1>3. \A o \in Holder!Owners : Holder!Sum(amount, Before(o, 0)) = 0
  BY <1>1, NobodyBefore
<1> QED
  BY <1>1, <1>2, <1>3 DEF HolderInv, HolderTypes, Holder!Owners

(* The chain moves: what an account held only grows.                       *)
LEMMA HoldersMove ==
  ASSUME HolderInv, NEW a \in [Holder!Accounts -> Int], Holder!Becomes(a)
  PROVE  HolderInv'
<1>1. /\ amount' = a /\ held' = [k \in Holder!Accounts |-> Holder!Larger(held[k], a[k])]
      /\ quiet' = FALSE /\ UNCHANGED <<owner, page, cursor, balances, pc, pageFaults>>
  BY DEF Holder!Becomes, Holder!reader
<1>2. /\ HolderTypes
      /\ \A o \in Holder!Owners :
           balances[o] <= IF o \in Wallets THEN Holder!Sum(held, Before(o, cursor)) ELSE 0
  BY DEF HolderInv
<1>3. held' \in [Holder!Accounts -> Int] /\ held \in [Holder!Accounts -> Int]
  BY <1>1, <1>2 DEF HolderTypes, Holder!Larger
<1>4. \A k \in Holder!Accounts : held[k] <= held'[k] /\ a[k] <= held'[k]
  BY <1>1, <1>2 DEF HolderTypes, Holder!Larger
<1>5. HolderTypes'
  BY <1>1, <1>2, <1>3 DEF HolderTypes, Holder!Accounts, Holder!Owners
<1>6. \A o : Before(o, cursor)' = Before(o, cursor)
  BY <1>1 DEF Before, Holder!Of
<1>7. ASSUME NEW o \in Holder!Owners
      PROVE  balances[o] <= IF o \in Wallets THEN Holder!Sum(held', Before(o, cursor)) ELSE 0
  <2>1. PICK S : S = Before(o, cursor)
    OBVIOUS
  <2>2. S \subseteq Holder!Accounts
    BY <2>1, AccountsFinite
  <2>3. PICK g : g = held'
    OBVIOUS
  <2>4. g \in [Holder!Accounts -> Int] /\ \A k \in S : held[k] <= g[k]
    BY <1>3, <1>4, <2>2, <2>3
  <2>5. Holder!Sum(held, S) <= Holder!Sum(g, S)
    BY <1>3, <2>2, <2>4, AmountsGrow
  <2>6. Holder!Sum(held, S) \in Nat /\ Holder!Sum(g, S) \in Nat
    BY <1>3, <2>2, <2>4, AmountsNat
  <2>7. balances[o] \in Nat
    BY <1>2 DEF HolderTypes
  <2> QED
    BY <1>2, <2>1, <2>3, <2>5, <2>6, <2>7
<1> QED
  BY <1>1, <1>4, <1>5, <1>6, <1>7 DEF HolderInv, Holder!Sum

LEMMA HoldersAsked == HolderInv /\ Holder!Ask => HolderInv'
<1> SUFFICES ASSUME HolderInv, Holder!Ask PROVE HolderInv'
  OBVIOUS
<1>1. /\ page' = 0 /\ cursor' = 0 /\ balances' = [o \in Holder!Owners |-> 0] /\ pc' = "read"
      /\ held' = amount /\ UNCHANGED <<owner, amount, pageFaults>>
  BY DEF Holder!Ask, Holder!Nobody
<1>2. HolderTypes /\ amount \in [Holder!Accounts -> Int]
  BY DEF HolderInv, HolderTypes
<1>3. HolderTypes'
  BY <1>1, <1>2, PagesAssumption DEF HolderTypes, Holder!Accounts, Holder!Owners
<1>4. \A o \in Holder!Owners : Holder!Sum(amount, Before(o, 0)) = 0
  BY <1>2, NobodyBefore
<1>5. \A o : Before(o, 0)' = Before(o, 0)
  BY <1>1 DEF Before, Holder!Of
<1>6. 0 * PageSize <= 0
  BY PagesAssumption
<1> QED
  BY <1>1, <1>2, <1>3, <1>4, <1>5, <1>6 DEF HolderInv, HolderTypes, Holder!Owners, Holder!Sum, Holder!Accounts

LEMMA HoldersFail == HolderInv /\ Holder!PageFails => HolderInv'
<1> SUFFICES ASSUME HolderInv, Holder!PageFails PROVE HolderInv'
  OBVIOUS
<1>1. /\ UNCHANGED <<owner, amount, page, cursor, balances, held, quiet>>
      /\ pageFaults > 0 /\ pageFaults' = pageFaults - 1 /\ pc' # "read"
  BY DEF Holder!PageFails
<1>2. HolderTypes
  BY DEF HolderInv
<1>3. HolderTypes' /\ pageFaults' # Faults
  BY <1>1, <1>2, CachesAssumption DEF HolderTypes, Holder!Accounts, Holder!Owners
<1>4. \A o : Before(o, cursor)' = Before(o, cursor)
  BY <1>1 DEF Before, Holder!Of
<1>5. \A o \in Holder!Owners :
        balances[o] <= IF o \in Wallets THEN Holder!Sum(held, Before(o, cursor)) ELSE 0
  BY DEF HolderInv
<1>6. \A a \in Holder!Accounts : amount[a] <= held[a]
  BY DEF HolderInv
<1> QED
  BY <1>1, <1>3, <1>4, <1>5, <1>6 DEF HolderInv, Holder!Sum, Holder!Owners, Holder!Accounts

(* A page is read: its accounts are added, and the last page is known.     *)
LEMMA HoldersRead == HolderInv /\ Holder!ReadPage => HolderInv'
<1> SUFFICES ASSUME HolderInv, Holder!ReadPage PROVE HolderInv'
  OBVIOUS
<1>1. PICK p : p = Holder!PageOf(cursor)
  OBVIOUS
<1>2. /\ pc = "read" /\ page' = page + 1
      /\ balances' = Holder!sum(balances, p)
      /\ cursor' = IF p = {} THEN cursor ELSE Max(p)
      /\ \/ p # {} /\ page' < PageCap /\ pc' = "read"
         \/ /\ p = {} \/ page' = PageCap \/ Holder!Listed(cursor') \subseteq {cursor'}
            /\ pc' = "sent"
      /\ UNCHANGED <<owner, amount, held, quiet, pageFaults>>
  BY <1>1, SameHolder DEF Holder!ReadPage
<1>3. /\ HolderTypes /\ \A a \in Holder!Accounts : amount[a] <= held[a]
      /\ amount \in [Holder!Accounts -> Int] /\ held \in [Holder!Accounts -> Int]
      /\ balances \in [Holder!Owners -> Nat] /\ page \in Nat
      /\ cursor \in Int /\ cursor >= 0 /\ cursor <= MaxAccount
  BY PagesAssumption DEF HolderInv, HolderTypes
<1>4. PICK c : c = cursor'
  OBVIOUS
<1>5. c \in Int /\ c >= 0 /\ c <= MaxAccount
  <2>1. CASE p = {}
    BY <1>2, <1>3, <1>4, <2>1
  <2>2. CASE p # {}
    BY <1>1, <1>2, <1>3, <1>4, <2>2, PageIs, PagesAssumption DEF Holder!Listed, Holder!Accounts
  <2> QED
    BY <2>1, <2>2
<1>6. /\ p = {} => Holder!Listed(cursor) = {}
      /\ p # {} => cursor + PageSize <= c \/ Holder!Listed(c) = {}
      /\ p \subseteq Holder!Accounts
  BY <1>1, <1>2, <1>3, <1>4, PageIs DEF Holder!Listed
<1>7. ASSUME NEW o \in Holder!Owners
      PROVE  /\ Holder!Sum(amount, p \cap Holder!Of(o)) \in Nat
             /\ Holder!Sum(held, Before(o, cursor)) \in Nat /\ Holder!Sum(held, Before(o, c)) \in Nat
             /\ Holder!Sum(held, Before(o, cursor)) + Holder!Sum(amount, p \cap Holder!Of(o))
                  <= Holder!Sum(held, Before(o, c))
             /\ Holder!Sum(amount, Before(o, cursor)) + Holder!Sum(amount, p \cap Holder!Of(o))
                  = Holder!Sum(amount, Before(o, c))
  <2>1. /\ Holder!Sum(held, Before(o, cursor)) \in Nat /\ Holder!Sum(held, Before(o, c)) \in Nat
        /\ Holder!Sum(amount, Before(o, cursor)) \in Nat
    BY <1>3, AccountsFinite, AmountsNat
  <2>2. PICK P : P = p \cap Holder!Of(o)
    OBVIOUS
  <2>3. P \subseteq Holder!Accounts
    BY <1>6, <2>2
  <2>4. Holder!Sum(amount, P) \in Nat
    BY <1>3, <2>3, AmountsNat
  <2>5. CASE p = {}
    <3>1. c = cursor /\ \A a \in P : amount[a] <= 0
      BY <1>2, <1>4, <2>2, <2>5
    <3>2. Holder!Sum(amount, P) = 0
      BY <1>3, <2>3, <3>1, NoAmounts
    <3> QED
      BY <2>1, <2>2, <3>1, <3>2
  <2>6. CASE p # {}
    <3>1. c = Max(p)
      BY <1>2, <1>4, <2>6
    <3>2. \A a \in p : amount[a] <= held[a]
      BY <1>3, <1>6
    <3>3. Holder!Sum(held, Before(o, cursor)) + Holder!Sum(amount, p \cap Holder!Of(o))
            <= Holder!Sum(held, Before(o, Max(p)))
      BY <1>1, <1>3, <2>6, <3>2, PageAdds
    <3>4. Holder!Sum(amount, Before(o, cursor)) + Holder!Sum(amount, p \cap Holder!Of(o))
            = Holder!Sum(amount, Before(o, Max(p)))
      BY <1>1, <1>3, <2>6, PageAdds
    <3> QED
      BY <2>1, <2>2, <2>4, <3>1, <3>3, <3>4
  <2> QED
    BY <2>5, <2>6
<1>8. \A o \in Holder!Owners :
        balances'[o] = IF o \in Wallets THEN balances[o] + Holder!Sum(amount, p \cap Holder!Of(o))
                                        ELSE balances[o]
  BY <1>2 DEF Holder!sum, Holder!added
<1>9. HolderTypes'
  <2>1. balances' \in [Holder!Owners -> Nat]
    <3>1. ASSUME NEW o \in Holder!Owners PROVE balances'[o] \in Nat
      <4>1. balances[o] \in Nat /\ Holder!Sum(amount, p \cap Holder!Of(o)) \in Nat
        BY <1>3, <1>7
      <4>2. PICK x : x = Holder!Sum(amount, p \cap Holder!Of(o))
        OBVIOUS
      <4>3. balances'[o] = IF o \in Wallets THEN balances[o] + x ELSE balances[o]
        BY <1>8, <4>2
      <4> QED
        BY <4>1, <4>2, <4>3
    <3>2. balances' = [o \in Holder!Owners |-> balances'[o]]
      BY <1>2 DEF Holder!sum
    <3> QED
      BY <3>1, <3>2
  <2>2. page' \in Nat /\ cursor' \in 0..MaxAccount
    BY <1>2, <1>3, <1>4, <1>5, PagesAssumption
  <2> QED
    BY <1>2, <1>3, <2>1, <2>2 DEF HolderTypes, Holder!Accounts, Holder!Owners
<1>10. \A o \in Holder!Owners :
         balances'[o] <= IF o \in Wallets THEN Holder!Sum(held, Before(o, c)) ELSE 0
  <2> SUFFICES ASSUME NEW o \in Holder!Owners
               PROVE  balances'[o] <= IF o \in Wallets THEN Holder!Sum(held, Before(o, c)) ELSE 0
    OBVIOUS
  <2>1. balances[o] <= (IF o \in Wallets THEN Holder!Sum(held, Before(o, cursor)) ELSE 0)
        /\ balances[o] \in Nat
    BY <1>3 DEF HolderInv
  <2>2. PICK x, y, z : /\ x = Holder!Sum(amount, p \cap Holder!Of(o))
                       /\ y = Holder!Sum(held, Before(o, cursor))
                       /\ z = Holder!Sum(held, Before(o, c))
    OBVIOUS
  <2>3. x \in Nat /\ y \in Nat /\ z \in Nat /\ y + x <= z
    BY <1>7, <2>2
  <2>4. balances'[o] = IF o \in Wallets THEN balances[o] + x ELSE balances[o]
    BY <1>8, <2>2
  <2> QED
    BY <2>1, <2>2, <2>3, <2>4
<1>11. ASSUME quiet, pageFaults = Faults
       PROVE  \A o \in Wallets : balances'[o] = Holder!Sum(amount, Before(o, c))
  <2> SUFFICES ASSUME NEW o \in Wallets
               PROVE  balances'[o] = Holder!Sum(amount, Before(o, c))
    OBVIOUS
  <2>1. o \in Holder!Owners
    BY DEF Holder!Owners
  <2>2. balances[o] = Holder!Sum(amount, Before(o, cursor))
    BY <1>11 DEF HolderInv
  <2> QED
    BY <1>7, <1>8, <2>1, <2>2
<1>12. \A k : Holder!Listed(k)' = Holder!Listed(k)
  BY <1>2 DEF Holder!Listed
<1>13. ASSUME quiet, p # {}
       PROVE  page' * PageSize <= c \/ Holder!Listed(c) = {}
  <2>1. page * PageSize <= cursor
    <3>1. Holder!Listed(cursor) # {}
      BY <1>1, <1>3, <1>13, PageIs
    <3> QED
      BY <1>2, <1>13, <3>1 DEF HolderInv
  <2>2. (page + 1) * PageSize = page * PageSize + PageSize
    BY <1>3, PagesAssumption
  <2>3. page * PageSize \in Int /\ PageSize \in Int
    BY <1>3, PagesAssumption
  <2> QED
    BY <1>2, <1>3, <1>5, <1>6, <1>13, <2>1, <2>2, <2>3
<1>14. ASSUME pc' = "sent", quiet
       PROVE  Holder!Listed(c) = {}
  <2>1. CASE p = {}
    BY <1>2, <1>4, <1>6, <2>1
  <2>2. CASE p # {} /\ page' = PageCap
    <3>1. c >= MaxAccount \/ Holder!Listed(c) = {}
      <4>1. PageCap * PageSize \in Int
        BY PagesAssumption
      <4> QED
        BY <1>5, <1>13, <1>14, <2>2, <4>1, PagesAssumption
    <3> QED
      BY <1>5, <3>1, PagesAssumption DEF Holder!Listed, Holder!after, Holder!Accounts
  <2>3. CASE Holder!Listed(c) \subseteq {c}
    BY <1>5, <2>3 DEF Holder!Listed, Holder!after
  <2> QED
    BY <1>2, <1>4, <1>12, <1>14, <2>1, <2>2, <2>3
<1>15. pc' = "read" => p # {}
  BY <1>2
<1>16. \A o : Before(o, cursor)' = Before(o, c)
  BY <1>2, <1>4 DEF Before, Holder!Of
<1> QED
  <2>1. \A a \in Holder!Accounts : amount'[a] <= held'[a]
    BY <1>2, <1>3
  <2>2. \A o \in Holder!Owners :
          balances'[o] <= IF o \in Wallets THEN Holder!Sum(held', Before(o, cursor)') ELSE 0
    BY <1>2, <1>10, <1>16
  <2>3. quiet' /\ pageFaults' = Faults =>
          \A o \in Wallets : balances'[o] = Holder!Sum(amount', Before(o, cursor)')
    BY <1>2, <1>11, <1>16
  <2>4. pc' = "read" /\ quiet' => page' * PageSize <= cursor' \/ Holder!Listed(cursor)' = {}
    BY <1>2, <1>4, <1>12, <1>13, <1>15 DEF Holder!Listed
  <2>5. pc' = "sent" /\ quiet' => Holder!Listed(cursor)' = {}
    BY <1>2, <1>4, <1>14 DEF Holder!Listed
  <2> QED
    BY <1>9, <2>1, <2>2, <2>3, <2>4, <2>5 DEF HolderInv, Holder!Owners, Holder!Accounts, Holder!Sum

LEMMA HolderSteps == HolderInv /\ [Holder!Next]_holderVars => HolderInv'
<1> SUFFICES ASSUME HolderInv, Holder!Next \/ UNCHANGED holderVars PROVE HolderInv'
  OBVIOUS
<1>0. amount \in [Holder!Accounts -> Int]
  BY DEF HolderInv, HolderTypes
<1>1. ASSUME NEW a \in Holder!Accounts, NEW b \in Holder!Accounts, Holder!Transfer(a, b)
      PROVE  HolderInv'
  <2>1. PICK x : x = [amount EXCEPT ![a] = @ - 1, ![b] = Holder!Larger(@, 0) + 1]
    OBVIOUS
  <2>2. x \in [Holder!Accounts -> Int] /\ Holder!Becomes(x)
    BY <1>0, <1>1, <2>1 DEF Holder!Transfer, Holder!Larger
  <2> QED
    BY <2>2, HoldersMove
<1>2. ASSUME NEW a \in Holder!Accounts, Holder!Close(a)
      PROVE  HolderInv'
  <2>1. PICK x : x = [amount EXCEPT ![a] = -1]
    OBVIOUS
  <2>2. x \in [Holder!Accounts -> Int] /\ Holder!Becomes(x)
    BY <1>0, <1>2, <2>1 DEF Holder!Close
  <2> QED
    BY <2>2, HoldersMove
<1>3. CASE UNCHANGED holderVars
  BY <1>3 DEF holderVars, HolderInv, HolderTypes, Before, Holder!Of, Holder!Listed, Holder!Sum,
              Holder!Accounts, Holder!Owners
<1> QED
  BY <1>1, <1>2, <1>3, HoldersAsked, HoldersRead, HoldersFail DEF Holder!Next

LEMMA HoldersTrue == HolderInv => Holder!ShownWasHeld /\ Holder!FullList
<1> SUFFICES ASSUME HolderInv PROVE Holder!ShownWasHeld /\ Holder!FullList
  OBVIOUS
<1>1. /\ amount \in [Holder!Accounts -> Int] /\ held \in [Holder!Accounts -> Int]
      /\ balances \in [Holder!Owners -> Nat] /\ cursor \in Int
  BY PagesAssumption DEF HolderInv, HolderTypes
<1>2. ASSUME NEW o, NEW f \in [Holder!Accounts -> Int]
      PROVE  \E C : /\ C \subseteq Holder!Accounts
                    /\ C = {a \in Holder!Of(o) : a > cursor}
                    /\ Holder!Sum(f, C) \in Nat /\ Holder!Sum(f, Before(o, cursor)) \in Nat
                    /\ Holder!Sum(f, Holder!Of(o)) = Holder!Sum(f, Before(o, cursor)) + Holder!Sum(f, C)
  <2>1. PICK A, B, C : /\ A = Holder!Of(o) /\ B = Before(o, cursor)
                       /\ C = {a \in Holder!Of(o) : a > cursor}
    OBVIOUS
  <2>2. A \subseteq Holder!Accounts /\ B \subseteq Holder!Accounts /\ C \subseteq Holder!Accounts
    BY <2>1, AccountsFinite
  <2>3. A = B \cup C /\ B \cap C = {}
    BY <1>1, <2>1, PagesAssumption DEF Before, Holder!Of, Holder!Accounts
  <2>4. Holder!Sum(f, B \cup C) = Holder!Sum(f, B) + Holder!Sum(f, C)
    BY <2>2, <2>3, AmountsAdd
  <2>5. Holder!Sum(f, B) \in Nat /\ Holder!Sum(f, C) \in Nat
    BY <2>2, AmountsNat
  <2> QED
    BY <2>1, <2>2, <2>3, <2>4, <2>5
<1>3. ASSUME NEW o \in Holder!Owners
      PROVE  balances[o] <= IF o \in Wallets THEN Holder!Sum(held, Holder!Of(o)) ELSE 0
  <2>1. balances[o] \in Nat
        /\ balances[o] <= IF o \in Wallets THEN Holder!Sum(held, Before(o, cursor)) ELSE 0
    BY <1>1 DEF HolderInv
  <2>2. PICK C : /\ Holder!Sum(held, C) \in Nat /\ Holder!Sum(held, Before(o, cursor)) \in Nat
                 /\ Holder!Sum(held, Holder!Of(o))
                      = Holder!Sum(held, Before(o, cursor)) + Holder!Sum(held, C)
    BY <1>1, <1>2
  <2> QED
    BY <2>1, <2>2
<1>4. ASSUME pc = "sent", quiet, pageFaults = Faults, NEW o \in Wallets
      PROVE  balances[o] = Holder!Sum(amount, Holder!Of(o))
  <2>1. balances[o] = Holder!Sum(amount, Before(o, cursor)) /\ Holder!Listed(cursor) = {}
    BY <1>4 DEF HolderInv
  <2>2. PICK C : /\ C \subseteq Holder!Accounts
                 /\ C = {a \in Holder!Of(o) : a > cursor}
                 /\ Holder!Sum(amount, C) \in Nat /\ Holder!Sum(amount, Before(o, cursor)) \in Nat
                 /\ Holder!Sum(amount, Holder!Of(o))
                      = Holder!Sum(amount, Before(o, cursor)) + Holder!Sum(amount, C)
    BY <1>1, <1>2
  <2>3. ASSUME NEW a \in C PROVE amount[a] <= 0
    <3>1. a \in Holder!Accounts /\ a > cursor /\ amount[a] \in Int
      BY <1>1, <2>2
    <3>2. ~ (amount[a] >= 0)
      BY <2>1, <3>1 DEF Holder!Listed, Holder!after
    <3> QED
      BY <3>1, <3>2
  <2>4. Holder!Sum(amount, C) = 0
    BY <1>1, <2>2, <2>3, NoAmounts
  <2> QED
    BY <2>1, <2>2, <2>4
<1> QED
  BY <1>3, <1>4 DEF Holder!ShownWasHeld, Holder!FullList

(* A one-to-one map onto a finite set keeps the number of elements.        *)
LEMMA SameSize ==
  ASSUME NEW X, NEW A, IsFiniteSet(A), NEW f \in [X -> A],
         \A x, y \in X : f[x] = f[y] => x = y,
         \A a \in A : \E x \in X : f[x] = a
  PROVE  IsFiniteSet(X) /\ Cardinality(X) = Cardinality(A)
<1>1. PICK g : g = [a \in A |-> CHOOSE x \in X : f[x] = a]
  OBVIOUS
<1>2. g \in [A -> X] /\ \A a \in A : f[g[a]] = a
  BY <1>1
<1>3. g \in Bijection(A, X)
  <2>1. \A a, b \in A : g[a] = g[b] => a = b
    BY <1>2
  <2>2. \A x \in X : \E a \in A : g[a] = x
    BY <1>2
  <2> QED
    BY <1>2, <2>1, <2>2 DEF Bijection, Injection, Surjection, IsInjective
<1> QED
  BY <1>3, FS_Bijection DEF ExistsBijection

-----------------------------------------------------------------------------
(* Collectibles of a wallet.                                               *)

(* Nothing but what the wallet had was read; while nothing moved or failed *)
(* each asset of the pages read was read once, and an answer goes out only *)
(* when there are no more.                                                 *)
Through(n) == (n - 1) * PageSize

WalletTypes ==
  /\ kind \in [Wallet!Assets -> Wallet!AssetKinds]
  /\ mine \subseteq Wallet!Assets /\ had \subseteq Wallet!Assets
  /\ dasPage \in Nat \ {0} /\ dasFaults \in Nat /\ dasFaults <= Faults

WalletInv ==
  /\ WalletTypes
  /\ mine \subseteq had /\ \A x \in assets : x[2] \in had
  /\ dasQuiet /\ dasFaults = Faults =>
       /\ \A x \in assets : x[2] \in mine /\ Rank(mine, x[2]) <= Through(dasPage)
       /\ \A x, y \in assets : x[2] = y[2] => x = y
       /\ \A a \in mine : Rank(mine, a) <= Through(dasPage) => \E x \in assets : x[2] = a
       /\ dasPc = "sent" => \A a \in mine : Rank(mine, a) <= Through(dasPage)

LEMMA SameWallet ==
  /\ \A S : Wallet!Cardinality(S) = Cardinality(S)
  /\ \A a : Wallet!rank(a) = Rank(mine, a)
<1>1. \A S : Wallet!Cardinality(S) = Cardinality(S)
  BY DEF Wallet!Cardinality, Cardinality
<1> QED
  BY <1>1 DEF Wallet!rank, Rank, UpTo

LEMMA MineRanked ==
  ASSUME WalletTypes
  PROVE  /\ IsFiniteSet(mine) /\ Numbers(mine)
         /\ Cardinality(mine) \in Nat /\ Cardinality(mine) <= MaxAsset
         /\ \A a \in mine : Rank(mine, a) \in 1..Cardinality(mine)
<1>1. MaxAsset \in Nat
  BY PagesAssumption
<1>2. IsFiniteSet(1..MaxAsset) /\ Cardinality(1..MaxAsset) = MaxAsset
  BY <1>1, FS_Interval
<1>3. mine \subseteq 1..MaxAsset
  BY DEF WalletTypes, Wallet!Assets
<1>4. IsFiniteSet(mine) /\ Cardinality(mine) <= MaxAsset
  BY <1>2, <1>3, FS_Subset
<1>5. Numbers(mine)
  BY <1>3 DEF Numbers
<1> QED
  BY <1>4, <1>5, NumbersRanked

(* A page is full when there are more assets than the pages so far hold.   *)
LEMMA FullPage ==
  ASSUME WalletTypes, NEW a \in mine, Rank(mine, a) > Through(dasPage + 1)
  PROVE  Cardinality(Wallet!PageOf(dasPage)) = PageSize
<1>1. PICK lo, hi : lo = Through(dasPage) /\ hi = Through(dasPage + 1)
  OBVIOUS
<1>2. lo \in Nat /\ hi \in Nat /\ hi = lo + PageSize /\ lo <= hi /\ hi = dasPage * PageSize
  <2>1. PICK n : n = dasPage - 1
    OBVIOUS
  <2>2. n \in Nat /\ dasPage = n + 1 /\ dasPage \in Nat /\ PageSize \in Nat
    BY <2>1, PagesAssumption DEF WalletTypes
  <2>3. n * PageSize \in Nat /\ (n + 1) * PageSize = n * PageSize + PageSize
    BY <2>2
  <2> QED
    BY <1>1, <2>1, <2>2, <2>3 DEF Through
<1>3. hi <= Cardinality(mine)
  BY <1>1, <1>2, MineRanked
<1>4. Cardinality({i \in mine : Rank(mine, i) \in lo + 1 .. hi}) = hi - lo
  BY <1>2, <1>3, MineRanked, NumbersBetween
<1>5. Wallet!PageOf(dasPage) = {i \in mine : Rank(mine, i) \in lo + 1 .. hi}
  BY <1>1, <1>2, SameWallet DEF Wallet!PageOf, Through
<1> QED
  BY <1>2, <1>4, <1>5, PagesAssumption

LEMMA WalletStarts == Wallet!Init => WalletInv
<1> SUFFICES ASSUME Wallet!Init PROVE WalletInv
  OBVIOUS
<1>1. WalletTypes /\ mine \subseteq had
  BY CachesAssumption DEF Wallet!Init, WalletTypes
<1>2. dasPage = 1 /\ assets = {} /\ dasPc = "idle"
  BY DEF Wallet!Init
<1>3. Through(1) = 0
  BY PagesAssumption DEF Through
<1>4. \A a \in mine : Rank(mine, a) \in Nat /\ Rank(mine, a) >= 1
  BY <1>1, MineRanked
<1> QED
  BY <1>1, <1>2, <1>3, <1>4 DEF WalletInv

LEMMA WalletMoves ==
  ASSUME WalletInv, NEW a \in Wallet!Assets, Wallet!Move(a)
  PROVE  WalletInv'
<1>1. /\ mine' = IF a \in mine THEN mine \ {a} ELSE mine \cup {a}
      /\ had' = had \cup mine' /\ dasQuiet' = FALSE
      /\ UNCHANGED <<kind, dasPage, assets, dasPc, dasFaults>>
  BY DEF Wallet!Move
<1>2. WalletTypes'
  BY <1>1 DEF WalletInv, WalletTypes, Wallet!Assets, Wallet!AssetKinds, Wallet!Nfts, Wallet!Graded
<1> QED
  BY <1>1, <1>2 DEF WalletInv

LEMMA WalletAsked == WalletInv /\ Wallet!Ask => WalletInv'
<1> SUFFICES ASSUME WalletInv, Wallet!Ask PROVE WalletInv'
  OBVIOUS
<1>1. /\ dasPage' = 1 /\ assets' = {} /\ dasPc' = "read" /\ had' = mine
      /\ UNCHANGED <<kind, mine, dasFaults>>
  BY DEF Wallet!Ask
<1>2. WalletTypes /\ WalletTypes'
  BY <1>1 DEF WalletInv, WalletTypes, Wallet!Assets, Wallet!AssetKinds, Wallet!Nfts, Wallet!Graded
<1>3. Through(1) = 0
  BY PagesAssumption DEF Through
<1>4. \A a \in mine : Rank(mine, a) \in Nat /\ Rank(mine, a) >= 1
  BY <1>2, MineRanked
<1>5. (\A a \in mine : Rank(mine, a) <= Through(dasPage) => \E x \in assets : x[2] = a)'
  BY <1>1, <1>3, <1>4
<1> QED
  BY <1>1, <1>2, <1>5 DEF WalletInv

LEMMA WalletRead == WalletInv /\ Wallet!ReadPage => WalletInv'
<1> SUFFICES ASSUME WalletInv, Wallet!ReadPage PROVE WalletInv'
  OBVIOUS
<1>1. PICK p : p = Wallet!PageOf(dasPage)
  OBVIOUS
<1>2. /\ assets' = assets \cup ({dasPage} \X p) /\ dasPage' = dasPage + 1
      /\ dasPc' = IF Wallet!full(p) /\ dasPage < PageCap THEN "read" ELSE "sent"
      /\ UNCHANGED <<kind, mine, had, dasQuiet, dasFaults>>
  BY <1>1 DEF Wallet!ReadPage, Wallet!Arrives
<1>3. WalletTypes /\ mine \subseteq had /\ \A x \in assets : x[2] \in had
  BY DEF WalletInv
<1>4. WalletTypes'
  BY <1>2, <1>3 DEF WalletTypes, Wallet!Assets, Wallet!AssetKinds, Wallet!Nfts, Wallet!Graded
<1>5. PICK lo, hi : lo = Through(dasPage) /\ hi = Through(dasPage + 1)
  OBVIOUS
<1>6. lo \in Nat /\ hi \in Nat /\ hi = lo + PageSize /\ lo <= hi /\ hi = dasPage * PageSize
  <2>1. PICK n : n = dasPage - 1
    OBVIOUS
  <2>2. n \in Nat /\ dasPage = n + 1 /\ dasPage \in Nat /\ PageSize \in Nat
    BY <1>3, <2>1, PagesAssumption DEF WalletTypes
  <2>3. n * PageSize \in Nat /\ (n + 1) * PageSize = n * PageSize + PageSize
    BY <2>2
  <2> QED
    BY <1>5, <2>1, <2>2, <2>3 DEF Through
<1>7. /\ p \subseteq mine
      /\ \A a \in mine : a \in p <=> Rank(mine, a) \in lo + 1 .. hi
  BY <1>1, <1>5, <1>6, SameWallet DEF Wallet!PageOf, Through
<1>8. \A a \in mine : Rank(mine, a) \in Nat
  BY <1>3, MineRanked
<1>9. \A x \in assets' : x \in assets \/ (x[1] = dasPage /\ x[2] \in p /\ x = <<x[1], x[2]>>)
  BY <1>2
<1>10. (mine \subseteq had /\ \A x \in assets : x[2] \in had)'
  BY <1>2, <1>3, <1>7, <1>9
<1>11. ASSUME dasQuiet, dasFaults = Faults
       PROVE  /\ \A x \in assets' : x[2] \in mine /\ Rank(mine, x[2]) <= hi
              /\ \A x, y \in assets' : x[2] = y[2] => x = y
              /\ \A a \in mine : Rank(mine, a) <= hi => \E x \in assets' : x[2] = a
              /\ dasPc' = "sent" => \A a \in mine : Rank(mine, a) <= hi
  <2>1. /\ \A x \in assets : x[2] \in mine /\ Rank(mine, x[2]) <= lo
        /\ \A x, y \in assets : x[2] = y[2] => x = y
        /\ \A a \in mine : Rank(mine, a) <= lo => \E x \in assets : x[2] = a
    BY <1>5, <1>11 DEF WalletInv
  <2>2. \A x \in assets' : x[2] \in mine /\ Rank(mine, x[2]) <= hi
    BY <1>6, <1>7, <1>8, <1>9, <2>1
  <2>3. ASSUME NEW x \in assets', NEW y \in assets', x[2] = y[2] PROVE x = y
    <3>1. x[2] \in mine /\ y[2] \in mine
      BY <2>2, <2>3
    <3>2. CASE x \in assets /\ y \in assets
      BY <2>1, <2>3, <3>2
    <3>3. CASE x \notin assets /\ y \notin assets
      BY <1>9, <2>3, <3>3
    <3>4. CASE x \in assets /\ y \notin assets
      <4>1. Rank(mine, x[2]) <= lo /\ Rank(mine, y[2]) \in lo + 1 .. hi
        BY <1>7, <1>9, <2>1, <3>1, <3>4
      <4> QED
        BY <1>6, <1>8, <2>3, <3>1, <4>1
    <3>5. CASE x \notin assets /\ y \in assets
      <4>1. Rank(mine, y[2]) <= lo /\ Rank(mine, x[2]) \in lo + 1 .. hi
        BY <1>7, <1>9, <2>1, <3>1, <3>5
      <4> QED
        BY <1>6, <1>8, <2>3, <3>1, <4>1
    <3> QED
      BY <3>2, <3>3, <3>4, <3>5
  <2>4. ASSUME NEW a \in mine, Rank(mine, a) <= hi PROVE \E x \in assets' : x[2] = a
    <3>1. CASE Rank(mine, a) <= lo
      BY <1>2, <2>1, <3>1
    <3>2. CASE Rank(mine, a) > lo
      <4>1. a \in p
        BY <1>6, <1>7, <1>8, <2>4, <3>2
      <4>2. <<dasPage, a>> \in assets'
        BY <1>2, <4>1
      <4> QED
        BY <4>2
    <3> QED
      BY <1>6, <1>8, <3>1, <3>2
  <2>5. ASSUME dasPc' = "sent", NEW a \in mine, Rank(mine, a) > hi PROVE FALSE
    <3>1. Cardinality(p) = PageSize
      BY <1>1, <1>3, <1>5, <2>5, FullPage
    <3>2. ~ (dasPage < PageCap)
      BY <1>2, <2>5, <3>1, SameWallet DEF Wallet!full
    <3>3. PageCap * PageSize <= dasPage * PageSize
      <4>1. dasPage \in Nat /\ PageCap \in Nat /\ PageSize \in Nat /\ PageCap <= dasPage
        BY <1>3, <3>2, PagesAssumption DEF WalletTypes
      <4> QED
        BY <4>1, MulMono
    <3>4. Rank(mine, a) <= MaxAsset
      BY <1>3, MineRanked, PagesAssumption
    <3>5. PageCap * PageSize \in Nat
      BY PagesAssumption
    <3> QED
      BY <1>6, <1>8, <2>5, <3>3, <3>4, <3>5, PagesAssumption
  <2> QED
    BY <1>6, <1>8, <2>2, <2>3, <2>4, <2>5
<1> QED
  <2>1. mine' = mine /\ dasQuiet' = dasQuiet /\ dasFaults' = dasFaults /\ Through(dasPage)' = hi
    BY <1>2, <1>5 DEF Through
  <2> QED
    BY <1>4, <1>10, <1>11, <2>1 DEF WalletInv

LEMMA WalletFails == WalletInv /\ Wallet!PageFails => WalletInv'
<1> SUFFICES ASSUME WalletInv, Wallet!PageFails PROVE WalletInv'
  OBVIOUS
<1>1. /\ dasFaults > 0 /\ dasFaults' = dasFaults - 1
      /\ UNCHANGED <<kind, mine, had, dasQuiet>>
      /\ assets' = assets \cup ({dasPage} \X {}) \/ assets' = assets
      /\ dasPage' = dasPage + 1 \/ dasPage' = dasPage
  BY DEF Wallet!PageFails, Wallet!Arrives
<1>2. assets' = assets
  BY <1>1
<1>3. WalletTypes
  BY DEF WalletInv
<1>4. WalletTypes' /\ dasFaults' # Faults
  BY <1>1, <1>3, CachesAssumption
     DEF WalletTypes, Wallet!Assets, Wallet!AssetKinds, Wallet!Nfts, Wallet!Graded
<1> QED
  BY <1>1, <1>2, <1>4 DEF WalletInv

LEMMA WalletSteps == WalletInv /\ [Wallet!Next]_walletVars => WalletInv'
<1> SUFFICES ASSUME WalletInv, Wallet!Next \/ UNCHANGED walletVars PROVE WalletInv'
  OBVIOUS
<1>1. CASE UNCHANGED walletVars
  BY <1>1 DEF walletVars, WalletInv, WalletTypes, Wallet!Assets, Wallet!AssetKinds, Wallet!Nfts,
              Wallet!Graded, Through
<1>2. CASE Wallet!Next
  BY <1>2, WalletMoves, WalletAsked, WalletRead, WalletFails DEF Wallet!Next
<1> QED
  BY <1>1, <1>2

(* An asset matches an underlying of the catalog just when it is one.      *)
LEMMA UnderlyingIs ==
  ASSUME WalletTypes, NEW a \in Wallet!Assets, NEW u \in Wallet!Underlyings
  PROVE  Wallet!underlying(a) = u <=> kind[a] = u
<1>1. kind[a] \in Wallet!AssetKinds
  BY DEF WalletTypes
<1>2. CASE \E c \in Collections : kind[a] = <<"nft", c>>
  BY <1>2 DEF Wallet!underlying
<1>3. CASE kind[a] = <<"other">>
  <2>1. u = <<u[1], u[2]>> /\ u[1] \in {"nft", "card"}
    BY DEF Wallet!Underlyings, Wallet!Nfts
  <2>2. Wallet!underlying(a) = <<"none">>
    BY <1>3 DEF Wallet!underlying
  <2> QED
    BY <1>3, <2>1, <2>2
<1>4. ASSUME NEW k \in CardKeys, NEW g \in Grades \cup {NoGrade}, kind[a] = <<"card", <<k, g>>>>
      PROVE  Wallet!underlying(a) = u <=> kind[a] = u
  <2>1. Wallet!underlying(a) = IF Wallet!identifier(a) \in Catalog
                               THEN <<"card", Wallet!identifier(a)>> ELSE <<"none">>
    BY <1>4 DEF Wallet!underlying
  <2>2. Wallet!identifier(a) = IF g = NoGrade THEN <<"none">> ELSE <<k, g>>
    BY <1>4 DEF Wallet!identifier
  <2>3. u = <<u[1], u[2]>> /\ u[1] \in {"nft", "card"} /\ (u[1] = "card" => u[2] \in Catalog)
    BY DEF Wallet!Underlyings, Wallet!Nfts
  <2>4. \A c \in Catalog : c = <<c[1], c[2]>> /\ c[2] \in Grades /\ c[2] # NoGrade
    BY CatalogAssumption
  <2>5. CASE g = NoGrade
    <3>1. <<"none">> \notin Catalog
      BY <2>4
    <3>2. <<k, g>> \notin Catalog
      BY <2>4, <2>5
    <3> QED
      BY <1>4, <2>1, <2>2, <2>3, <2>5, <3>1, <3>2
  <2>6. CASE g # NoGrade
    BY <1>4, <2>1, <2>2, <2>3, <2>6
  <2> QED
    BY <2>5, <2>6
<1> QED
  BY <1>1, <1>2, <1>3, <1>4 DEF Wallet!AssetKinds, Wallet!Nfts, Wallet!Graded

LEMMA HoldingsTrue == WalletInv => Wallet!HeldWasHad /\ Wallet!QuietCountsExact
<1> SUFFICES ASSUME WalletInv PROVE Wallet!HeldWasHad /\ Wallet!QuietCountsExact
  OBVIOUS
<1>1. WalletTypes /\ \A x \in assets : x[2] \in had /\ x[2] \in Wallet!Assets
  BY DEF WalletInv, WalletTypes
<1>2. ASSUME NEW u \in Wallet!Underlyings
      PROVE  {x \in assets : Wallet!underlying(x[2]) = u} = {x \in assets : kind[x[2]] = u}
  BY <1>1, UnderlyingIs
<1>3. ASSUME NEW u \in Wallet!held PROVE \E a \in had : kind[a] = u
  <2>1. u \in Wallet!Underlyings /\ Cardinality({x \in assets : kind[x[2]] = u}) > 0
    BY <1>2, SameWallet DEF Wallet!held, Wallet!copies
  <2>2. {x \in assets : kind[x[2]] = u} # {}
    BY <2>1, FS_EmptySet
  <2> QED
    BY <1>1, <2>2
<1>4. ASSUME dasPc = "sent", dasQuiet, dasFaults = Faults, NEW u \in Wallet!Underlyings
      PROVE  Wallet!copies(u) = Cardinality({a \in mine : kind[a] = u})
  <2>1. /\ \A x \in assets : x[2] \in mine
        /\ \A x, y \in assets : x[2] = y[2] => x = y
        /\ \A a \in mine : \E x \in assets : x[2] = a
    BY <1>4 DEF WalletInv
  <2>2. PICK X, A : X = {x \in assets : kind[x[2]] = u} /\ A = {a \in mine : kind[a] = u}
    OBVIOUS
  <2>3. Cardinality(X) = Cardinality(A)
    <3>1. IsFiniteSet(A)
      BY <1>1, <2>2, MineRanked, FS_Subset
    <3>2. PICK f : f = [x \in X |-> x[2]]
      OBVIOUS
    <3>3. f \in [X -> A] /\ \A x \in X : f[x] = x[2]
      BY <2>1, <2>2, <3>2
    <3>4. \A x, y \in X : f[x] = f[y] => x = y
      BY <2>1, <2>2, <3>3
    <3>5. \A a \in A : \E x \in X : f[x] = a
      <4> SUFFICES ASSUME NEW a \in A PROVE \E x \in X : f[x] = a
        OBVIOUS
      <4>1. PICK x \in assets : x[2] = a
        BY <2>1, <2>2
      <4>2. x \in X
        BY <2>2, <4>1
      <4> QED
        BY <3>3, <4>1, <4>2
    <3> QED
      BY <3>1, <3>3, <3>4, <3>5, SameSize
  <2> QED
    BY <1>2, <2>2, <2>3, SameWallet DEF Wallet!copies
<1>5. \A S : Wallet!Cardinality(S) = Cardinality(S)
  BY SameWallet
<1> QED
  BY <1>3, <1>4, <1>5 DEF Wallet!HeldWasHad, Wallet!QuietCountsExact

-----------------------------------------------------------------------------
(* The allowlist.                                                          *)

LEMMA SameScan ==
  /\ \A S : Scan!Cardinality(S) = Cardinality(S)
  /\ \A s : Scan!ToSet(s) = {s[i] : i \in DOMAIN s}
  /\ \A s, i : Scan!RemoveAt(s, i) = SubSeq(s, 1, i - 1) \o SubSeq(s, i + 1, Len(s))
  /\ \A s, i, e : Scan!InsertAt(s, i, e) = SubSeq(s, 1, i - 1) \o <<e>> \o SubSeq(s, i, Len(s))
  BY DEF Scan!Cardinality, Cardinality, Scan!ToSet, Scan!RemoveAt, Scan!InsertAt

LEMMA Joined ==
  ASSUME NEW S, NEW a \in Seq(S), NEW b \in Seq(S), NEW t, t = a \o b
  PROVE  /\ t \in Seq(S) /\ Len(t) = Len(a) + Len(b) /\ DOMAIN t = 1..Len(t)
         /\ \A k \in DOMAIN t : t[k] = IF k <= Len(a) THEN a[k] ELSE b[k - Len(a)]
  OBVIOUS

LEMMA Cut ==
  ASSUME NEW S, NEW s \in Seq(S), NEW m \in Nat, NEW n \in Nat, 1 <= m, m <= n + 1, n <= Len(s),
         NEW a, a = SubSeq(s, m, n)
  PROVE  /\ a \in Seq(S) /\ Len(a) = n - m + 1
         /\ \A k \in 1..Len(a) : a[k] = s[k + m - 1]
  OBVIOUS

LEMMA Removed ==
  ASSUME NEW S, NEW s \in Seq(S), NEW i \in 1..Len(s), NEW t, t = Scan!RemoveAt(s, i)
  PROVE  /\ t \in Seq(S) /\ Len(t) = Len(s) - 1
         /\ \A k \in DOMAIN t : t[k] = IF k < i THEN s[k] ELSE s[k + 1]
         /\ \A k \in DOMAIN t : k \in DOMAIN s /\ k + 1 \in DOMAIN s
<1>1. /\ i \in Nat /\ 1 <= i /\ i <= Len(s) /\ Len(s) \in Nat /\ DOMAIN s = 1..Len(s)
      /\ \A k \in 1..Len(s) : s[k] \in S
  OBVIOUS
<1>2. PICK a, b : a = SubSeq(s, 1, i - 1) /\ b = SubSeq(s, i + 1, Len(s))
  OBVIOUS
<1>3. /\ a \in Seq(S) /\ Len(a) = i - 1
      /\ \A k \in 1..Len(a) : a[k] = s[k]
  <2>0. PICK m, n : m = 1 /\ n = i - 1
    OBVIOUS
  <2>1. m \in Nat /\ n \in Nat /\ 1 <= m /\ m <= n + 1 /\ n <= Len(s) /\ a = SubSeq(s, m, n)
    BY <1>1, <1>2, <2>0
  <2>2. /\ a \in Seq(S) /\ Len(a) = n - m + 1
        /\ \A k \in 1..Len(a) : a[k] = s[k + m - 1]
    BY <2>1, Cut
  <2> QED
    BY <1>1, <2>0, <2>2
<1>4. /\ b \in Seq(S) /\ Len(b) = Len(s) - i
      /\ \A k \in 1..Len(b) : b[k] = s[k + (i + 1) - 1]
  <2>0. PICK m, n : m = i + 1 /\ n = Len(s)
    OBVIOUS
  <2>1. m \in Nat /\ n \in Nat /\ 1 <= m /\ m <= n + 1 /\ n <= Len(s) /\ b = SubSeq(s, m, n)
    BY <1>1, <1>2, <2>0
  <2>2. /\ b \in Seq(S) /\ Len(b) = n - m + 1
        /\ \A k \in 1..Len(b) : b[k] = s[k + m - 1]
    BY <2>1, Cut
  <2> QED
    BY <1>1, <2>0, <2>2
<1>5. t = a \o b
  BY <1>2, SameScan
<1>6. /\ t \in Seq(S) /\ Len(t) = Len(s) - 1 /\ DOMAIN t = 1..Len(s) - 1
      /\ \A k \in DOMAIN t : t[k] = IF k <= Len(a) THEN a[k] ELSE b[k - Len(a)]
  <2>1. /\ t \in Seq(S) /\ Len(t) = Len(a) + Len(b) /\ DOMAIN t = 1..Len(t)
        /\ \A k \in DOMAIN t : t[k] = IF k <= Len(a) THEN a[k] ELSE b[k - Len(a)]
    <3>1. a \in Seq(S) /\ b \in Seq(S)
      BY <1>3, <1>4
    <3> QED
      BY <1>5, <3>1, Joined
  <2>2. Len(a) + Len(b) = Len(s) - 1
    BY <1>1, <1>3, <1>4
  <2> QED
    BY <2>1, <2>2
<1>7. ASSUME NEW k \in DOMAIN t
      PROVE  t[k] = IF k < i THEN s[k] ELSE s[k + 1]
  <2>1. k \in Nat /\ k >= 1 /\ k <= Len(s) - 1 /\ i \in Nat
    BY <1>1, <1>6
  <2>2. CASE k < i
    BY <1>3, <1>6, <2>1, <2>2
  <2>3. CASE ~ (k < i)
    <3>1. k - Len(a) = k - i + 1 /\ k - Len(a) \in 1..Len(b)
      BY <1>1, <1>3, <1>4, <2>1, <2>3
    <3>2. t[k] = b[k - Len(a)] /\ (k - Len(a)) + (i + 1) - 1 = k + 1
      BY <1>3, <1>6, <2>1, <2>3
    <3> QED
      BY <1>4, <2>3, <3>1, <3>2
  <2> QED
    BY <2>2, <2>3
<1> QED
  BY <1>1, <1>6, <1>7

LEMMA Inserted ==
  ASSUME NEW S, NEW s \in Seq(S), NEW i \in 1..Len(s) + 1, NEW e \in S,
         NEW t, t = Scan!InsertAt(s, i, e),
         \A k \in DOMAIN s : s[k] # e,
         \A k, m \in DOMAIN s : s[k] = s[m] => k = m
  PROVE  t \in Seq(S) /\ \A k, m \in DOMAIN t : t[k] = t[m] => k = m
<1>1. /\ i \in Nat /\ i >= 1 /\ i <= Len(s) + 1 /\ Len(s) \in Nat /\ DOMAIN s = 1..Len(s)
      /\ \A k \in 1..Len(s) : s[k] \in S
  OBVIOUS
<1>2. PICK a, b : a = SubSeq(s, 1, i - 1) /\ b = SubSeq(s, i, Len(s))
  OBVIOUS
<1>3. /\ a \in Seq(S) /\ Len(a) = i - 1
      /\ \A k \in 1..Len(a) : a[k] = s[k]
  <2>0. PICK m, n : m = 1 /\ n = i - 1
    OBVIOUS
  <2>1. m \in Nat /\ n \in Nat /\ 1 <= m /\ m <= n + 1 /\ n <= Len(s) /\ a = SubSeq(s, m, n)
    BY <1>1, <1>2, <2>0
  <2>2. /\ a \in Seq(S) /\ Len(a) = n - m + 1
        /\ \A k \in 1..Len(a) : a[k] = s[k + m - 1]
    BY <2>1, Cut
  <2> QED
    BY <1>1, <2>0, <2>2
<1>4. /\ b \in Seq(S) /\ Len(b) = Len(s) - i + 1
      /\ \A k \in 1..Len(b) : b[k] = s[k + i - 1]
  <2>0. PICK n : n = Len(s)
    OBVIOUS
  <2>1. i \in Nat /\ n \in Nat /\ 1 <= i /\ i <= n + 1 /\ n <= Len(s) /\ b = SubSeq(s, i, n)
    BY <1>1, <1>2, <2>0
  <2>2. /\ b \in Seq(S) /\ Len(b) = n - i + 1
        /\ \A k \in 1..Len(b) : b[k] = s[k + i - 1]
    BY <2>1, Cut
  <2> QED
    BY <1>1, <2>0, <2>2
<1>5. PICK d : d = a \o <<e>>
  OBVIOUS
<1>6. /\ d \in Seq(S) /\ Len(d) = i /\ DOMAIN d = 1..i
      /\ \A k \in 1..i : d[k] = IF k < i THEN s[k] ELSE e
  <2>1. <<e>> \in Seq(S) /\ Len(<<e>>) = 1 /\ <<e>>[1] = e
    OBVIOUS
  <2>2. d \in Seq(S) /\ Len(d) = i /\ DOMAIN d = 1..i
    BY <1>1, <1>3, <1>5, <2>1
  <2>3. \A k \in 1..i : d[k] = IF k <= Len(a) THEN a[k] ELSE <<e>>[k - Len(a)]
    BY <1>1, <1>3, <1>5, <2>1
  <2> QED
    BY <1>1, <1>3, <2>1, <2>2, <2>3
<1>7. t = d \o b
  BY <1>2, <1>5, SameScan
<1>8. /\ t \in Seq(S) /\ Len(t) = Len(s) + 1 /\ DOMAIN t = 1..Len(s) + 1
      /\ \A k \in DOMAIN t : t[k] = IF k <= i THEN d[k] ELSE b[k - i]
  <2>1. /\ t \in Seq(S) /\ Len(t) = Len(d) + Len(b) /\ DOMAIN t = 1..Len(t)
        /\ \A k \in DOMAIN t : t[k] = IF k <= Len(d) THEN d[k] ELSE b[k - Len(d)]
    BY <1>4, <1>6, <1>7, Joined
  <2>2. Len(d) + Len(b) = Len(s) + 1
    BY <1>1, <1>4, <1>6
  <2> QED
    BY <1>6, <2>1, <2>2
<1>9. ASSUME NEW k \in DOMAIN t
      PROVE  t[k] = IF k < i THEN s[k] ELSE IF k = i THEN e ELSE s[k - 1]
  <2>1. k \in Nat /\ k >= 1 /\ k <= Len(s) + 1
    BY <1>1, <1>8
  <2>2. CASE k <= i
    BY <1>1, <1>6, <1>8, <2>1, <2>2
  <2>3. CASE k > i
    <3>1. k - i \in 1..Len(b) /\ (k - i) + i - 1 = k - 1
      BY <1>1, <1>4, <2>1, <2>3
    <3>2. t[k] = b[k - i] /\ b[k - i] = s[(k - i) + i - 1]
      BY <1>1, <1>4, <1>8, <2>1, <2>3, <3>1
    <3> QED
      BY <1>1, <2>1, <2>3, <3>1, <3>2
  <2> QED
    BY <1>1, <2>1, <2>2, <2>3
<1>10. ASSUME NEW k \in DOMAIN t, NEW m \in DOMAIN t, t[k] = t[m] PROVE k = m
  <2>1. k \in Nat /\ k >= 1 /\ k <= Len(s) + 1 /\ m \in Nat /\ m >= 1 /\ m <= Len(s) + 1
    BY <1>1, <1>8
  <2>2. /\ k # i => (IF k < i THEN k ELSE k - 1) \in DOMAIN s
        /\ m # i => (IF m < i THEN m ELSE m - 1) \in DOMAIN s
    BY <1>1, <2>1
  <2>3. CASE k = i /\ m # i
    BY <1>1, <1>9, <1>10, <2>1, <2>2, <2>3
  <2>4. CASE k # i /\ m = i
    BY <1>1, <1>9, <1>10, <2>1, <2>2, <2>4
  <2>5. CASE k # i /\ m # i
    <3>1. (IF k < i THEN k ELSE k - 1) = (IF m < i THEN m ELSE m - 1)
      BY <1>9, <1>10, <2>1, <2>2, <2>5
    <3> QED
      BY <1>1, <2>1, <2>5, <3>1
  <2> QED
    BY <2>3, <2>4, <2>5
<1> QED
  BY <1>8, <1>10

(* A listing read: the page it was on, and its number.                     *)
IsRead(x) == x = <<x[1], x[2]>> /\ x[1] \in Int /\ x[2] \in Scan!Listings

(* Cheaper or the same, in the order the rows are sorted by.               *)
Dearness(s) == {z \in s \X s : z[1] = z[2] \/ Scan!cheaper(z[1], z[2])}

LEMMA ListingsAre ==
  /\ IsFiniteSet(Scan!Listings)
  /\ \A l \in Scan!Listings : l \in Int /\ Price[l] \in Int
<1>1. Scan!Listings = 1..Len(Group) /\ Len(Group) \in Nat
  BY CatalogAssumption DEF Scan!Listings
<1>2. IsFiniteSet(1..Len(Group))
  BY <1>1, FS_Interval
<1> QED
  BY <1>1, <1>2, CatalogAssumption

LEMMA CheaperOrders ==
  ASSUME NEW s, \A x \in s : IsRead(x), NEW R, R = Dearness(s)
  PROVE  /\ \A x \in s : <<x, x>> \in R
         /\ \A x, y \in s : <<x, y>> \in R \/ <<y, x>> \in R
         /\ \A x, y \in s : <<x, y>> \in R /\ <<y, x>> \in R => x = y
         /\ \A x, y, z \in s : <<x, y>> \in R /\ <<y, z>> \in R => <<x, z>> \in R
         /\ \A x, y \in s : Price[x[2]] < Price[y[2]] => <<x, y>> \in R /\ <<y, x>> \notin R
<1>1. \A x, y \in s : <<x, y>> \in R <=> x = y \/ Scan!cheaper(x, y)
  BY DEF Dearness
<1>2. \A x \in s : x = <<x[1], x[2]>> /\ x[1] \in Int /\ x[2] \in Int /\ Price[x[2]] \in Int
  BY ListingsAre DEF IsRead
<1>3. \A x, y \in s : Scan!cheaper(x, y) <=>
         \/ Price[x[2]] < Price[y[2]]
         \/ Price[x[2]] = Price[y[2]] /\ (x[1] < y[1] \/ (x[1] = y[1] /\ x[2] < y[2]))
  BY DEF Scan!cheaper, Scan!earlier
<1>4. ASSUME NEW x \in s, NEW y \in s
      PROVE  /\ <<x, y>> \in R \/ <<y, x>> \in R
             /\ <<x, y>> \in R /\ <<y, x>> \in R => x = y
             /\ Price[x[2]] < Price[y[2]] => <<x, y>> \in R /\ <<y, x>> \notin R
  <2>1. x = <<x[1], x[2]>> /\ x[1] \in Int /\ x[2] \in Int /\ Price[x[2]] \in Int
    BY <1>2
  <2>2. y = <<y[1], y[2]>> /\ y[1] \in Int /\ y[2] \in Int /\ Price[y[2]] \in Int
    BY <1>2
  <2>3. x = y \/ Scan!cheaper(x, y) \/ Scan!cheaper(y, x)
    BY <1>3, <2>1, <2>2
  <2>4. ~ (Scan!cheaper(x, y) /\ Scan!cheaper(y, x))
    BY <1>3, <2>1, <2>2
  <2>5. Price[x[2]] < Price[y[2]] => Scan!cheaper(x, y) /\ x # y
    BY <1>3, <2>1, <2>2
  <2> QED
    BY <1>1, <2>3, <2>4, <2>5
<1>5. ASSUME NEW x \in s, NEW y \in s, NEW z \in s, <<x, y>> \in R, <<y, z>> \in R
      PROVE  <<x, z>> \in R
  <2>1. x[1] \in Int /\ x[2] \in Int /\ Price[x[2]] \in Int
    BY <1>2
  <2>2. y[1] \in Int /\ y[2] \in Int /\ Price[y[2]] \in Int
    BY <1>2
  <2>3. z[1] \in Int /\ z[2] \in Int /\ Price[z[2]] \in Int
    BY <1>2
  <2>4. CASE x = y \/ y = z
    BY <1>5, <2>4
  <2>5. CASE x # y /\ y # z
    <3>1. Scan!cheaper(x, y) /\ Scan!cheaper(y, z)
      BY <1>1, <1>5, <2>5
    <3>2. Scan!cheaper(x, z)
      BY <1>3, <2>1, <2>2, <2>3, <3>1
    <3> QED
      BY <1>1, <3>2
  <2> QED
    BY <2>4, <2>5
<1>6. \A x \in s : <<x, x>> \in R
  BY <1>1
<1> QED
  BY <1>4, <1>5, <1>6

(* A row: how many, the cheapest, and one with no more than half of them   *)
(* on either side.                                                         *)
RowOf(s, r) ==
  \E lo, mid \in s :
    /\ r = [listings |-> Cardinality(s), floor |-> Price[lo[2]], median |-> Price[mid[2]]]
    /\ \A x \in s : Price[lo[2]] <= Price[x[2]]
    /\ 2 * Cardinality({x \in s : Price[x[2]] < Price[mid[2]]}) <= Cardinality(s)
    /\ 2 * Cardinality({x \in s : Price[x[2]] > Price[mid[2]]}) <= Cardinality(s)

LEMMA RowIs ==
  ASSUME IsFiniteSet(read), \A x \in read : IsRead(x),
         NEW c, NEW s, s = Scan!prices_of(c), s # {}
  PROVE  RowOf(s, Scan!row(c))
<1>1. IsFiniteSet(s) /\ \A x \in s : IsRead(x) /\ Price[x[2]] \in Int
  <2>1. s \subseteq read
    BY DEF Scan!prices_of
  <2> QED
    BY <2>1, FS_Subset, ListingsAre DEF IsRead
<1>2. PICK R, rank : R = Dearness(s) /\ rank = RankBy(s, R)
  OBVIOUS
<1>3. /\ \A x \in s : <<x, x>> \in R
      /\ \A x, y \in s : <<x, y>> \in R \/ <<y, x>> \in R
      /\ \A x, y \in s : <<x, y>> \in R /\ <<y, x>> \in R => x = y
      /\ \A x, y, z \in s : <<x, y>> \in R /\ <<y, z>> \in R => <<x, z>> \in R
      /\ \A x, y \in s : Price[x[2]] < Price[y[2]] => <<x, y>> \in R /\ <<y, x>> \notin R
  BY <1>1, <1>2, CheaperOrders
<1>4. /\ rank \in [s -> 1..Cardinality(s)]
      /\ \A x, y \in s : rank[x] = rank[y] => x = y
      /\ \A n \in 1..Cardinality(s) : \E x \in s : rank[x] = n
  BY <1>1, <1>2, <1>3, RanksAreNumbers
<1>5. PICK N : N = Cardinality(s)
  OBVIOUS
<1>6. N \in Nat /\ N >= 1
  BY <1>1, <1>5, FS_CardinalityType, FS_EmptySet
<1>7. \A x \in s : rank[x] \in Int /\ rank[x] >= 1 /\ rank[x] <= N
  BY <1>4, <1>5, <1>6
<1>8. ASSUME NEW x \in s, NEW y \in s, Price[x[2]] < Price[y[2]]
      PROVE  rank[x] < rank[y]
  <2>1. <<x, y>> \in R /\ x # y
    BY <1>3, <1>8
  <2>2. rank[x] <= rank[y]
    BY <1>1, <1>2, <1>3, <2>1, RanksFollow
  <2>3. rank[x] # rank[y]
    BY <1>4, <2>1
  <2> QED
    BY <1>7, <2>2, <2>3
<1>9. ASSUME NEW n \in 1..N
      PROVE  Scan!sorted(s, n) \in s /\ rank[Scan!sorted(s, n)] = n
  <2>1. \A x \in s : rank[x] = Cardinality({y \in s : y = x \/ Scan!cheaper(y, x)})
    <3> SUFFICES ASSUME NEW x \in s
                 PROVE  rank[x] = Cardinality({y \in s : y = x \/ Scan!cheaper(y, x)})
      OBVIOUS
    <3>1. {y \in s : <<y, x>> \in R} = {y \in s : y = x \/ Scan!cheaper(y, x)}
      BY <1>2 DEF Dearness
    <3> QED
      BY <1>2, <3>1 DEF RankBy
  <2>2. Scan!sorted(s, n) = CHOOSE x \in s : rank[x] = n
    <3>1. \A x \in s : Cardinality({y \in s : y = x \/ Scan!cheaper(y, x)}) = n <=> rank[x] = n
      BY <2>1
    <3>2. Scan!sorted(s, n) = CHOOSE x \in s : Cardinality({y \in s : y = x \/ Scan!cheaper(y, x)}) = n
      BY SameScan DEF Scan!sorted
    <3> QED
      BY <3>1, <3>2
  <2>3. \E x \in s : rank[x] = n
    BY <1>4, <1>5
  <2> QED
    BY <2>2, <2>3
<1>10. PICK k : k = (N \div 2) + 1
  OBVIOUS
<1>11. k \in Nat /\ k >= 1 /\ k <= N /\ 2 * (k - 1) <= N /\ 2 * (N - k) <= N
  BY <1>6, <1>10
<1>12. PICK lo, mid : lo = Scan!sorted(s, 1) /\ mid = Scan!sorted(s, k)
  OBVIOUS
<1>13. lo \in s /\ mid \in s /\ rank[lo] = 1 /\ rank[mid] = k
  BY <1>6, <1>9, <1>11, <1>12
<1>14. Scan!row(c) = [listings |-> Cardinality(s), floor |-> Price[lo[2]], median |-> Price[mid[2]]]
  BY <1>5, <1>10, <1>12, SameScan DEF Scan!row
<1>15. \A x \in s : Price[lo[2]] <= Price[x[2]]
  <2> SUFFICES ASSUME NEW x \in s, Price[x[2]] < Price[lo[2]] PROVE FALSE
    BY <1>1, <1>13
  <2> QED
    BY <1>7, <1>8, <1>13
<1>16. 2 * Cardinality({x \in s : Price[x[2]] < Price[mid[2]]}) <= N
  <2>0. PICK z, h : z = 0 /\ h = k - 1
    OBVIOUS
  <2>1. PICK A, B : /\ A = {x \in s : Price[x[2]] < Price[mid[2]]}
                    /\ B = {x \in s : rank[x] \in z + 1 .. h}
    OBVIOUS
  <2>2. A \subseteq B
    <3> SUFFICES ASSUME NEW x \in A PROVE x \in B
      OBVIOUS
    <3>1. x \in s /\ rank[x] < k
      BY <1>8, <1>13, <2>1
    <3> QED
      BY <1>7, <1>11, <2>0, <2>1, <3>1
  <2>3. Cardinality(B) = h - z
    <3>1. z \in Nat /\ h \in Nat /\ z <= h /\ h <= Cardinality(s)
      BY <1>5, <1>6, <1>11, <2>0
    <3> QED
      BY <1>1, <1>4, <2>1, <3>1, RanksBetween
  <2>4. IsFiniteSet(B)
    BY <1>1, <2>1, FS_Subset
  <2>5. Cardinality(A) <= Cardinality(B) /\ Cardinality(A) \in Nat
    BY <2>2, <2>4, FS_Subset, FS_CardinalityType
  <2> QED
    BY <1>6, <1>11, <2>0, <2>1, <2>3, <2>5
<1>17. 2 * Cardinality({x \in s : Price[x[2]] > Price[mid[2]]}) <= N
  <2>1. PICK A, B : /\ A = {x \in s : Price[x[2]] > Price[mid[2]]}
                    /\ B = {x \in s : rank[x] \in k + 1 .. N}
    OBVIOUS
  <2>2. A \subseteq B
    <3> SUFFICES ASSUME NEW x \in A PROVE x \in B
      OBVIOUS
    <3>0. x \in s /\ Price[x[2]] > Price[mid[2]] /\ Price[x[2]] \in Int /\ Price[mid[2]] \in Int
      BY <1>1, <1>13, <2>1
    <3>1. x \in s /\ rank[x] > k
      BY <1>7, <1>8, <1>13, <3>0
    <3> QED
      BY <1>6, <1>7, <1>11, <2>1, <3>1
  <2>3. Cardinality(B) = N - k
    <3>1. k \in Nat /\ N \in Nat /\ k <= N /\ N <= Cardinality(s)
      BY <1>5, <1>6, <1>11
    <3> QED
      BY <1>1, <1>4, <2>1, <3>1, RanksBetween
  <2>4. IsFiniteSet(B)
    BY <1>1, <2>1, FS_Subset
  <2>5. Cardinality(A) <= Cardinality(B) /\ Cardinality(A) \in Nat
    BY <2>2, <2>4, FS_Subset, FS_CardinalityType
  <2> QED
    BY <1>6, <1>11, <2>1, <2>3, <2>5
<1> QED
  BY <1>5, <1>13, <1>14, <1>15, <1>16, <1>17 DEF RowOf

(* While cards are only sold, what was read was on sale when the scan      *)
(* began and is not further on; a row promises no more listings than there *)
(* were, and the allowlist only what the rows do.                          *)
Deep(s) == (\A i \in DOMAIN s : Volume[s[i]] >= MinVolume) /\ Scan!busiest_first(s)
OnSaleOf(c) == Cardinality({l \in before : Group[l] = c})
RowHolds(c, r) ==
  /\ r.listings \in Int /\ r.listings <= OnSaleOf(c)
  /\ r.floor \in Int /\ r.median \in Int /\ r.floor <= r.median

Exact(B, f, c) ==
  /\ (c \in DOMAIN f) <=> (B # {})
  /\ B # {} =>
       /\ f[c].listings = Cardinality(B)
       /\ \E l \in B : Price[l] = f[c].floor
       /\ \A l \in B : f[c].floor <= Price[l]
       /\ \E l \in B : Price[l] = f[c].median
       /\ 2 * Cardinality({l \in B : Price[l] < f[c].median}) <= f[c].listings
       /\ 2 * Cardinality({l \in B : Price[l] > f[c].median}) <= f[c].listings

ScanTypes ==
  /\ onSale \in Seq(Scan!Listings)
  /\ \A i, j \in DOMAIN onSale : onSale[i] = onSale[j] => i = j
  /\ read_pages \in Nat /\ IsFiniteSet(read) /\ \A x \in read : IsRead(x)
  /\ before \subseteq Scan!Listings

ScanReads ==
  /\ scanPc \in {"idle", "choose"} => read = {} /\ read_pages = 0
  /\ Scan!CountedOnce
  /\ scanPc = "cards" /\ ~offered =>
       \A i \in DOMAIN onSale :
         onSale[i] \in before /\ (i > read_pages * PageSize => \A x \in read : x[2] # onSale[i])
  /\ scanPc = "cards" /\ scanQuiet =>
       /\ ~offered /\ pages = Scan!Ceil(Len(onSale)) /\ before = {onSale[i] : i \in DOMAIN onSale}
       /\ \A i \in DOMAIN onSale : i <= read_pages * PageSize => \E x \in read : x[2] = onSale[i]

ScanShows ==
  /\ scanPc = "emit" => file # << >>
  /\ scanPc \in {"idle", "choose", "emit"} /\ ~offered /\ file # << >> =>
       \A c \in DOMAIN file[1] : RowHolds(c, file[1][c])
  /\ scanPc \in {"idle", "choose"} /\ ~offered =>
       \A c \in DOMAIN allow.cards : OnSaleOf(c) >= MinListings /\ allow.cards[c] >= MinFloorUsd
  /\ Deep(nfts) /\ Deep(allow.nfts)
  /\ scanPc = "emit" /\ scanQuiet /\ read_pages > 0 =>
       \A c \in Scan!Cards : Exact({l \in before : Group[l] = c}, file[1], c)

ScanInv == ScanTypes /\ ScanReads /\ ScanShows

LEMMA ScanStarts == Scan!Init => ScanInv
<1> SUFFICES ASSUME Scan!Init PROVE ScanInv
  OBVIOUS
<1>1. /\ pages = 0 /\ read_pages = 0 /\ read = {} /\ nfts = << >> /\ scanPc = "idle"
      /\ file = << >> /\ allow = [nfts |-> << >>, cards |-> << >>] /\ before = {}
  BY DEF Scan!Init
<1>2. PICK S \in SUBSET Scan!Listings : onSale \in Scan!SetToSeqs(S)
  BY DEF Scan!Init
<1>3. IsFiniteSet(S) /\ Cardinality(S) \in Nat
  BY ListingsAre, FS_Subset, FS_CardinalityType
<1>4. /\ onSale \in [1..Cardinality(S) -> S]
      /\ \A i, j \in 1..Cardinality(S) : i # j => onSale[i] # onSale[j]
  BY <1>2, SameScan DEF Scan!SetToSeqs
<1>5. onSale \in Seq(Scan!Listings) /\ DOMAIN onSale = 1..Cardinality(S)
  <2>1. onSale \in [1..Cardinality(S) -> Scan!Listings]
    BY <1>4
  <2> QED
    BY <1>3, <2>1
<1>6. ScanTypes
  BY <1>1, <1>4, <1>5, FS_EmptySet DEF ScanTypes
<1>7. DOMAIN << >> = {} /\ Len(<< >>) = 0
  OBVIOUS
<1>8. Deep(<< >>)
  BY <1>7 DEF Deep, Scan!busiest_first
<1> QED
  BY <1>1, <1>6, <1>7, <1>8 DEF ScanInv, ScanReads, ScanShows, Scan!CountedOnce

LEMMA PageHas ==
  ASSUME ScanTypes, NEW p, NEW P, P = Scan!PageOf(p)
  PROVE  /\ IsFiniteSet(P) /\ P \subseteq Scan!Listings
         /\ \A l \in P : \E k \in DOMAIN onSale : (p - 1) * PageSize < k /\ k <= p * PageSize /\ l = onSale[k]
         /\ \A k \in DOMAIN onSale : (p - 1) * PageSize < k /\ k <= p * PageSize => onSale[k] \in P
<1>1. P = {onSale[i] : i \in {k \in DOMAIN onSale : (p - 1) * PageSize < k /\ k <= p * PageSize}}
  BY DEF Scan!PageOf
<1>2. \A k \in DOMAIN onSale : onSale[k] \in Scan!Listings
  BY DEF ScanTypes
<1>3. P \subseteq Scan!Listings
  BY <1>1, <1>2
<1>4. IsFiniteSet(P)
  BY <1>3, ListingsAre, FS_Subset
<1> QED
  BY <1>1, <1>3, <1>4

(* What a page adds to what was read.                                      *)
LEMMA PageOfCards ==
  ASSUME ScanTypes, NEW p \in Nat \ {0}, NEW R, R = {p} \X Scan!PageOf(p)
  PROVE  /\ IsFiniteSet(R)
         /\ \A x \in R : IsRead(x) /\ x = <<p, x[2]>> /\ x[2] \in Scan!PageOf(p)
         /\ \A l \in Scan!PageOf(p) : <<p, l>> \in R
<1>1. PICK P : P = Scan!PageOf(p)
  OBVIOUS
<1>2. IsFiniteSet(P) /\ P \subseteq Scan!Listings
  BY <1>1, PageHas
<1>3. IsFiniteSet({p})
  BY FS_Singleton
<1>4. IsFiniteSet({p} \X P)
  BY <1>2, <1>3, FS_Product
<1> QED
  BY <1>1, <1>2, <1>4 DEF IsRead

LEMMA CardSold ==
  ASSUME ScanInv, NEW i \in DOMAIN onSale, Scan!Sold(i)
  PROVE  ScanInv'
<1>1. /\ scanPc = "cards" /\ onSale' = Scan!RemoveAt(onSale, i) /\ scanQuiet' = FALSE
      /\ UNCHANGED <<pages, read_pages, read, nfts, scanPc, file, allow, before, offered>>
  BY DEF Scan!Sold
<1>2. ScanTypes /\ onSale \in Seq(Scan!Listings)
  BY DEF ScanInv, ScanTypes
<1>3. PICK t : t = onSale'
  OBVIOUS
<1>4. /\ t \in Seq(Scan!Listings)
      /\ \A k \in DOMAIN t : t[k] = IF k < i THEN onSale[k] ELSE onSale[k + 1]
      /\ \A k \in DOMAIN t : k \in DOMAIN onSale /\ k + 1 \in DOMAIN onSale
  <2>1. PICK S, s : S = Scan!Listings /\ s = onSale
    OBVIOUS
  <2>2. s \in Seq(S) /\ i \in 1..Len(s) /\ t = Scan!RemoveAt(s, i)
    BY <1>1, <1>2, <1>3, <2>1
  <2>3. /\ t \in Seq(S)
        /\ \A k \in DOMAIN t : t[k] = IF k < i THEN s[k] ELSE s[k + 1]
        /\ \A k \in DOMAIN t : k \in DOMAIN s /\ k + 1 \in DOMAIN s
    BY <2>2, Removed
  <2> QED
    BY <2>1, <2>3
<1>5. i \in Int /\ (\A k \in DOMAIN onSale : k \in Int) /\ \A k \in DOMAIN t : k \in Int
  BY <1>2, <1>4
<1>6. ASSUME NEW k \in DOMAIN t, NEW m \in DOMAIN t, t[k] = t[m] PROVE k = m
  <2>1. PICK a, b : /\ a = (IF k < i THEN k ELSE k + 1) /\ b = (IF m < i THEN m ELSE m + 1)
    OBVIOUS
  <2>2. a \in DOMAIN onSale /\ b \in DOMAIN onSale /\ onSale[a] = t[k] /\ onSale[b] = t[m]
    BY <1>4, <2>1
  <2>3. a = b
    BY <1>2, <1>6, <2>2 DEF ScanTypes
  <2> QED
    BY <1>5, <2>1, <2>3
<1>7. ScanTypes'
  BY <1>1, <1>2, <1>3, <1>4, <1>6 DEF ScanTypes
<1>8. ASSUME ~offered, NEW k \in DOMAIN t
      PROVE  t[k] \in before /\ (k > read_pages * PageSize => \A x \in read : x[2] # t[k])
  <2>1. PICK a : a = IF k < i THEN k ELSE k + 1
    OBVIOUS
  <2>2. a \in DOMAIN onSale /\ onSale[a] = t[k] /\ a >= k
    BY <1>4, <1>5, <2>1
  <2>3. onSale[a] \in before /\ (a > read_pages * PageSize => \A x \in read : x[2] # onSale[a])
    BY <1>1, <1>8, <2>2 DEF ScanInv, ScanReads
  <2>4. read_pages * PageSize \in Int
    BY <1>2, PagesAssumption DEF ScanTypes
  <2>5. a \in Int /\ k \in Int
    BY <1>5, <2>2
  <2> QED
    BY <2>2, <2>3, <2>4, <2>5
<1>9. ScanReads'
  BY <1>1, <1>3, <1>8 DEF ScanInv, ScanReads, Scan!CountedOnce
<1>10. ScanShows'
  BY <1>1 DEF ScanInv, ScanShows, RowHolds, OnSaleOf, Deep, Scan!busiest_first
<1> QED
  BY <1>7, <1>9, <1>10 DEF ScanInv

LEMMA CardOffered ==
  ASSUME ScanInv, NEW l \in Scan!Listings, NEW i \in 1..Len(onSale) + 1, Scan!Offered(l, i)
  PROVE  ScanInv'
<1>1. /\ scanPc = "cards" /\ onSale' = Scan!InsertAt(onSale, i, l)
      /\ l \notin {onSale[k] : k \in DOMAIN onSale}
      /\ offered' = TRUE /\ scanQuiet' = FALSE
      /\ UNCHANGED <<pages, read_pages, read, nfts, scanPc, file, allow, before>>
  BY SameScan DEF Scan!Offered
<1>2. ScanTypes /\ onSale \in Seq(Scan!Listings)
      /\ \A k, m \in DOMAIN onSale : onSale[k] = onSale[m] => k = m
  BY DEF ScanInv, ScanTypes
<1>3. PICK t : t = onSale'
  OBVIOUS
<1>4. \A k \in DOMAIN onSale : onSale[k] # l
  BY <1>1
<1>5. t \in Seq(Scan!Listings) /\ \A k, m \in DOMAIN t : t[k] = t[m] => k = m
  BY <1>1, <1>2, <1>3, <1>4, Inserted
<1>6. ScanTypes'
  BY <1>1, <1>2, <1>3, <1>5 DEF ScanTypes
<1>7. ScanReads'
  BY <1>1 DEF ScanInv, ScanReads, Scan!CountedOnce
<1>8. ScanShows'
  BY <1>1 DEF ScanInv, ScanShows, RowHolds, OnSaleOf, Deep, Scan!busiest_first
<1> QED
  BY <1>6, <1>7, <1>8 DEF ScanInv

LEMMA NftsScanned == ScanInv /\ Scan!scanNfts => ScanInv'
<1> SUFFICES ASSUME ScanInv, Scan!scanNfts PROVE ScanInv'
  OBVIOUS
<1>1. /\ scanPc = "idle" /\ scanPc' = "choose"
      /\ UNCHANGED <<onSale, offered, scanQuiet, pages, read_pages, read, file, allow, before>>
  BY DEF Scan!scanNfts, Scan!world
<1>2. PICK answered \in SUBSET Candidates :
        nfts' \in {s \in Scan!SetToSeqs({c \in answered : Scan!deep(c)}) : Scan!busiest_first(s)}
  BY DEF Scan!scanNfts
<1>3. PICK D : D = {c \in answered : Scan!deep(c)}
  OBVIOUS
<1>4. nfts' \in [1..Scan!Cardinality(D) -> D] /\ Scan!busiest_first(nfts')
  BY <1>2, <1>3 DEF Scan!SetToSeqs
<1>5. \A i \in DOMAIN nfts' : Volume[nfts'[i]] >= MinVolume
  BY <1>3, <1>4 DEF Scan!deep
<1>6. Deep(nfts')
  BY <1>4, <1>5 DEF Deep
<1> QED
  BY <1>1, <1>6 DEF ScanInv, ScanTypes, ScanReads, ScanShows, RowHolds, OnSaleOf,
                    Scan!CountedOnce, Deep, Scan!busiest_first

LEMMA ScanStarted == ScanInv /\ Scan!StartScan => ScanInv'
<1> SUFFICES ASSUME ScanInv, Scan!StartScan PROVE ScanInv'
  OBVIOUS
<1>1. scanPc = "choose" /\ UNCHANGED <<onSale, file, allow>>
  BY DEF Scan!StartScan
<1>2. ScanTypes /\ read = {} /\ read_pages = 0
  BY <1>1 DEF ScanInv, ScanReads
<1>3. CASE /\ scanPc' = "idle" /\ nfts' = << >>
           /\ UNCHANGED <<pages, read_pages, read, before, offered, scanQuiet>>
  <2>1. DOMAIN << >> = {} /\ Len(<< >>) = 0
    OBVIOUS
  <2>2. Deep(<< >>)
    BY <2>1 DEF Deep, Scan!busiest_first
  <2> QED
    BY <1>1, <1>3, <2>2 DEF ScanInv, ScanTypes, ScanReads, ScanShows, RowHolds, OnSaleOf,
                  Scan!CountedOnce, Deep, Scan!busiest_first
<1>4. CASE /\ pages' = Scan!Ceil(Len(onSale)) /\ read_pages' = 1
           /\ read' = {1} \X Scan!PageOf(1) /\ scanPc' = "cards"
           /\ before' = Scan!ToSet(onSale) /\ offered' = FALSE /\ scanQuiet' = TRUE
           /\ UNCHANGED nfts
  <2>1. before' = {onSale[i] : i \in DOMAIN onSale}
    BY <1>4, SameScan
  <2>2. PICK R : R = {1} \X Scan!PageOf(1)
    OBVIOUS
  <2>3. /\ IsFiniteSet(R)
        /\ \A x \in R : IsRead(x) /\ x = <<1, x[2]>> /\ x[2] \in Scan!PageOf(1)
        /\ \A l \in Scan!PageOf(1) : <<1, l>> \in R
    <3>1. 1 \in Nat \ {0}
      OBVIOUS
    <3> QED
      BY <1>2, <2>2, <3>1, PageOfCards
  <2>4. PICK P : P = Scan!PageOf(1)
    OBVIOUS
  <2>5. /\ \A l \in P : \E k \in DOMAIN onSale : (1 - 1) * PageSize < k /\ k <= 1 * PageSize /\ l = onSale[k]
        /\ \A k \in DOMAIN onSale : (1 - 1) * PageSize < k /\ k <= 1 * PageSize => onSale[k] \in P
    BY <1>2, <2>4, PageHas
  <2>6. /\ (1 - 1) * PageSize = 0 /\ 1 * PageSize = PageSize /\ PageSize \in Nat
        /\ \A k \in DOMAIN onSale : k \in Nat /\ k >= 1 /\ onSale[k] \in Scan!Listings
    BY <1>2, PagesAssumption DEF ScanTypes
  <2>7. ScanTypes'
    <3>1. before' \subseteq Scan!Listings
      BY <2>1, <2>6
    <3> QED
      BY <1>1, <1>2, <1>4, <2>2, <2>3, <3>1 DEF ScanTypes
  <2>8. \A x \in R : x[2] \in before' /\ \A y \in R : x[2] = y[2] => x = y
    BY <2>1, <2>3, <2>4, <2>5
  <2>9. ASSUME NEW i \in DOMAIN onSale, i > PageSize, NEW x \in R PROVE x[2] # onSale[i]
    <3>1. x[2] \in P
      BY <2>3, <2>4
    <3>2. PICK k \in DOMAIN onSale : k <= PageSize /\ x[2] = onSale[k]
      BY <2>5, <2>6, <3>1
    <3>3. i # k
      BY <2>6, <2>9, <3>2
    <3> QED
      BY <1>2, <3>2, <3>3 DEF ScanTypes
  <2>10. ASSUME NEW i \in DOMAIN onSale, i <= PageSize PROVE \E x \in R : x[2] = onSale[i]
    <3>1. <<1, onSale[i]>> \in R
      BY <2>3, <2>4, <2>5, <2>6, <2>10
    <3> QED
      BY <3>1
  <2>11. ScanReads'
    BY <1>1, <1>4, <2>1, <2>2, <2>6, <2>8, <2>9, <2>10
       DEF ScanReads, Scan!CountedOnce, Scan!Ceil
  <2>12. ScanShows'
    BY <1>1, <1>4 DEF ScanInv, ScanShows, Deep, Scan!busiest_first
  <2> QED
    BY <2>7, <2>11, <2>12 DEF ScanInv
<1> QED
  BY <1>3, <1>4 DEF Scan!StartScan

LEMMA PageScanned == ScanInv /\ Scan!NextPage => ScanInv'
<1> SUFFICES ASSUME ScanInv, Scan!NextPage PROVE ScanInv'
  OBVIOUS
<1>1. /\ scanPc = "cards" /\ read_pages' = read_pages + 1
      /\ read' = read \cup ({read_pages'} \X Scan!PageOf(read_pages'))
      /\ UNCHANGED <<onSale, offered, scanQuiet, pages, nfts, scanPc, file, allow, before>>
  BY DEF Scan!NextPage, Scan!world
<1>2. /\ ScanTypes /\ read_pages \in Nat /\ onSale \in Seq(Scan!Listings)
      /\ \A i, j \in DOMAIN onSale : onSale[i] = onSale[j] => i = j
  BY DEF ScanInv, ScanTypes
<1>3. PICK n, p : n = read_pages /\ p = read_pages'
  OBVIOUS
<1>4. /\ p \in Nat \ {0} /\ p = n + 1 /\ n \in Nat /\ p - 1 = n /\ PageSize \in Nat
      /\ p * PageSize = n * PageSize + PageSize /\ n * PageSize \in Nat
  <2>1. n \in Nat /\ p = n + 1 /\ PageSize \in Nat
    BY <1>1, <1>2, <1>3, PagesAssumption
  <2>2. (n + 1) * PageSize = n * PageSize + PageSize /\ n * PageSize \in Nat
    BY <2>1
  <2> QED
    BY <2>1, <2>2
<1>5. PICK P, R : P = Scan!PageOf(p) /\ R = {p} \X Scan!PageOf(p)
  OBVIOUS
<1>6. /\ \A l \in P : \E k \in DOMAIN onSale : (p - 1) * PageSize < k /\ k <= p * PageSize /\ l = onSale[k]
      /\ \A k \in DOMAIN onSale : (p - 1) * PageSize < k /\ k <= p * PageSize => onSale[k] \in P
  BY <1>2, <1>5, PageHas
<1>7. /\ IsFiniteSet(R)
      /\ \A x \in R : IsRead(x) /\ x = <<p, x[2]>> /\ x[2] \in Scan!PageOf(p)
      /\ \A l \in Scan!PageOf(p) : <<p, l>> \in R
  BY <1>2, <1>4, <1>5, PageOfCards
<1>8. read' = read \cup R
  BY <1>1, <1>3, <1>5
<1>9. ScanTypes'
  <2>1. IsFiniteSet(read \cup R)
    BY <1>2, <1>7, FS_Union DEF ScanTypes
  <2> QED
    BY <1>1, <1>2, <1>3, <1>4, <1>7, <1>8, <2>1 DEF ScanTypes
<1>10. \A k \in DOMAIN onSale : k \in Int
  BY <1>2
<1>11. ASSUME ~offered
       PROVE  /\ \A x \in read' : x[2] \in before /\ \A y \in read' : x[2] = y[2] => x = y
              /\ \A i \in DOMAIN onSale :
                   onSale[i] \in before /\ (i > p * PageSize => \A x \in read' : x[2] # onSale[i])
  <2>1. /\ \A x \in read : x[2] \in before /\ \A y \in read : x[2] = y[2] => x = y
        /\ \A i \in DOMAIN onSale :
             onSale[i] \in before /\ (i > n * PageSize => \A x \in read : x[2] # onSale[i])
    BY <1>1, <1>3, <1>11 DEF ScanInv, ScanReads, Scan!CountedOnce
  <2>2. \A x \in R : \E k \in DOMAIN onSale : n * PageSize < k /\ k <= p * PageSize /\ x[2] = onSale[k]
    BY <1>4, <1>5, <1>6, <1>7
  <2>3. \A x \in R : x[2] \in before /\ \A y \in read : x[2] # y[2]
    <3> SUFFICES ASSUME NEW x \in R PROVE x[2] \in before /\ \A y \in read : x[2] # y[2]
      OBVIOUS
    <3>1. PICK k \in DOMAIN onSale : n * PageSize < k /\ x[2] = onSale[k]
      BY <2>2
    <3>2. k > n * PageSize
      BY <1>4, <1>10, <3>1
    <3> QED
      BY <2>1, <3>1, <3>2
  <2>4. \A x, y \in R : x[2] = y[2] => x = y
    BY <1>7
  <2>5. \A x \in read' : x[2] \in before /\ \A y \in read' : x[2] = y[2] => x = y
    BY <1>8, <2>1, <2>3, <2>4
  <2>6. ASSUME NEW i \in DOMAIN onSale, i > p * PageSize, NEW x \in read' PROVE x[2] # onSale[i]
    <3>1. i > n * PageSize
      BY <1>4, <1>10, <2>6
    <3>2. CASE x \in read
      BY <2>1, <3>1, <3>2
    <3>3. CASE x \in R
      <4>1. PICK k \in DOMAIN onSale : k <= p * PageSize /\ x[2] = onSale[k]
        BY <2>2, <3>3
      <4>2. i # k
        BY <1>4, <1>10, <2>6, <4>1
      <4> QED
        BY <1>2, <4>1, <4>2
    <3> QED
      BY <1>8, <3>2, <3>3
  <2> QED
    BY <2>1, <2>5, <2>6
<1>12. ASSUME scanQuiet
       PROVE  /\ ~offered /\ pages = Scan!Ceil(Len(onSale)) /\ before = {onSale[i] : i \in DOMAIN onSale}
              /\ \A i \in DOMAIN onSale : i <= p * PageSize => \E x \in read' : x[2] = onSale[i]
  <2>1. /\ ~offered /\ pages = Scan!Ceil(Len(onSale)) /\ before = {onSale[i] : i \in DOMAIN onSale}
        /\ \A i \in DOMAIN onSale : i <= n * PageSize => \E x \in read : x[2] = onSale[i]
    BY <1>1, <1>3, <1>12 DEF ScanInv, ScanReads
  <2>2. ASSUME NEW i \in DOMAIN onSale, i <= p * PageSize PROVE \E x \in read' : x[2] = onSale[i]
    <3>1. CASE i <= n * PageSize
      BY <1>8, <2>1, <3>1
    <3>2. CASE n * PageSize < i
      <4>1. <<p, onSale[i]>> \in read'
        BY <1>4, <1>5, <1>6, <1>7, <1>8, <2>2, <3>2
      <4> QED
        BY <4>1
    <3> QED
      BY <1>4, <1>10, <3>1, <3>2
  <2> QED
    BY <2>1, <2>2
<1>13. ScanReads'
  BY <1>1, <1>3, <1>11, <1>12 DEF ScanReads, Scan!CountedOnce, Scan!Ceil
<1>14. ScanShows'
  BY <1>1 DEF ScanInv, ScanShows, RowHolds, OnSaleOf, Deep, Scan!busiest_first
<1> QED
  BY <1>9, <1>13, <1>14 DEF ScanInv

LEMMA PageSkipped == ScanInv /\ Scan!SkipPage => ScanInv'
<1> SUFFICES ASSUME ScanInv, Scan!SkipPage PROVE ScanInv'
  OBVIOUS
<1>1. /\ scanPc = "cards" /\ read_pages' = read_pages + 1 /\ scanQuiet' = FALSE
      /\ UNCHANGED <<onSale, offered, pages, read, nfts, scanPc, file, allow, before>>
  BY DEF Scan!SkipPage
<1>2. ScanTypes /\ read_pages \in Nat /\ onSale \in Seq(Scan!Listings)
  BY DEF ScanInv, ScanTypes
<1>3. ScanTypes'
  BY <1>1, <1>2 DEF ScanTypes
<1>4. PICK n, p : n = read_pages /\ p = read_pages'
  OBVIOUS
<1>5. p * PageSize = n * PageSize + PageSize /\ n * PageSize \in Nat /\ PageSize \in Nat
  <2>1. n \in Nat /\ p = n + 1 /\ PageSize \in Nat
    BY <1>1, <1>2, <1>4, PagesAssumption
  <2>2. (n + 1) * PageSize = n * PageSize + PageSize /\ n * PageSize \in Nat
    BY <2>1
  <2> QED
    BY <2>1, <2>2
<1>6. \A i \in DOMAIN onSale : i > p * PageSize => i > n * PageSize
  <2>1. \A i \in DOMAIN onSale : i \in Int
    BY <1>2
  <2> QED
    BY <1>5, <2>1
<1>7. ScanReads'
  BY <1>1, <1>4, <1>6 DEF ScanInv, ScanReads, Scan!CountedOnce
<1>8. ScanShows'
  BY <1>1 DEF ScanInv, ScanShows, RowHolds, OnSaleOf, Deep, Scan!busiest_first
<1> QED
  BY <1>3, <1>7, <1>8 DEF ScanInv

(* The listings read of a card are as many as the listings they show, and  *)
(* counted by price alike.                                                 *)
LEMMA CountedBy ==
  ASSUME NEW s, \A x \in s : x[2] \in Scan!Listings, \A x, y \in s : x[2] = y[2] => x = y,
         NEW A, A = {x[2] : x \in s}
  PROVE  IsFiniteSet(A) /\ Cardinality(s) = Cardinality(A)
<1>1. A \subseteq Scan!Listings
  OBVIOUS
<1>2. IsFiniteSet(A)
  BY <1>1, ListingsAre, FS_Subset
<1>3. PICK f : f = [x \in s |-> x[2]]
  OBVIOUS
<1>4. f \in [s -> A] /\ \A x \in s : f[x] = x[2]
  BY <1>3
<1>5. (\A x, y \in s : f[x] = f[y] => x = y) /\ \A a \in A : \E x \in s : f[x] = a
  BY <1>4
<1> QED
  BY <1>2, <1>4, <1>5, SameSize

LEMMA ScanEnded == ScanInv /\ Scan!ScanEnds => ScanInv'
<1> SUFFICES ASSUME ScanInv, Scan!ScanEnds PROVE ScanInv'
  OBVIOUS
<1>1. /\ scanPc = "cards" /\ read_pages >= pages /\ file' = <<Scan!rows>> /\ scanPc' = "emit"
      /\ UNCHANGED <<onSale, offered, scanQuiet, pages, read_pages, read, nfts, allow, before>>
  BY DEF Scan!ScanEnds, Scan!world
<1>2. /\ ScanTypes /\ IsFiniteSet(read) /\ (\A x \in read : IsRead(x))
      /\ before \subseteq Scan!Listings /\ IsFiniteSet(before)
  BY ListingsAre, FS_Subset DEF ScanInv, ScanTypes
<1>3. PICK rows : rows = Scan!rows
  OBVIOUS
<1>4. /\ DOMAIN rows = {Group[x[2]] : x \in read}
      /\ \A c \in DOMAIN rows : rows[c] = Scan!row(c)
      /\ file' # << >> /\ file'[1] = rows
  BY <1>1, <1>3 DEF Scan!rows
<1>5. ASSUME NEW c \in DOMAIN rows
      PROVE  Scan!prices_of(c) # {} /\ RowOf(Scan!prices_of(c), rows[c])
  <2>1. PICK s : s = Scan!prices_of(c)
    OBVIOUS
  <2>2. s # {}
    BY <1>4, <2>1 DEF Scan!prices_of
  <2>3. RowOf(s, Scan!row(c))
    BY <1>2, <2>1, <2>2, RowIs
  <2> QED
    BY <1>4, <2>1, <2>2, <2>3
<1>6. ASSUME ~offered, NEW c \in DOMAIN rows
      PROVE  RowHolds(c, rows[c])
  <2>1. PICK s, A, B : /\ s = Scan!prices_of(c) /\ A = {x[2] : x \in s}
                       /\ B = {l \in before : Group[l] = c}
    OBVIOUS
  <2>2. PICK lo, mid \in s :
          /\ rows[c] = [listings |-> Cardinality(s), floor |-> Price[lo[2]], median |-> Price[mid[2]]]
          /\ \A x \in s : Price[lo[2]] <= Price[x[2]]
    BY <1>5, <2>1 DEF RowOf
  <2>3. s \subseteq read /\ \A x \in s : x[2] \in Scan!Listings /\ Price[x[2]] \in Int
    BY <1>2, <2>1, ListingsAre DEF Scan!prices_of, IsRead
  <2>4. /\ \A x \in s : x[2] \in before /\ Group[x[2]] = c
        /\ \A x, y \in s : x[2] = y[2] => x = y
    BY <1>6, <2>1, <2>3 DEF ScanInv, ScanReads, Scan!CountedOnce, Scan!prices_of
  <2>5. IsFiniteSet(A) /\ Cardinality(s) = Cardinality(A)
    BY <2>1, <2>3, <2>4, CountedBy
  <2>6. A \subseteq B /\ IsFiniteSet(B)
    BY <1>2, <2>1, <2>4, FS_Subset
  <2>7. Cardinality(A) <= Cardinality(B) /\ Cardinality(A) \in Nat
    BY <2>5, <2>6, FS_Subset, FS_CardinalityType
  <2> QED
    BY <2>1, <2>2, <2>3, <2>5, <2>7 DEF RowHolds, OnSaleOf
<1>7. ASSUME scanQuiet, NEW c \in Scan!Cards, NEW B, B = {l \in before : Group[l] = c}
      PROVE  /\ (c \in DOMAIN rows) <=> (B # {})
             /\ B # {} =>
                  /\ rows[c].listings = Cardinality(B)
                  /\ \E l \in B : Price[l] = rows[c].floor
                  /\ \A l \in B : rows[c].floor <= Price[l]
                  /\ \E l \in B : Price[l] = rows[c].median
                  /\ 2 * Cardinality({l \in B : Price[l] < rows[c].median}) <= rows[c].listings
                  /\ 2 * Cardinality({l \in B : Price[l] > rows[c].median}) <= rows[c].listings
  <2>1. /\ ~offered /\ pages = Scan!Ceil(Len(onSale)) /\ before = {onSale[i] : i \in DOMAIN onSale}
        /\ \A i \in DOMAIN onSale : i <= read_pages * PageSize => \E x \in read : x[2] = onSale[i]
    BY <1>1, <1>7 DEF ScanInv, ScanReads
  <2>2. \A i \in DOMAIN onSale : i <= read_pages * PageSize
    <3>1. PICK n, p, z : n = Len(onSale) /\ p = read_pages /\ z = PageSize
      OBVIOUS
    <3>2. n \in Nat /\ p \in Nat /\ z \in Nat \ {0} /\ p >= (n + z - 1) \div z
      BY <1>1, <1>2, <2>1, <3>1, PagesAssumption DEF ScanTypes, Scan!Ceil
    <3>3. n <= p * z
      <4>1. PICK a, q : a = n + z - 1 /\ q = (n + z - 1) \div z
        OBVIOUS
      <4>2. a \in Nat
        BY <3>2, <4>1
      <4>3. q \in Nat /\ z * q <= a /\ a < z * q + z
        BY <3>2, <4>1, <4>2, DivBound
      <4>4. q * z <= p * z /\ q * z = z * q /\ p * z \in Int
        <5>1. q <= p
          BY <3>2, <4>1
        <5>2. q * z <= p * z
          BY <3>2, <4>3, <5>1, MulMono
        <5> QED
          BY <3>2, <4>3, <5>2
      <4>5. z * q \in Int
        BY <3>2, <4>3
      <4> QED
        BY <3>2, <4>1, <4>3, <4>4, <4>5
    <3>4. \A i \in DOMAIN onSale : i \in Int /\ i <= n
      BY <1>2, <3>1 DEF ScanTypes
    <3>5. p * z \in Int
      BY <3>2
    <3> QED
      BY <3>1, <3>2, <3>3, <3>4, <3>5
  <2>3. /\ \A l \in before : \E x \in read : x[2] = l
        /\ \A x \in read : x[2] \in before
        /\ \A x, y \in read : x[2] = y[2] => x = y
    <3>1. \A x \in read : x[2] \in before /\ \A y \in read : x[2] = y[2] => x = y
      BY <2>1 DEF ScanInv, ScanReads, Scan!CountedOnce
    <3> QED
      BY <2>1, <2>2, <3>1
  <2>4. PICK s : s = Scan!prices_of(c)
    OBVIOUS
  <2>5. s = {x \in read : x[2] \in B} /\ B = {x[2] : x \in s} /\ (s # {} <=> B # {})
    BY <1>7, <2>3, <2>4 DEF Scan!prices_of
  <2>6. c \in DOMAIN rows <=> s # {}
    BY <1>4, <2>4 DEF Scan!prices_of
  <2>7. \A x \in s : x[2] \in Scan!Listings
    BY <1>2, <2>5 DEF IsRead
  <2>8. ASSUME B # {}
        PROVE  /\ rows[c].listings = Cardinality(B)
               /\ \E l \in B : Price[l] = rows[c].floor
               /\ \A l \in B : rows[c].floor <= Price[l]
               /\ \E l \in B : Price[l] = rows[c].median
               /\ 2 * Cardinality({l \in B : Price[l] < rows[c].median}) <= rows[c].listings
               /\ 2 * Cardinality({l \in B : Price[l] > rows[c].median}) <= rows[c].listings
    <3>1. RowOf(s, rows[c])
      BY <1>5, <2>4, <2>5, <2>6, <2>8
    <3>2. PICK lo, mid \in s :
            /\ rows[c] = [listings |-> Cardinality(s), floor |-> Price[lo[2]], median |-> Price[mid[2]]]
            /\ \A x \in s : Price[lo[2]] <= Price[x[2]]
            /\ 2 * Cardinality({x \in s : Price[x[2]] < Price[mid[2]]}) <= Cardinality(s)
            /\ 2 * Cardinality({x \in s : Price[x[2]] > Price[mid[2]]}) <= Cardinality(s)
      BY <3>1 DEF RowOf
    <3>3. PICK m : m = Price[mid[2]]
      OBVIOUS
    <3>4. \A x, y \in s : x[2] = y[2] => x = y
      BY <2>3, <2>5
    <3>5. Cardinality(s) = Cardinality(B)
      BY <2>5, <2>7, <3>4, CountedBy
    <3>6. Cardinality({x \in s : Price[x[2]] < m}) = Cardinality({l \in B : Price[l] < m})
      <4>1. PICK t, A : t = {x \in s : Price[x[2]] < m} /\ A = {l \in B : Price[l] < m}
        OBVIOUS
      <4>2. /\ A = {x[2] : x \in t} /\ \A x \in t : x[2] \in Scan!Listings
            /\ \A x, y \in t : x[2] = y[2] => x = y
        BY <2>5, <2>7, <3>4, <4>1
      <4>3. Cardinality(t) = Cardinality(A)
        BY <4>2, CountedBy
      <4> QED
        BY <4>1, <4>3
    <3>7. Cardinality({x \in s : Price[x[2]] > m}) = Cardinality({l \in B : Price[l] > m})
      <4>1. PICK t, A : t = {x \in s : Price[x[2]] > m} /\ A = {l \in B : Price[l] > m}
        OBVIOUS
      <4>2. /\ A = {x[2] : x \in t} /\ \A x \in t : x[2] \in Scan!Listings
            /\ \A x, y \in t : x[2] = y[2] => x = y
        BY <2>5, <2>7, <3>4, <4>1
      <4>3. Cardinality(t) = Cardinality(A)
        BY <4>2, CountedBy
      <4> QED
        BY <4>1, <4>3
    <3>8. lo[2] \in B /\ mid[2] \in B /\ \A l \in B : \E x \in s : x[2] = l
      BY <2>5
    <3>9. /\ rows[c].listings = Cardinality(s) /\ rows[c].floor = Price[lo[2]]
          /\ rows[c].median = m
      BY <3>2, <3>3
    <3> QED
      BY <3>2, <3>3, <3>5, <3>6, <3>7, <3>8, <3>9
  <2> QED
    BY <2>5, <2>6, <2>8
<1>8. scanQuiet => \A c \in Scan!Cards : Exact({l \in before : Group[l] = c}, rows, c)
  BY <1>7 DEF Exact
<1>9. ScanTypes' /\ ScanReads'
  BY <1>1 DEF ScanInv, ScanTypes, ScanReads, Scan!CountedOnce
<1>10. ScanShows'
  BY <1>1, <1>4, <1>6, <1>8 DEF ScanInv, ScanShows, RowHolds, OnSaleOf, Deep, Scan!busiest_first
<1> QED
  BY <1>9, <1>10 DEF ScanInv

LEMMA ScanReused == ScanInv /\ Scan!ReuseScan => ScanInv'
<1> SUFFICES ASSUME ScanInv, Scan!ReuseScan PROVE ScanInv'
  OBVIOUS
<1>1. /\ scanPc = "choose" /\ file # << >> /\ scanPc' = "emit"
      /\ UNCHANGED <<onSale, offered, scanQuiet, pages, read_pages, read, nfts, file, allow, before>>
  BY DEF Scan!ReuseScan, Scan!world
<1>2. ScanTypes'
  BY <1>1 DEF ScanInv, ScanTypes
<1>3. ScanReads'
  BY <1>1 DEF ScanInv, ScanReads, Scan!CountedOnce
<1>4. ~ (read_pages' > 0)
  <2>1. read_pages' = 0
    BY <1>1 DEF ScanInv, ScanReads
  <2> QED
    BY <2>1
<1>5. ScanShows'
  <2>1. ~offered => \A c \in DOMAIN file[1] : RowHolds(c, file[1][c])
    BY <1>1 DEF ScanInv, ScanShows
  <2>2. ~offered' => \A c \in DOMAIN file'[1] : RowHolds(c, file[1][c])'
    BY <1>1, <2>1 DEF RowHolds, OnSaleOf
  <2>3. Deep(nfts)' /\ Deep(allow.nfts)'
    BY <1>1 DEF ScanInv, ScanShows, Deep, Scan!busiest_first
  <2> QED
    BY <1>1, <1>4, <2>2, <2>3 DEF ScanShows
<1> QED
  BY <1>2, <1>3, <1>5 DEF ScanInv

LEMMA ListEmitted == ScanInv /\ Scan!Emit => ScanInv'
<1> SUFFICES ASSUME ScanInv, Scan!Emit PROVE ScanInv'
  OBVIOUS
<1>1. /\ scanPc = "emit" /\ scanPc' = "idle" /\ nfts' = << >> /\ read' = {} /\ read_pages' = 0
      /\ UNCHANGED <<onSale, offered, scanQuiet, file, before>>
      /\ allow'.nfts = nfts
      /\ allow'.cards = [c \in {d \in DOMAIN file[1] : Scan!qualifies(file[1][d])} |-> file[1][c].median]
  BY DEF Scan!Emit, Scan!world
<1>2. ScanTypes'
  BY <1>1, FS_EmptySet DEF ScanInv, ScanTypes
<1>3. ScanReads'
  BY <1>1 DEF ScanReads, Scan!CountedOnce
<1>4. ASSUME ~offered, NEW c \in DOMAIN allow'.cards
      PROVE  OnSaleOf(c) >= MinListings /\ allow'.cards[c] >= MinFloorUsd
  <2>1. PICK r : r = file[1][c]
    OBVIOUS
  <2>2. /\ c \in DOMAIN file[1] /\ r.listings >= MinListings /\ r.floor >= MinFloorUsd
        /\ allow'.cards[c] = r.median
    BY <1>1, <2>1 DEF Scan!qualifies
  <2>3. RowHolds(c, r)
    BY <1>1, <1>4, <2>1, <2>2 DEF ScanInv, ScanShows
  <2>4. OnSaleOf(c) \in Int
    <3>1. IsFiniteSet({l \in before : Group[l] = c})
      BY ListingsAre, FS_Subset DEF ScanInv, ScanTypes
    <3> QED
      BY <3>1, FS_CardinalityType DEF OnSaleOf
  <2> QED
    BY <2>2, <2>3, <2>4, CatalogAssumption DEF RowHolds
<1>5. DOMAIN << >> = {} /\ Len(<< >>) = 0
  OBVIOUS
<1>6. Deep(<< >>) /\ Deep(nfts)
  BY <1>5 DEF Deep, Scan!busiest_first, ScanInv, ScanShows
<1>7. ScanShows'
  BY <1>1, <1>4, <1>6 DEF ScanInv, ScanShows, RowHolds, OnSaleOf, Deep, Scan!busiest_first
<1> QED
  BY <1>2, <1>3, <1>7 DEF ScanInv

LEMMA ScanSteps == ScanInv /\ [Scan!Next]_scanVars => ScanInv'
<1> SUFFICES ASSUME ScanInv, Scan!Next \/ UNCHANGED scanVars PROVE ScanInv'
  OBVIOUS
<1>1. CASE UNCHANGED scanVars
  <2>1. UNCHANGED <<onSale, pages, read_pages, read, nfts, scanPc, file, allow, before, offered, scanQuiet>>
    BY <1>1 DEF scanVars
  <2>2. ScanTypes'
    BY <2>1 DEF ScanInv, ScanTypes
  <2>3. ScanReads'
    BY <2>1 DEF ScanInv, ScanReads, Scan!CountedOnce
  <2>4. ScanShows'
    BY <2>1 DEF ScanInv, ScanShows, RowHolds, OnSaleOf, Deep, Scan!busiest_first
  <2> QED
    BY <2>2, <2>3, <2>4 DEF ScanInv
<1>2. CASE Scan!Next
  BY <1>2, CardSold, CardOffered, NftsScanned, ScanStarted, PageScanned, PageSkipped, ScanEnded,
     ScanReused, ListEmitted DEF Scan!Next
<1> QED
  BY <1>1, <1>2

LEMMA ExactIs ==
  ASSUME scanPc = "emit" /\ scanQuiet /\ read_pages > 0 =>
           \A c \in Scan!Cards : Exact({l \in before : Group[l] = c}, file[1], c)
  PROVE  Scan!QuietAllowlistExact
  BY SameScan DEF Scan!QuietAllowlistExact, Exact

LEMMA AllowlistTrue ==
  ScanInv => Scan!CountedOnce /\ Scan!QuietAllowlistExact /\ Scan!AllowlistIsDeep
<1> SUFFICES ASSUME ScanInv
             PROVE  Scan!CountedOnce /\ Scan!QuietAllowlistExact /\ Scan!AllowlistIsDeep
  OBVIOUS
<1>1. Scan!CountedOnce /\ Scan!QuietAllowlistExact
  BY ExactIs DEF ScanInv, ScanReads, ScanShows
<1>2. Scan!AllowlistIsDeep
  BY SameScan DEF ScanInv, ScanShows, Scan!AllowlistIsDeep, OnSaleOf, Deep
<1> QED
  BY <1>1, <1>2

-----------------------------------------------------------------------------
(* Lists read page by page while tokens, collectibles and cards move.      *)

PagesInv ==
  /\ part = "holders" => HolderInv
  /\ part = "wallet" => WalletInv
  /\ ScanInv

LEMMA PagesSteps ==
  /\ PagesInv
  /\ [ViewsNext]_<<part, vars, hookVars, candleVars, holderVars, walletVars, scanVars, saleVars>>
  => PagesInv'
<1> SUFFICES ASSUME PagesInv,
                    [ViewsNext]_<<part, vars, hookVars, candleVars, holderVars, walletVars, scanVars, saleVars>>
             PROVE  PagesInv'
  OBVIOUS
<1>1. /\ part' = part
      /\ (part = "holders" /\ Holder!Next) \/ UNCHANGED holderVars
      /\ (part = "wallet" /\ Wallet!Next) \/ UNCHANGED walletVars
      /\ (part = "scan" /\ Scan!Next) \/ UNCHANGED scanVars
  BY DEF ViewsNext
<1> QED
  BY <1>1, HolderSteps, WalletSteps, ScanSteps DEF PagesInv

(* Whatever moves between two pages and whichever page fails, no holder is *)
(* shown with more than it held and no vault at all, an underlying only if *)
(* the wallet had it, and no card deeper than it was unless offers shift   *)
(* the pages; and what was read while nothing moved is complete. For any   *)
(* accounts, assets and listings that fit the pages.                       *)
THEOREM PagedReadsAreTrue == ViewsSpec => []PagedAnswersTrue
<1>1. ViewsInit => PagesInv
  BY HolderStarts, WalletStarts, ScanStarts
     DEF ViewsInit, HolderInit, WalletInit, ScanInit, PagesInv
<1>2. PagesInv => PagedAnswersTrue
  BY HoldersTrue, HoldingsTrue, AllowlistTrue DEF PagesInv, PagedAnswersTrue
<1> QED
  BY <1>1, <1>2, PagesSteps, PTL DEF ViewsSpec

-----------------------------------------------------------------------------
(* Candles. The loop over the trades is a fold, a recursive function on    *)
(* the sets of their indexes, that takes the last index of a set last.     *)

LEMMA SameSwap ==
  /\ \A S : Swap!Cardinality(S) = Cardinality(S)
  /\ \A S : Swap!Max(S) = Max(S) /\ Swap!Min(S) = Min(S)
  /\ \A f, S : Swap!SumFunctionOnSet(f, S) = SumFunctionOnSet(f, S)
  BY DEF Swap!Cardinality, Cardinality, Swap!Max, Max, Swap!Min, Min,
         Swap!SumFunctionOnSet, Swap!FoldFunctionOnSet, Swap!MapThenFoldSet,
         SumFunctionOnSet, FoldFunctionOnSet, MapThenFoldSet

(* A trade opens its candle or updates it.                                 *)
Charted(cs, t) ==
  LET b == Swap!bucket(t) IN
  [k \in DOMAIN cs \cup {b} |->
     IF k # b THEN cs[k] ELSE IF b \in DOMAIN cs THEN Swap!updated(cs[b], t) ELSE Swap!opened(t)]

FoldTable(ts, S, g) ==
  g = [s \in SUBSET S |-> IF s = {} THEN << >> ELSE Charted(g[s \ {Max(s)}], ts[Max(s)])]
FoldOn(ts, S) == (CHOOSE g : FoldTable(ts, S, g))[S]

LEMMA BucketsAre == \A ts : Swap!Buckets(ts) = FoldOn(ts, DOMAIN ts)
  BY DEF Swap!Buckets, Swap!FoldLeft, Swap!MapThenFoldSet, Swap!Max, Max,
         FoldOn, FoldTable, Charted

(* The indexes of trades: finitely many numbers, one of which is last.     *)
Indexes(S) == \E n \in Nat : S \subseteq 1..n

LEMMA LastOf ==
  ASSUME NEW s, Indexes(s)
  PROVE  /\ IsFiniteSet(s) /\ Numbers(s) /\ \A u : u \subseteq s => Indexes(u)
         /\ s # {} => Max(s) \in s /\ s \ {Max(s)} \subseteq s /\ s \ {Max(s)} # s
         /\ \A x \in s : x <= Max(s)
<1>1. IsFiniteSet(s)
  <2>1. PICK n \in Nat : s \subseteq 1..n
    BY DEF Indexes
  <2>2. IsFiniteSet(1..n)
    BY FS_Interval
  <2> QED
    BY <2>1, <2>2, FS_Subset
<1>2. Numbers(s) /\ \A u : u \subseteq s => Indexes(u)
  <2>1. PICK n \in Nat : s \subseteq 1..n
    BY DEF Indexes
  <2>2. Numbers(s)
    BY <2>1 DEF Numbers
  <2>3. ASSUME NEW u, u \subseteq s PROVE Indexes(u)
    BY <2>1, <2>3 DEF Indexes
  <2> QED
    BY <2>2, <2>3
<1>3. s # {} => Max(s) \in s /\ \A x \in s : x <= Max(s)
  BY <1>1, <1>2, MaxOf
<1> QED
  BY <1>1, <1>2, <1>3

(* Two tables agree on the sets both are defined for.                      *)
LEMMA FoldsAgree ==
  ASSUME NEW T, Indexes(T), NEW S, S \subseteq T, NEW ts,
         NEW g, FoldTable(ts, S, g), NEW h, FoldTable(ts, T, h)
  PROVE  g[S] = h[S]
<1> DEFINE Bad == {u \in SUBSET S : g[u] # h[u]}
<1>1. SUFFICES ASSUME Bad # {} PROVE FALSE
  OBVIOUS
<1>2. IsFiniteSet(S)
  BY LastOf
<1>3. PICK u \in Bad : \A v \in SUBSET S : v \subseteq u /\ v # u => v \notin Bad
  <2> HIDE DEF Bad
  <2>1. Bad \in SUBSET SUBSET S
    BY DEF Bad
  <2> QED
    BY <1>1, <1>2, <2>1, SmallestSubset
<1>4. u \in SUBSET S /\ u \in SUBSET T /\ Indexes(u) /\ g[u] # h[u]
  BY <1>3, LastOf
<1>5. g[u] = IF u = {} THEN << >> ELSE Charted(g[u \ {Max(u)}], ts[Max(u)])
  BY <1>4 DEF FoldTable
<1>6. h[u] = IF u = {} THEN << >> ELSE Charted(h[u \ {Max(u)}], ts[Max(u)])
  BY <1>4 DEF FoldTable
<1>7. u # {}
  BY <1>4, <1>5, <1>6
<1>8. g[u \ {Max(u)}] = h[u \ {Max(u)}]
  BY <1>3, <1>4, <1>7, LastOf
<1> QED
  BY <1>4, <1>5, <1>6, <1>7, <1>8

(* Every set of indexes has a table.                                       *)
LEMMA FoldExists ==
  ASSUME NEW S, Indexes(S), NEW ts
  PROVE  \E g : FoldTable(ts, S, g)
<1> DEFINE Bad == {u \in SUBSET S : ~ \E g : FoldTable(ts, u, g)}
<1>1. SUFFICES ASSUME Bad # {} PROVE FALSE
  OBVIOUS
<1>2. PICK T \in Bad : \A u \in SUBSET S : u \subseteq T /\ u # T => u \notin Bad
  <2> HIDE DEF Bad
  <2>1. Bad \in SUBSET SUBSET S /\ IsFiniteSet(S)
    BY LastOf DEF Bad
  <2> QED
    BY <1>1, <2>1, SmallestSubset
<1>3. T \in SUBSET S /\ Indexes(T) /\ ~ \E g : FoldTable(ts, T, g)
  BY <1>2, LastOf
<1>4. \A u \in SUBSET T : u # T => FoldTable(ts, u, CHOOSE g : FoldTable(ts, u, g))
  <2> SUFFICES ASSUME NEW u \in SUBSET T, u # T
               PROVE  FoldTable(ts, u, CHOOSE g : FoldTable(ts, u, g))
    OBVIOUS
  <2>1. \E g : FoldTable(ts, u, g)
    BY <1>2, <1>3
  <2> QED
    BY <2>1
<1> DEFINE h == [s \in SUBSET T |->
                  IF s = {} THEN << >> ELSE Charted(FoldOn(ts, s \ {Max(s)}), ts[Max(s)])]
<1>5. \A u \in SUBSET T : u # T => FoldOn(ts, u) = h[u]
  <2> SUFFICES ASSUME NEW u \in SUBSET T, u # T
               PROVE  FoldOn(ts, u) = h[u]
    OBVIOUS
  <2> DEFINE g == CHOOSE g : FoldTable(ts, u, g)
             r == u \ {Max(u)}
             q == CHOOSE q : FoldTable(ts, r, q)
  <2>0. Indexes(u)
    BY <1>3, LastOf
  <2>1. FoldTable(ts, u, g)
    BY <1>4
  <2>2. g[u] = IF u = {} THEN << >> ELSE Charted(g[r], ts[Max(u)])
    <3> HIDE DEF g
    <3> QED
      BY <2>1 DEF FoldTable
  <2>3. CASE u = {}
    BY <2>2, <2>3 DEF FoldOn
  <2>4. CASE u # {}
    <3>1. r \in SUBSET T /\ r # T /\ r \subseteq u
      BY <2>0, <2>4, LastOf
    <3>2. FoldTable(ts, r, q)
      BY <1>4, <3>1
    <3>3. q[r] = g[r]
      <4> HIDE DEF q, g, r
      <4> QED
        BY <2>0, <2>1, <3>1, <3>2, FoldsAgree
    <3>4. FoldOn(ts, u) = Charted(FoldOn(ts, r), ts[Max(u)])
      BY <2>2, <2>4, <3>3 DEF FoldOn
    <3> QED
      BY <2>4, <3>4
  <2> QED
    BY <2>3, <2>4
<1>6. FoldTable(ts, T, h)
  <2>1. \A s \in SUBSET T : s # {} => FoldOn(ts, s \ {Max(s)}) = h[s \ {Max(s)}]
    <3> SUFFICES ASSUME NEW s \in SUBSET T, s # {}
                 PROVE  FoldOn(ts, s \ {Max(s)}) = h[s \ {Max(s)}]
      OBVIOUS
    <3> HIDE DEF h
    <3>1. s \ {Max(s)} \in SUBSET T /\ s \ {Max(s)} # T
      BY <1>3, LastOf
    <3> QED
      BY <1>5, <3>1
  <2>2. h = [s \in SUBSET T |-> IF s = {} THEN << >> ELSE Charted(h[s \ {Max(s)}], ts[Max(s)])]
    <3> DEFINE k == [s \in SUBSET T |->
                      IF s = {} THEN << >> ELSE Charted(h[s \ {Max(s)}], ts[Max(s)])]
    <3>1. \A s \in SUBSET T : h[s] = k[s]
      BY <2>1
    <3>2. DOMAIN h = DOMAIN k /\ h = [s \in DOMAIN h |-> h[s]] /\ k = [s \in DOMAIN k |-> k[s]]
      OBVIOUS
    <3> QED
      BY <3>1, <3>2
  <2> HIDE DEF h
  <2> QED
    BY <2>2 DEF FoldTable
<1> QED
  BY <1>3, <1>6

(* The loop: no candles before the first trade, and then each trade in     *)
(* turn charted on what the trades before it made.                         *)
LEMMA FoldUnfolds ==
  ASSUME NEW S, Indexes(S), NEW ts
  PROVE  FoldOn(ts, S) = IF S = {} THEN << >> ELSE Charted(FoldOn(ts, S \ {Max(S)}), ts[Max(S)])
<1> DEFINE g == CHOOSE g : FoldTable(ts, S, g)
           r == S \ {Max(S)}
           q == CHOOSE q : FoldTable(ts, r, q)
<1>1. FoldTable(ts, S, g)
  BY FoldExists
<1>2. g[S] = IF S = {} THEN << >> ELSE Charted(g[r], ts[Max(S)])
  <2> HIDE DEF g
  <2> QED
    BY <1>1 DEF FoldTable
<1>3. CASE S = {}
  BY <1>2, <1>3 DEF FoldOn
<1>4. CASE S # {}
  <2>1. r \subseteq S /\ Indexes(r)
    BY LastOf
  <2>2. FoldTable(ts, r, q)
    BY <2>1, FoldExists
  <2>3. q[r] = g[r]
    <3> HIDE DEF q, g, r
    <3> QED
      BY <1>1, <2>1, <2>2, FoldsAgree
  <2> QED
    BY <1>2, <1>4, <2>3 DEF FoldOn
<1> QED
  BY <1>3, <1>4

(* What the candle of the trades at the indexes in S is.                   *)
PoolTrade == [ts : Nat, side : {"buy", "sell"}, sol : Nat \ {0}, tokens : Nat \ {0}]
CandleTypes ==
  [open : PoolTrade, high : PoolTrade, low : PoolTrade, close : PoolTrade, volume : Nat, trades : Nat]
Sold(ts) == [n \in DOMAIN ts |-> ts[n].sol]
CandleOf(ts, S, c) ==
  /\ c \in CandleTypes
  /\ c.trades = Cardinality(S) /\ c.volume = SumOn(Sold(ts), S)
  /\ \A n \in S : ~Swap!Higher(ts[n], c.high) /\ ~Swap!Higher(c.low, ts[n])
  /\ c.open = ts[Min(S)] /\ c.close = ts[Max(S)]
  /\ \E n \in S : c.high = ts[n]
  /\ \E n \in S : c.low = ts[n]

(* Prices compare like numbers.                                            *)
LEMMA HigherOrders ==
  ASSUME NEW t \in PoolTrade, NEW u \in PoolTrade, NEW v \in PoolTrade
  PROVE  /\ ~Swap!Higher(t, t)
         /\ ~Swap!Higher(t, u) \/ ~Swap!Higher(u, t)
         /\ ~Swap!Higher(t, u) /\ Swap!Higher(v, u) => ~Swap!Higher(t, v)
         /\ ~Swap!Higher(u, t) /\ Swap!Higher(u, v) => ~Swap!Higher(v, t)
<1> DEFINE a == t.sol  b == t.tokens  c == u.sol  d == u.tokens  e == v.sol  f == v.tokens
<1>1. /\ a \in Nat \ {0} /\ b \in Nat \ {0} /\ c \in Nat \ {0}
      /\ d \in Nat \ {0} /\ e \in Nat \ {0} /\ f \in Nat \ {0}
  BY DEF PoolTrade
<1>2. \A x, y \in PoolTrade : Swap!Higher(x, y) <=> x.sol * y.tokens > y.sol * x.tokens
  BY DEF Swap!Higher
<1> HIDE DEF a, b, c, d, e, f
<1>3. a * d \in Nat /\ c * b \in Nat /\ a * f \in Nat /\ e * b \in Nat /\ c * f \in Nat /\ e * d \in Nat
  BY <1>1
<1>4. a * d <= c * b /\ e * d > c * f => a * f <= e * b
  <2> SUFFICES ASSUME a * d <= c * b, e * d > c * f, a * f > e * b PROVE FALSE
    BY <1>3
  <2>1. (a * d) * f <= (c * b) * f
    BY <1>1, <1>3, MulMono
  <2>2. (c * f) * b <= (e * d) * b
    BY <1>1, <1>3, MulMono
  <2>3. (e * b + 1) * d <= (a * f) * d
    BY <1>1, <1>3, MulMono
  <2> QED
    BY <1>1, <2>1, <2>2, <2>3, SMTT(30)
<1>5. c * b <= a * d /\ c * f > e * d => e * b <= a * f
  <2> SUFFICES ASSUME c * b <= a * d, c * f > e * d, e * b > a * f PROVE FALSE
    BY <1>3
  <2>1. (c * b) * f <= (a * d) * f
    BY <1>1, <1>3, MulMono
  <2>2. (e * d) * b <= (c * f) * b
    BY <1>1, <1>3, MulMono
  <2>3. (a * f + 1) * d <= (e * b) * d
    BY <1>1, <1>3, MulMono
  <2> QED
    BY <1>1, <2>1, <2>2, <2>3, SMTT(30)
<1>6. /\ Swap!Higher(t, u) <=> a * d > c * b
      /\ Swap!Higher(u, t) <=> c * b > a * d
      /\ Swap!Higher(v, u) <=> e * d > c * f
      /\ Swap!Higher(u, v) <=> c * f > e * d
      /\ Swap!Higher(t, v) <=> a * f > e * b
      /\ Swap!Higher(v, t) <=> e * b > a * f
      /\ ~Swap!Higher(t, t)
  BY <1>2 DEF a, b, c, d, e, f, PoolTrade
<1> QED
  BY <1>3, <1>4, <1>5, <1>6

(* The first and the last of some indexes.                                 *)
LEMMA EndsOf ==
  ASSUME NEW S, Indexes(S), NEW x \in S
  PROVE  /\ (\A y \in S : x <= y) => Min(S) = x
         /\ (\A y \in S : y <= x) => Max(S) = x
<1>1. \A y, z \in S : y \in Int /\ (y <= z /\ z <= y => y = z)
  BY LastOf DEF Numbers
<1>2. ASSUME \A y \in S : x <= y PROVE Min(S) = x
  <2>1. Min(S) \in S /\ \A y \in S : Min(S) <= y
    BY <1>2 DEF Min
  <2> QED
    BY <1>1, <1>2, <2>1
<1>3. ASSUME \A y \in S : y <= x PROVE Max(S) = x
  <2>1. \A y \in S : x >= y
    BY <1>1, <1>3
  <2>2. Max(S) \in S /\ \A y \in S : Max(S) >= y
    BY <2>1 DEF Max
  <2>3. x <= Max(S) /\ Max(S) <= x
    BY <1>1, <1>3, <2>2
  <2> QED
    BY <1>1, <2>2, <2>3
<1> QED
  BY <1>2, <1>3

LEMMA FirstOf ==
  ASSUME NEW S, Indexes(S), S # {}
  PROVE  Min(S) \in S /\ \A y \in S : Min(S) <= y
<1>1. IsFiniteSet(S) /\ Numbers(S)
  BY LastOf
<1>2. Cardinality(S) \in Nat /\ Cardinality(S) # 0
  BY <1>1, FS_CardinalityType, FS_EmptySet
<1>3. 1 \in 1..Cardinality(S)
  BY <1>2
<1>4. PICK i \in S : Rank(S, i) = 1
  BY <1>1, <1>3, NumbersRanked
<1>5. \A j \in S : Rank(S, j) \in 1..Cardinality(S) /\ (j <= i => Rank(S, j) <= 1)
  BY <1>1, <1>4, NumbersRanked
<1>6. \A j \in S : i <= j
  <2> SUFFICES ASSUME NEW j \in S, ~(i <= j) PROVE FALSE
    OBVIOUS
  <2>1. i \in Int /\ j \in Int
    BY <1>1 DEF Numbers
  <2>2. Rank(S, j) = 1
    BY <1>2, <1>5, <2>1
  <2>3. i = j
    BY <1>1, <1>4, <2>2, NumbersRanked
  <2> QED
    BY <2>1, <2>3
<1> QED
  BY <1>6, EndsOf

(* A trade opens a candle that is its own.                                 *)
LEMMA CandleOpens ==
  ASSUME NEW ts, NEW n, Indexes({n}), ts[n] \in PoolTrade, n \in DOMAIN ts
  PROVE  CandleOf(ts, {n}, Swap!opened(ts[n]))
<1> DEFINE t == ts[n]  c == Swap!opened(t)
<1>1. c = [open |-> t, high |-> t, low |-> t, close |-> t, volume |-> t.sol, trades |-> 1]
  BY DEF Swap!opened
<1>2. t.sol \in Nat
  BY DEF PoolTrade
<1>3. c \in CandleTypes
  BY <1>1, <1>2 DEF CandleTypes
<1>4. Cardinality({n}) = 1 /\ IsFiniteSet({n}) /\ IsFiniteSet({})
  BY FS_Singleton, FS_EmptySet
<1>5. SumOn(Sold(ts), {n}) = t.sol
  <2>1. Sold(ts)[n] = t.sol
    BY DEF Sold
  <2>2. SumOn(Sold(ts), {n}) = Sold(ts)[n] + SumOn(Sold(ts), {n} \ {n})
    BY <1>2, <1>4, <2>1, SumRemove
  <2>3. {n} \ {n} = {} /\ SumOn(Sold(ts), {}) = 0
    BY <1>4, SumZero
  <2> QED
    BY <1>2, <2>1, <2>2, <2>3
<1>6. n \in Int
  BY LastOf DEF Numbers
<1>7. Min({n}) = n /\ Max({n}) = n
  BY <1>6, EndsOf
<1>8. ~Swap!Higher(t, t)
  BY HigherOrders
<1> HIDE DEF t, c
<1>9. /\ c.trades = 1 /\ c.volume = t.sol /\ c.high = t /\ c.low = t /\ c.open = t /\ c.close = t
  BY <1>1
<1>10. ts[n] = t /\ Swap!opened(ts[n]) = c
  BY DEF t, c
<1> QED
  BY <1>3, <1>4, <1>5, <1>7, <1>8, <1>9, <1>10 DEF CandleOf

(* A later trade updates it to what it is with that trade.                 *)
LEMMA CandleUpdates ==
  ASSUME NEW ts, NEW S, NEW m, Indexes(S \cup {m}), S # {}, \A n \in S : n < m,
         m \in DOMAIN ts, \A n \in S \cup {m} : ts[n] \in PoolTrade /\ n \in DOMAIN ts,
         NEW c, CandleOf(ts, S, c)
  PROVE  CandleOf(ts, S \cup {m}, Swap!updated(c, ts[m]))
<1> DEFINE t == ts[m]
           d == Swap!updated(c, t)
           T == S \cup {m}
<1>1. /\ c \in CandleTypes /\ t \in PoolTrade
      /\ c.trades = Cardinality(S) /\ c.volume = SumOn(Sold(ts), S)
      /\ \A n \in S : ~Swap!Higher(ts[n], c.high) /\ ~Swap!Higher(c.low, ts[n])
      /\ c.open = ts[Min(S)] /\ c.close = ts[Max(S)]
      /\ \E n \in S : c.high = ts[n]
      /\ \E n \in S : c.low = ts[n]
  BY DEF CandleOf
<1>2. /\ c.open \in PoolTrade /\ c.high \in PoolTrade /\ c.low \in PoolTrade
      /\ c.volume \in Nat /\ c.trades \in Nat /\ t.sol \in Nat
  BY <1>1 DEF CandleTypes, PoolTrade
<1>3. d = [c EXCEPT !.high = IF Swap!Higher(t, @) THEN t ELSE @,
                    !.low = IF Swap!Higher(@, t) THEN t ELSE @,
                    !.close = t, !.volume = @ + t.sol, !.trades = @ + 1]
  BY DEF Swap!updated
<1> HIDE DEF t, d
<1>4. /\ d.open = c.open /\ d.close = t
      /\ d.volume = c.volume + t.sol /\ d.trades = c.trades + 1
      /\ d.high = IF Swap!Higher(t, c.high) THEN t ELSE c.high
      /\ d.low = IF Swap!Higher(c.low, t) THEN t ELSE c.low
  BY <1>1, <1>3 DEF CandleTypes
<1>5. d \in CandleTypes
  <2> DEFINE hi == IF Swap!Higher(t, c.high) THEN t ELSE c.high
             lo == IF Swap!Higher(c.low, t) THEN t ELSE c.low
  <2>1. hi \in PoolTrade /\ lo \in PoolTrade
    BY <1>1, <1>2
  <2>2. c.volume + t.sol \in Nat /\ c.trades + 1 \in Nat
    BY <1>2
  <2>3. d = [c EXCEPT !.high = hi, !.low = lo, !.close = t, !.volume = c.volume + t.sol,
                      !.trades = c.trades + 1]
    BY <1>1, <1>3 DEF CandleTypes
  <2> HIDE DEF hi, lo
  <2> QED
    BY <1>1, <2>1, <2>2, <2>3 DEF CandleTypes
<1>6. IsFiniteSet(S) /\ Indexes(S) /\ IsFiniteSet(T) /\ Numbers(T)
  <2>1. IsFiniteSet(T) /\ Numbers(T) /\ \A u : u \subseteq T => Indexes(u)
    BY LastOf
  <2> QED
    BY <2>1, LastOf
<1>7. m \in Int /\ \A n \in S : n \in Int /\ n < m
  BY <1>6 DEF Numbers
<1>8. m \notin S
  BY <1>7
<1>9. d.trades = Cardinality(T)
  <2>1. Cardinality(T) = Cardinality(S) + 1
    BY <1>6, <1>8, FS_AddElement
  <2> QED
    BY <1>1, <1>4, <2>1
<1>10. d.volume = SumOn(Sold(ts), T)
  <2>1. \A n \in T : Sold(ts)[n] = ts[n].sol /\ ts[n].sol \in Nat
    BY DEF Sold, PoolTrade
  <2>2. SumOn(Sold(ts), T) = Sold(ts)[m] + SumOn(Sold(ts), T \ {m})
    BY <1>6, <2>1, SumRemove
  <2>3. T \ {m} = S /\ Sold(ts)[m] = t.sol
    BY <1>8, <2>1 DEF t
  <2>4. SumOn(Sold(ts), T) = t.sol + c.volume
    <3>1. SumOn(Sold(ts), T \ {m}) = c.volume
      BY <1>1, <2>3
    <3> HIDE DEF T
    <3> QED
      BY <2>2, <2>3, <3>1
  <2> HIDE DEF T
  <2> QED
    BY <1>2, <1>4, <2>4
<1>11. d.open = ts[Min(T)]
  <2>1. Min(S) \in S /\ \A y \in S : Min(S) <= y
    BY <1>6, FirstOf
  <2>2. Min(S) <= m
    BY <1>7, <2>1
  <2>3. Min(T) = Min(S)
    BY <2>1, <2>2, EndsOf
  <2> QED
    BY <1>1, <1>4, <2>3
<1>12. d.close = ts[Max(T)]
  <2>1. \A y \in T : y <= m
    BY <1>7
  <2>2. Max(T) = m
    BY <2>1, EndsOf
  <2> QED
    BY <1>4, <2>2 DEF t
<1>13. ASSUME NEW n \in T PROVE ~Swap!Higher(ts[n], d.high) /\ ~Swap!Higher(d.low, ts[n])
  <2> DEFINE x == ts[n]  h == c.high  l == c.low
  <2>1. x \in PoolTrade /\ h \in PoolTrade /\ l \in PoolTrade /\ t \in PoolTrade
    BY <1>1, <1>2
  <2>2. n # m => ~Swap!Higher(x, h) /\ ~Swap!Higher(l, x)
    BY <1>1
  <2>3. n = m => x = t
    BY DEF t
  <2> HIDE DEF x, h, l
  <2>4. /\ ~Swap!Higher(t, t)
        /\ ~Swap!Higher(x, h) /\ Swap!Higher(t, h) => ~Swap!Higher(x, t)
        /\ ~Swap!Higher(l, x) /\ Swap!Higher(l, t) => ~Swap!Higher(t, x)
    BY <2>1, HigherOrders
  <2>5. /\ d.high = IF Swap!Higher(t, h) THEN t ELSE h
        /\ d.low = IF Swap!Higher(l, t) THEN t ELSE l
    BY <1>4 DEF h, l
  <2>6. ~Swap!Higher(x, d.high) /\ ~Swap!Higher(d.low, x)
    BY <2>2, <2>3, <2>4, <2>5
  <2> QED
    BY <2>6 DEF x
<1>14. (\E n \in T : d.high = ts[n]) /\ (\E n \in T : d.low = ts[n])
  BY <1>1, <1>4 DEF t
<1> QED
  BY <1>5, <1>9, <1>10, <1>11, <1>12, <1>13, <1>14 DEF CandleOf, d, t

(* The loop, for the trades at the indexes in S: there is a candle for     *)
(* each interval with trades, and it is made of these trades.              *)
Within(ts, S, b) == {n \in S : Swap!bucket(ts[n]) = b}
ChartOf(ts, S, cs) ==
  /\ DOMAIN cs = {Swap!bucket(ts[n]) : n \in S}
  /\ \A b \in DOMAIN cs : CandleOf(ts, Within(ts, S, b), cs[b])

LEMMA ChartGrows ==
  ASSUME NEW ts, NEW S, NEW m, Indexes(S \cup {m}), \A n \in S : n < m,
         m \in DOMAIN ts, \A n \in S \cup {m} : ts[n] \in PoolTrade /\ n \in DOMAIN ts,
         NEW cs, ChartOf(ts, S, cs)
  PROVE  ChartOf(ts, S \cup {m}, Charted(cs, ts[m]))
<1> DEFINE b == Swap!bucket(ts[m])
           ds == Charted(cs, ts[m])
           T == S \cup {m}
<1>1. ds = [k \in DOMAIN cs \cup {b} |->
              IF k # b THEN cs[k]
              ELSE IF b \in DOMAIN cs THEN Swap!updated(cs[b], ts[m]) ELSE Swap!opened(ts[m])]
  BY DEF Charted
<1> HIDE DEF b, ds
<1>2. /\ DOMAIN ds = DOMAIN cs \cup {b}
      /\ \A k \in DOMAIN cs : k # b => ds[k] = cs[k]
      /\ b \in DOMAIN cs => ds[b] = Swap!updated(cs[b], ts[m])
      /\ b \notin DOMAIN cs => ds[b] = Swap!opened(ts[m])
  BY <1>1
<1>3. /\ DOMAIN cs = {Swap!bucket(ts[n]) : n \in S}
      /\ \A k \in DOMAIN cs : CandleOf(ts, Within(ts, S, k), cs[k])
  BY DEF ChartOf
<1>4. DOMAIN ds = {Swap!bucket(ts[n]) : n \in T}
  BY <1>2, <1>3 DEF b
<1>5. \A k : k # b => Within(ts, T, k) = Within(ts, S, k)
  BY DEF Within, b
<1>6. Within(ts, T, b) = Within(ts, S, b) \cup {m}
  BY DEF Within, b
<1>7. Within(ts, S, b) \subseteq S /\ Within(ts, S, b) \cup {m} \subseteq T
  BY DEF Within
<1>8. Indexes(Within(ts, S, b) \cup {m})
  BY <1>7, LastOf
<1>9. CandleOf(ts, Within(ts, T, b), ds[b])
  <2>1. CASE b \in DOMAIN cs
    <3>1. Within(ts, S, b) # {}
      BY <1>3, <2>1 DEF Within
    <3>2. PICK U : U = Within(ts, S, b)
      OBVIOUS
    <3>3. /\ U \subseteq S /\ U # {} /\ Indexes(U \cup {m}) /\ CandleOf(ts, U, cs[b])
          /\ \A n \in U : n < m
          /\ \A n \in U \cup {m} : ts[n] \in PoolTrade /\ n \in DOMAIN ts
      BY <1>3, <1>7, <1>8, <2>1, <3>1, <3>2
    <3>4. CandleOf(ts, U \cup {m}, Swap!updated(cs[b], ts[m]))
      BY <3>3, CandleUpdates
    <3> QED
      BY <1>2, <1>6, <2>1, <3>2, <3>4
  <2>2. CASE b \notin DOMAIN cs
    <3>1. Within(ts, S, b) = {}
      BY <1>3, <2>2 DEF Within
    <3>2. Within(ts, T, b) = {m} /\ Indexes({m})
      BY <1>6, <1>8, <3>1
    <3>3. CandleOf(ts, {m}, Swap!opened(ts[m]))
      BY <3>2, CandleOpens
    <3> QED
      BY <1>2, <2>2, <3>2, <3>3
  <2> QED
    BY <2>1, <2>2
<1>10. \A k \in DOMAIN ds : CandleOf(ts, Within(ts, T, k), ds[k])
  BY <1>2, <1>3, <1>5, <1>9
<1> QED
  BY <1>4, <1>10 DEF ChartOf, ds

LEMMA TradesCharted ==
  ASSUME NEW ts \in Seq(PoolTrade)
  PROVE  ChartOf(ts, DOMAIN ts, Swap!Buckets(ts))
<1> DEFINE D == DOMAIN ts
           Bad == {u \in SUBSET D : ~ChartOf(ts, u, FoldOn(ts, u))}
<1>1. Indexes(D) /\ IsFiniteSet(D) /\ \A u : u \subseteq D => Indexes(u)
  <2>1. D = 1..Len(ts) /\ Len(ts) \in Nat
    OBVIOUS
  <2>2. Indexes(D)
    BY <2>1 DEF Indexes
  <2> QED
    BY <2>2, LastOf
<1>2. \A n \in D : ts[n] \in PoolTrade
  OBVIOUS
<1>3. Bad = {}
  <2>1. SUFFICES ASSUME Bad # {} PROVE FALSE
    OBVIOUS
  <2>2. PICK u \in Bad : \A v \in SUBSET D : v \subseteq u /\ v # u => v \notin Bad
    <3> HIDE DEF Bad
    <3>1. Bad \in SUBSET SUBSET D
      BY DEF Bad
    <3> HIDE DEF D
    <3> QED
      BY <1>1, <2>1, <3>1, SmallestSubset
  <2>3. u \subseteq D /\ Indexes(u) /\ ~ChartOf(ts, u, FoldOn(ts, u))
    BY <1>1, <2>2
  <2>4. CASE u = {}
    <3>1. FoldOn(ts, u) = << >>
      BY <2>3, <2>4, FoldUnfolds
    <3>2. ChartOf(ts, {}, << >>)
      BY DEF ChartOf
    <3> QED
      BY <2>3, <2>4, <3>1, <3>2
  <2>5. CASE u # {}
    <3> DEFINE m == Max(u)  v == u \ {m}
    <3>1. m \in u /\ v \subseteq u /\ v # u /\ \A x \in u : x <= m
      BY <2>3, <2>5, LastOf
    <3>2. ChartOf(ts, v, FoldOn(ts, v))
      BY <2>2, <2>3, <3>1
    <3>3. FoldOn(ts, u) = Charted(FoldOn(ts, v), ts[m])
      BY <2>3, <2>5, FoldUnfolds
    <3>4. \A n \in u : n \in Int
      BY <2>3, LastOf DEF Numbers
    <3>5. \A n \in v : n < m
      BY <3>1, <3>4
    <3>6. v \cup {m} = u
      BY <3>1
    <3> HIDE DEF m, v
    <3>7. PICK cs : cs = FoldOn(ts, v)
      OBVIOUS
    <3>8. Indexes(v \cup {m}) /\ m \in DOMAIN ts /\ ChartOf(ts, v, cs)
      BY <2>3, <3>1, <3>2, <3>6, <3>7
    <3>9. \A n \in v \cup {m} : ts[n] \in PoolTrade /\ n \in DOMAIN ts
      BY <1>2, <2>3, <3>6
    <3>10. ChartOf(ts, v \cup {m}, Charted(cs, ts[m]))
      BY <3>5, <3>8, <3>9, ChartGrows
    <3> QED
      BY <2>3, <3>3, <3>6, <3>7, <3>10
  <2> QED
    BY <2>4, <2>5
<1>4. ChartOf(ts, D, FoldOn(ts, D))
  BY <1>3
<1> QED
  BY <1>4, BucketsAre

(* Intervals are as wide as asked for and do not overlap.                  *)
LEMMA Intervals ==
  ASSUME NEW t \in PoolTrade, NEW u \in PoolTrade
  PROVE  /\ Swap!bucket(t) \in Int
         /\ Swap!bucket(t) <= t.ts /\ t.ts < Swap!bucket(t) + Width
         /\ Swap!bucket(u) <= t.ts /\ t.ts < Swap!bucket(u) + Width => Swap!bucket(t) = Swap!bucket(u)
         /\ Swap!bucket(t) < Swap!bucket(u) => t.ts < Swap!bucket(u)
<1> DEFINE p == t.ts \div Width  q == u.ts \div Width
<1>1. t.ts \in Nat /\ u.ts \in Nat /\ Width \in Nat \ {0}
  BY CandlesAssumption DEF PoolTrade
<1>2. /\ p \in Nat /\ q \in Nat
      /\ Width * p <= t.ts /\ t.ts < Width * p + Width
  BY <1>1, DivBound
<1>3. Swap!bucket(t) = p * Width /\ Swap!bucket(u) = q * Width
  BY DEF Swap!bucket
<1> HIDE DEF p, q
<1>4. p * Width = Width * p /\ q * Width = Width * q /\ Width * p \in Nat /\ Width * q \in Nat
  BY <1>1, <1>2
<1>5. p < q => p * Width + Width <= q * Width
  <2> SUFFICES ASSUME p < q PROVE p * Width + Width <= q * Width
    OBVIOUS
  <2>1. p + 1 \in Nat /\ p + 1 <= q
    BY <1>2
  <2>2. (p + 1) * Width <= q * Width
    BY <1>1, <1>2, <2>1, MulMono
  <2>3. (p + 1) * Width = p * Width + Width
    BY <1>1, <1>2
  <2> QED
    BY <2>2, <2>3
<1>6. q < p => q * Width + Width <= p * Width
  <2> SUFFICES ASSUME q < p PROVE q * Width + Width <= p * Width
    OBVIOUS
  <2>1. q + 1 \in Nat /\ q + 1 <= p
    BY <1>2
  <2>2. (q + 1) * Width <= p * Width
    BY <1>1, <1>2, <2>1, MulMono
  <2>3. (q + 1) * Width = q * Width + Width
    BY <1>1, <1>2
  <2> QED
    BY <2>2, <2>3
<1>7. p = q \/ p < q \/ q < p
  BY <1>2
<1>8. PICK a \in Nat, b \in Nat : a = p * Width /\ b = q * Width
  BY <1>4
<1>9. a <= t.ts /\ t.ts < a + Width
  BY <1>2, <1>4, <1>8
<1>10. p < q => a + Width <= b
  BY <1>5, <1>8
<1>11. q < p => b + Width <= a
  BY <1>6, <1>8
<1>12. p = q => a = b
  BY <1>8
<1>13. b <= t.ts /\ t.ts < b + Width => a = b
  BY <1>1, <1>7, <1>9, <1>10, <1>11, <1>12
<1>14. a < b => t.ts < b
  BY <1>1, <1>7, <1>9, <1>10, <1>11, <1>12
<1> QED
  BY <1>3, <1>8, <1>9, <1>13, <1>14

(* The candles in the order of their times, from the first that is shown.  *)
LEMMA ShownCandles ==
  ASSUME NEW cs, cs = Swap!Buckets(feed), NEW T, T = DOMAIN cs, IsFiniteSet(T), Numbers(T)
  PROVE  \E k, first \in Nat :
           /\ k = Cardinality(T) /\ first \in 1..(k + 1)
           /\ first = IF k > Shown THEN k - Shown + 1 ELSE 1
           /\ DOMAIN Swap!candles = 1..(k - first + 1) /\ Len(Swap!candles) = k - first + 1
           /\ \A n \in 1..(k - first + 1) :
                /\ Swap!candles[n].time \in T /\ Rank(T, Swap!candles[n].time) = first + n - 1
                /\ Swap!candles[n].candle = cs[Swap!candles[n].time]
<1>1. PICK times : times = Swap!oldest_first(T)
  OBVIOUS
<1>2. PICK k \in Nat : k = Cardinality(T)
  BY FS_CardinalityType
<1>3. Shown \in Nat \ {0}
  BY CandlesAssumption
<1>4. /\ DOMAIN times = 1..k /\ Len(times) = k
      /\ \A n \in 1..k : times[n] = CHOOSE t \in T : Rank(T, t) = n
  <2>1. times = [n \in 1..k |-> CHOOSE t \in T : Rank(T, t) = n]
    <3>1. Swap!oldest_first(T) = [n \in 1..Cardinality(T) |->
                                   CHOOSE t \in T : Cardinality({u \in T : u <= t}) = n]
      BY DEF Swap!oldest_first, Swap!Cardinality, Cardinality
    <3> QED
      BY <1>1, <1>2, <3>1 DEF Rank, UpTo
  <2> QED
    BY <1>2, <2>1
<1>5. \A n \in 1..k : times[n] \in T /\ Rank(T, times[n]) = n
  <2> SUFFICES ASSUME NEW n \in 1..k PROVE times[n] \in T /\ Rank(T, times[n]) = n
    OBVIOUS
  <2>1. \E t \in T : Rank(T, t) = n
    BY <1>2, NumbersRanked
  <2> QED
    BY <1>4, <2>1
<1>6. PICK first : first = IF k > Shown THEN k - Shown + 1 ELSE 1
  OBVIOUS
<1>7. first \in Nat /\ first \in 1..(k + 1) /\ k - first + 1 \in Nat
  BY <1>2, <1>3, <1>6
<1>8. Swap!candles = [n \in 1..(k - first + 1) |->
                       [time |-> times[first + n - 1], candle |-> cs[times[first + n - 1]]]]
  BY <1>1, <1>4, <1>6 DEF Swap!candles
<1>9. DOMAIN Swap!candles = 1..(k - first + 1) /\ Len(Swap!candles) = k - first + 1
  BY <1>7, <1>8
<1>10. ASSUME NEW n \in 1..(k - first + 1)
       PROVE  /\ Swap!candles[n].time \in T /\ Rank(T, Swap!candles[n].time) = first + n - 1
              /\ Swap!candles[n].candle = cs[Swap!candles[n].time]
  <2>1. Swap!candles[n] = [time |-> times[first + n - 1], candle |-> cs[times[first + n - 1]]]
    BY <1>8
  <2>2. first + n - 1 \in 1..k
    BY <1>7
  <2> QED
    BY <1>5, <2>1, <2>2
<1> QED
  BY <1>2, <1>6, <1>7, <1>9, <1>10

LEMMA CandlesMatch == feed \in Seq(PoolTrade) => Swap!CandlesMatchTrades
<1> SUFFICES ASSUME feed \in Seq(PoolTrade) PROVE Swap!CandlesMatchTrades
  OBVIOUS
<1> DEFINE D == DOMAIN feed
           within(t) == {n \in D : t <= feed[n].ts /\ feed[n].ts < t + Width}
<1>1. \A n \in D : feed[n] \in PoolTrade
  OBVIOUS
<1>2. PICK cs : cs = Swap!Buckets(feed)
  OBVIOUS
<1>3. PICK T : T = DOMAIN cs
  OBVIOUS
<1>4. /\ T = {Swap!bucket(feed[n]) : n \in D}
      /\ \A b \in T : CandleOf(feed, Within(feed, D, b), cs[b])
  BY <1>2, <1>3, TradesCharted DEF ChartOf
<1>5. IsFiniteSet(T) /\ Numbers(T)
  <2>1. IsFiniteSet(D)
    <3>1. D = 1..Len(feed) /\ Len(feed) \in Nat
      OBVIOUS
    <3> QED
      BY <3>1, FS_Interval
  <2>2. IsFiniteSet(T)
    <3> DEFINE f == [n \in D |-> Swap!bucket(feed[n])]
    <3>1. f \in Surjection(D, T)
      BY <1>4 DEF Surjection
    <3> HIDE DEF D, f
    <3> QED
      BY <2>1, <3>1, FS_Surjection
  <2>3. \A b \in T : b \in Int
    BY <1>1, <1>4, Intervals
  <2> QED
    BY <2>2, <2>3 DEF Numbers
<1>6. PICK k \in Nat, first \in Nat :
        /\ k = Cardinality(T) /\ first \in 1..(k + 1)
        /\ first = IF k > Shown THEN k - Shown + 1 ELSE 1
        /\ DOMAIN Swap!candles = 1..(k - first + 1) /\ Len(Swap!candles) = k - first + 1
        /\ \A n \in 1..(k - first + 1) :
             /\ Swap!candles[n].time \in T /\ Rank(T, Swap!candles[n].time) = first + n - 1
             /\ Swap!candles[n].candle = cs[Swap!candles[n].time]
  BY <1>2, <1>3, <1>5, ShownCandles
<1>7. \A b \in T : within(b) = Within(feed, D, b)
  <2> SUFFICES ASSUME NEW b \in T, NEW n \in D
               PROVE  (b <= feed[n].ts /\ feed[n].ts < b + Width) <=> Swap!bucket(feed[n]) = b
    BY DEF Within
  <2>1. PICK j \in D : b = Swap!bucket(feed[j])
    BY <1>4
  <2> QED
    BY <1>1, <2>1, Intervals
<1> DEFINE Matches(c, S) ==
      /\ c.trades = Cardinality(S)
      /\ c.volume = SumFunctionOnSet(Sold(feed), S)
      /\ \A n \in S : ~Swap!Higher(feed[n], c.high) /\ ~Swap!Higher(c.low, feed[n])
      /\ c.open = feed[Min(S)] /\ c.close = feed[Max(S)]
      /\ {c.high, c.low} \subseteq {feed[n] : n \in S}
<1>8. ASSUME NEW n \in DOMAIN Swap!candles
      PROVE  Matches(Swap!candles[n].candle, within(Swap!candles[n].time))
  <2>1. PICK t : t = Swap!candles[n].time
    OBVIOUS
  <2>2. t \in T /\ Swap!candles[n].candle = cs[t]
    BY <1>6, <2>1
  <2>3. CandleOf(feed, Within(feed, D, t), cs[t])
    BY <1>4, <2>2
  <2>4. PICK S : S = Within(feed, D, t)
    OBVIOUS
  <2>5. PICK c : c = cs[t]
    OBVIOUS
  <2>6. CandleOf(feed, S, c)
    BY <2>3, <2>4, <2>5
  <2>7. SumFunctionOnSet(Sold(feed), S) = SumOn(Sold(feed), S)
    BY SumOnIs
  <2>8. Matches(c, S)
    BY <2>6, <2>7 DEF CandleOf
  <2>9. within(t) = S
    BY <1>7, <2>2, <2>4
  <2> HIDE DEF Matches, within
  <2> QED
    BY <2>1, <2>2, <2>5, <2>8, <2>9
<1>9. ASSUME NEW n \in D
      PROVE  \/ \E i \in DOMAIN Swap!candles : n \in within(Swap!candles[i].time)
             \/ Len(Swap!candles) = Shown /\ feed[n].ts < Swap!candles[1].time
  <2>1. PICK b : b = Swap!bucket(feed[n])
    OBVIOUS
  <2>2. b \in T /\ n \in Within(feed, D, b) /\ b \in Int
    BY <1>1, <1>4, <2>1, Intervals DEF Within
  <2>3. Rank(T, b) \in 1..k
    BY <1>5, <1>6, <2>2, NumbersRanked
  <2>4. PICK r \in 1..k : r = Rank(T, b)
    BY <2>3
  <2>5. CASE r >= first
    <3>1. PICK i : i = r - first + 1
      OBVIOUS
    <3>0. k \in Nat /\ first \in Nat /\ r \in 1..k /\ r >= first
      BY <1>6, <2>4, <2>5
    <3>2. i \in 1..(k - first + 1) /\ first + i - 1 = r
      BY <3>0, <3>1
    <3>3. Swap!candles[i].time \in T /\ Rank(T, Swap!candles[i].time) = r
      BY <1>6, <3>2
    <3>4. Swap!candles[i].time = b
      BY <1>5, <2>2, <2>4, <3>3, NumbersRanked
    <3>5. n \in within(b)
      BY <1>7, <2>2
    <3>6. i \in DOMAIN Swap!candles
      BY <1>6, <3>2
    <3> HIDE DEF within
    <3> QED
      BY <3>4, <3>5, <3>6
  <2>6. CASE r < first
    <3>1. k > Shown /\ k - first + 1 = Shown /\ 1 \in 1..(k - first + 1) /\ first + 1 - 1 = first
      BY <1>6, <2>4, <2>6, CandlesAssumption
    <3>2. PICK t : t = Swap!candles[1].time
      OBVIOUS
    <3>3. t \in T /\ Rank(T, t) = first
      BY <1>6, <3>1, <3>2
    <3>4. PICK j \in D : t = Swap!bucket(feed[j])
      BY <1>4, <3>3
    <3>5. t \in Int
      BY <1>1, <3>4, Intervals
    <3>6. t <= b => Rank(T, t) <= Rank(T, b)
      BY <1>5, <2>2, <3>3, NumbersRanked
    <3>7. b < t
      BY <2>2, <2>4, <2>6, <3>3, <3>5, <3>6
    <3>8. feed[n].ts < t
      BY <1>1, <2>1, <3>4, <3>7, Intervals
    <3> QED
      BY <1>6, <3>1, <3>2, <3>8
  <2> QED
    BY <1>6, <2>4, <2>5, <2>6
<1> QED
  BY <1>8, <1>9, SameSwap DEF Swap!CandlesMatchTrades, Sold

(* What happened to the pool, and what of it arrived: a swap that arrived  *)
(* is in the feed.                                                         *)
PoolTx == {x \in [kind : {"buy", "sell", "claim", "deposit"}, ts : Nat, dBase : Int, dQuote : Int] :
             /\ x.kind = "buy" => x.dBase < 0 /\ x.dQuote > 0
             /\ x.kind = "sell" => x.dBase > 0 /\ x.dQuote < 0}
SwapInv ==
  /\ now \in Nat /\ txs \in Seq(PoolTx) /\ feed \in Seq(PoolTrade) /\ fed \subseteq DOMAIN txs
  /\ Swap!SwapsParsed

(* A transaction with changes of both balances is a trade of these amounts. *)
LEMMA ParsedAs ==
  ASSUME NEW x \in PoolTx, NEW t, t = Swap!parseMeteoraSwap(x)
  PROVE  /\ t = Swap!None \/ t \in PoolTrade
         /\ x.kind \in {"buy", "sell"} =>
              /\ t # Swap!None /\ t.side = x.kind /\ t.ts = x.ts
              /\ t.tokens = Swap!Abs(x.dBase) /\ t.sol = Swap!Abs(x.dQuote)
<1>1. /\ x.ts \in Nat /\ x.dBase \in Int /\ x.dQuote \in Int
      /\ x.kind = "buy" => x.dBase < 0 /\ x.dQuote > 0
      /\ x.kind = "sell" => x.dBase > 0 /\ x.dQuote < 0
  BY DEF PoolTx
<1>2. CASE x.dBase = 0 \/ x.dQuote = 0
  BY <1>1, <1>2 DEF Swap!parseMeteoraSwap
<1>3. CASE x.dBase # 0 /\ x.dQuote # 0
  <2> DEFINE a == Swap!Abs(x.dQuote)  b == Swap!Abs(x.dBase)  s == Swap!side_of(x.dBase)
  <2>1. a \in Nat \ {0} /\ b \in Nat \ {0}
    BY <1>1, <1>3 DEF Swap!Abs
  <2>2. s \in {"buy", "sell"} /\ (x.kind \in {"buy", "sell"} => s = x.kind)
    BY <1>1 DEF Swap!side_of
  <2>3. t = [ts |-> x.ts, side |-> s, sol |-> a, tokens |-> b]
    BY <1>3 DEF Swap!parseMeteoraSwap
  <2>4. t # Swap!None
    <3>1. s # "none"
      BY <2>2
    <3>2. t.side = s /\ Swap!None.side = "none"
      BY <2>3 DEF Swap!None
    <3> QED
      BY <3>1, <3>2
  <2> HIDE DEF a, b, s
  <2>5. t \in PoolTrade
    BY <1>1, <2>1, <2>2, <2>3 DEF PoolTrade
  <2>6. t.side = s /\ t.ts = x.ts /\ t.tokens = b /\ t.sol = a
    BY <2>3
  <2> QED
    BY <2>2, <2>4, <2>5, <2>6 DEF a, b
<1> QED
  BY <1>2, <1>3

LEMMA SwapStarts == Swap!Init => SwapInv
  BY DEF Swap!Init, SwapInv, Swap!SwapsParsed

LEMMA SwapHappens == SwapInv /\ Swap!Happen => SwapInv'
<1> SUFFICES ASSUME SwapInv, Swap!Happen PROVE SwapInv'
  OBVIOUS
<1>1. PICK k \in {"buy", "sell", "claim", "deposit"}, b \in Tokens, q \in Sols :
        txs' = Append(txs, [kind |-> k, ts |-> now,
                            dBase |-> Swap!Deltas(k, b, q)[1], dQuote |-> Swap!Deltas(k, b, q)[2]])
  BY DEF Swap!Happen
<1>2. b \in Nat \ {0} /\ q \in Nat \ {0} /\ now \in Nat
  BY CandlesAssumption DEF SwapInv
<1> DEFINE x == [kind |-> k, ts |-> now,
                 dBase |-> Swap!Deltas(k, b, q)[1], dQuote |-> Swap!Deltas(k, b, q)[2]]
<1>3. x \in PoolTx
  <2>1. /\ Swap!Deltas("buy", b, q) = <<-b, q>> /\ Swap!Deltas("sell", b, q) = <<b, -q>>
        /\ Swap!Deltas("claim", b, q) = <<0, -q>> /\ Swap!Deltas("deposit", b, q) = <<b, q>>
    BY DEF Swap!Deltas
  <2>2. /\ Swap!Deltas(k, b, q)[1] \in Int /\ Swap!Deltas(k, b, q)[2] \in Int
        /\ k = "buy" => Swap!Deltas(k, b, q)[1] < 0 /\ Swap!Deltas(k, b, q)[2] > 0
        /\ k = "sell" => Swap!Deltas(k, b, q)[1] > 0 /\ Swap!Deltas(k, b, q)[2] < 0
    BY <1>2, <2>1
  <2> QED
    BY <1>2, <2>2 DEF PoolTx
<1> HIDE DEF x
<1>4. UNCHANGED <<now, feed, fed>> /\ txs' = Append(txs, x)
  BY <1>1 DEF Swap!Happen, x
<1>5. /\ now \in Nat /\ txs \in Seq(PoolTx) /\ feed \in Seq(PoolTrade) /\ fed \subseteq DOMAIN txs
      /\ Swap!SwapsParsed
  BY DEF SwapInv
<1>6. txs' \in Seq(PoolTx) /\ \A i \in DOMAIN txs : i \in DOMAIN txs' /\ txs'[i] = txs[i]
  BY <1>3, <1>4, <1>5
<1>7. Swap!SwapsParsed'
  BY <1>4, <1>5, <1>6 DEF Swap!SwapsParsed
<1> QED
  BY <1>4, <1>5, <1>6, <1>7 DEF SwapInv

LEMMA SwapArrives == SwapInv /\ Swap!Arrive => SwapInv'
<1> SUFFICES ASSUME SwapInv, Swap!Arrive PROVE SwapInv'
  OBVIOUS
<1>1. PICK j \in DOMAIN txs \ fed :
        /\ fed' = fed \cup {j}
        /\ feed' = IF Swap!parseMeteoraSwap(txs[j]) = Swap!None THEN feed
                   ELSE Append(feed, Swap!parseMeteoraSwap(txs[j]))
        /\ UNCHANGED <<now, txs>>
  BY DEF Swap!Arrive
<1>2. /\ now \in Nat /\ txs \in Seq(PoolTx) /\ feed \in Seq(PoolTrade) /\ fed \subseteq DOMAIN txs
      /\ Swap!SwapsParsed
  BY DEF SwapInv
<1>3. PICK x \in PoolTx : x = txs[j]
  BY <1>1, <1>2
<1>31. PICK t : t = Swap!parseMeteoraSwap(x)
  OBVIOUS
<1>4. /\ t = Swap!None \/ t \in PoolTrade
      /\ x.kind \in {"buy", "sell"} =>
           /\ t # Swap!None /\ t.side = x.kind /\ t.ts = x.ts
           /\ t.tokens = Swap!Abs(x.dBase) /\ t.sol = Swap!Abs(x.dQuote)
  BY <1>31, ParsedAs
<1>5. feed' = IF t = Swap!None THEN feed ELSE Append(feed, t)
  BY <1>1, <1>3, <1>31
<1>6. /\ feed' \in Seq(PoolTrade)
      /\ \A n \in DOMAIN feed : n \in DOMAIN feed' /\ feed'[n] = feed[n]
      /\ t # Swap!None => \E n \in DOMAIN feed' : feed'[n] = t
  <2>1. CASE t = Swap!None
    BY <1>2, <1>5, <2>1
  <2>2. CASE t # Swap!None
    <3>1. t \in PoolTrade /\ feed' = Append(feed, t)
      BY <1>4, <1>5, <2>2
    <3>2. feed' \in Seq(PoolTrade) /\ Len(feed') = Len(feed) + 1 /\ feed'[Len(feed) + 1] = t
      BY <1>2, <3>1
    <3>3. \A n \in DOMAIN feed : n \in DOMAIN feed' /\ feed'[n] = feed[n]
      BY <1>2, <3>1
    <3>4. Len(feed) + 1 \in DOMAIN feed'
      BY <1>2, <3>1, <3>2
    <3> QED
      BY <3>2, <3>3, <3>4
  <2> QED
    BY <2>1, <2>2
<1>7. Swap!SwapsParsed'
  <2> SUFFICES ASSUME NEW i \in fed', txs'[i].kind \in {"buy", "sell"}
               PROVE  \E n \in DOMAIN feed' :
                        /\ feed'[n].side = txs'[i].kind /\ feed'[n].ts = txs'[i].ts
                        /\ feed'[n].tokens = Swap!Abs(txs'[i].dBase)
                        /\ feed'[n].sol = Swap!Abs(txs'[i].dQuote)
    BY DEF Swap!SwapsParsed
  <2>1. txs' = txs /\ (i \in fed \/ i = j)
    BY <1>1
  <2>2. CASE i \in fed
    <3>1. PICK n \in DOMAIN feed :
            /\ feed[n].side = txs[i].kind /\ feed[n].ts = txs[i].ts
            /\ feed[n].tokens = Swap!Abs(txs[i].dBase) /\ feed[n].sol = Swap!Abs(txs[i].dQuote)
      BY <1>2, <2>1, <2>2 DEF Swap!SwapsParsed
    <3> QED
      BY <1>6, <2>1, <3>1
  <2>3. CASE i = j
    <3>1. txs'[i] = x /\ x.kind \in {"buy", "sell"}
      BY <1>3, <2>1, <2>3
    <3>2. PICK n \in DOMAIN feed' : feed'[n] = t
      BY <1>4, <1>6, <3>1
    <3> QED
      BY <1>4, <3>1, <3>2
  <2> QED
    BY <2>1, <2>2, <2>3
<1> QED
  BY <1>1, <1>2, <1>6, <1>7 DEF SwapInv

LEMMA SwapSteps == SwapInv /\ [Swap!Next]_candleVars => SwapInv'
<1> SUFFICES ASSUME SwapInv, [Swap!Next]_candleVars PROVE SwapInv'
  OBVIOUS
<1>1. CASE Swap!Tick
  BY <1>1 DEF Swap!Tick, SwapInv, Swap!SwapsParsed
<1>2. CASE UNCHANGED candleVars
  BY <1>2 DEF candleVars, SwapInv, Swap!SwapsParsed
<1> QED
  BY <1>1, <1>2, SwapHappens, SwapArrives DEF Swap!Next

LEMMA SwapsShown == SwapInv => Swap!SwapsParsed /\ Swap!CandlesMatchTrades
  BY CandlesMatch DEF SwapInv

-----------------------------------------------------------------------------
(* What webhook and poller feed. The lists they work on are drawn from     *)
(* others, each element at most as often as it was there.                  *)

Drawn(us, s, S) ==
  \E k \in Nat : \E f \in [1..k -> S] :
    /\ \A m, n \in 1..k : f[m] = f[n] => m = n
    /\ us = [n \in 1..k |-> s[f[n]]]
Distinct(s) == \A i, j \in DOMAIN s : s[i] = s[j] => i = j
RowsOf(s, x) == {i \in DOMAIN s : s[i].sig = x}

LEMMA SameHook ==
  /\ \A S : Hook!Cardinality(S) = Cardinality(S)
  /\ \A s : Hook!ToSet(s) = {s[i] : i \in DOMAIN s}
  /\ \A x, s : Hook!Copies(x, s) = Cardinality(RowsOf(s, x))
  BY DEF Hook!Cardinality, Cardinality, Hook!ToSet, Hook!Copies, RowsOf

SequenceFrom(us, s, S, X) ==
  /\ us \in Seq(X) /\ \A n \in DOMAIN us : \E i \in S : us[n] = s[i]
  /\ Distinct(s) => Distinct(us)
LEMMA DrawnSeq ==
  ASSUME NEW X, NEW s \in Seq(X), NEW S, S \subseteq DOMAIN s, NEW us, Drawn(us, s, S)
  PROVE  SequenceFrom(us, s, S, X)
<1>0. PICK k \in Nat : \E f \in [1..k -> S] :
        /\ \A m, n \in 1..k : f[m] = f[n] => m = n
        /\ us = [n \in 1..k |-> s[f[n]]]
  BY DEF Drawn
<1>1. PICK f \in [1..k -> S] :
        /\ \A m, n \in 1..k : f[m] = f[n] => m = n
        /\ us = [n \in 1..k |-> s[f[n]]]
  BY <1>0
<1>2. DOMAIN us = 1..k /\ \A n \in 1..k : f[n] \in S /\ us[n] = s[f[n]]
  BY <1>1
<1>3. \A n \in 1..k : us[n] \in X
  BY <1>2
<1>4. us \in Seq(X)
  BY <1>1, <1>3
<1>5. ASSUME Distinct(s), NEW m \in DOMAIN us, NEW n \in DOMAIN us, us[m] = us[n] PROVE m = n
  <2>1. s[f[m]] = s[f[n]] /\ f[m] \in DOMAIN s /\ f[n] \in DOMAIN s
    BY <1>2, <1>5
  <2>2. f[m] = f[n]
    BY <1>5, <2>1 DEF Distinct
  <2> QED
    BY <1>1, <1>2, <2>2
<1> QED
  BY <1>2, <1>4, <1>5 DEF Distinct, SequenceFrom

(* No more copies of a row than were drawn from.                           *)
LEMMA DrawnRows ==
  ASSUME NEW X, NEW s \in Seq(X), NEW S, S \subseteq DOMAIN s, NEW us, Drawn(us, s, S), NEW x
  PROVE  /\ IsFiniteSet(RowsOf(s, x)) /\ IsFiniteSet(RowsOf(us, x))
         /\ Cardinality(RowsOf(us, x)) <= Cardinality(RowsOf(s, x))
<1>0. PICK k \in Nat : \E f \in [1..k -> S] :
        /\ \A m, n \in 1..k : f[m] = f[n] => m = n
        /\ us = [n \in 1..k |-> s[f[n]]]
  BY DEF Drawn
<1>1. PICK f \in [1..k -> S] :
        /\ \A m, n \in 1..k : f[m] = f[n] => m = n
        /\ us = [n \in 1..k |-> s[f[n]]]
  BY <1>0
<1>2. DOMAIN us = 1..k /\ \A n \in 1..k : f[n] \in S /\ us[n] = s[f[n]]
  BY <1>1
<1>3. IsFiniteSet(RowsOf(s, x))
  <2>1. DOMAIN s = 1..Len(s) /\ Len(s) \in Nat
    OBVIOUS
  <2>2. IsFiniteSet(DOMAIN s)
    BY <2>1, FS_Interval
  <2> QED
    BY <2>2, FS_Subset DEF RowsOf
<1> DEFINE U == RowsOf(us, x)  V == RowsOf(s, x)
           g == [n \in U |-> f[n]]
<1>4. \A n \in U : n \in 1..k /\ f[n] \in V
  BY <1>2 DEF RowsOf
<1>5. g \in Injection(U, V)
  <2> HIDE DEF U, V
  <2>1. g \in [U -> V] /\ \A m, n \in U : g[m] = g[n] => m = n
    BY <1>1, <1>4
  <2> HIDE DEF g
  <2> QED
    BY <2>1 DEF Injection, IsInjective
<1>6. IsFiniteSet(V)
  BY <1>3
<1> HIDE DEF U, V, g
<1>7. IsFiniteSet(U) /\ Cardinality(U) <= Cardinality(V)
  BY <1>5, <1>6, FS_Injection
<1> QED
  BY <1>3, <1>7 DEF U, V

(* What is ranked by a linear order is drawn.                              *)
LEMMA RankedDrawn ==
  ASSUME NEW s, NEW S, IsFiniteSet(S), NEW R, NEW rank, rank = RankBy(S, R),
         \A i \in S : <<i, i>> \in R,
         \A i, j \in S : <<i, j>> \in R \/ <<j, i>> \in R,
         \A i, j \in S : <<i, j>> \in R /\ <<j, i>> \in R => i = j,
         \A i, j, k \in S : <<i, j>> \in R /\ <<j, k>> \in R => <<i, k>> \in R
  PROVE  Drawn(Hook!Ranked(s, rank), s, S)
<1>1. /\ rank \in [S -> 1..Cardinality(S)]
      /\ \A n \in 1..Cardinality(S) : \E i \in S : rank[i] = n
  BY RanksAreNumbers
<1>2. PICK k \in Nat : k = Cardinality(S)
  BY FS_CardinalityType
<1>3. PICK f : f = [n \in 1..k |-> CHOOSE i \in S : rank[i] = n]
  OBVIOUS
<1>4. \A n \in 1..k : f[n] \in S /\ rank[f[n]] = n
  BY <1>1, <1>2, <1>3
<1>5. f \in [1..k -> S]
  BY <1>3, <1>4
<1>6. \A m, n \in 1..k : f[m] = f[n] => m = n
  BY <1>4
<1>7. DOMAIN rank = S
  BY <1>1
<1>8. Hook!Ranked(s, rank) = [n \in 1..k |-> s[CHOOSE i \in S : rank[i] = n]]
  <2>1. Hook!Ranked(s, rank) =
          [n \in 1..Cardinality(DOMAIN rank) |-> s[CHOOSE i \in DOMAIN rank : rank[i] = n]]
    BY DEF Hook!Ranked, Hook!Cardinality, Cardinality
  <2> QED
    BY <1>2, <1>7, <2>1
<1>9. Hook!Ranked(s, rank) = [n \in 1..k |-> s[f[n]]]
  BY <1>3, <1>8
<1> QED
  BY <1>5, <1>6, <1>9 DEF Drawn

LEMMA KeptDrawn ==
  ASSUME NEW X, NEW s \in Seq(X), NEW S, S \subseteq DOMAIN s
  PROVE  Drawn(Hook!Kept(s, S), s, S)
<1>1. DOMAIN s = 1..Len(s) /\ Len(s) \in Nat
  OBVIOUS
<1>2. IsFiniteSet(S)
  <2>1. IsFiniteSet(DOMAIN s)
    BY <1>1, FS_Interval
  <2> QED
    BY <2>1, FS_Subset
<1>3. \A i \in S : i \in Nat
  BY <1>1
<1>4. PICK R : R = Order(S)
  OBVIOUS
<1>5. \A i, j \in S : <<j, i>> \in R <=> j <= i
  BY <1>4 DEF Order
<1>6. PICK rank : rank = RankBy(S, R)
  OBVIOUS
<1>7. rank = [i \in S |-> Cardinality({j \in S : j <= i})]
  <2>1. \A i \in S : {j \in S : <<j, i>> \in R} = {j \in S : j <= i}
    BY <1>5
  <2> QED
    BY <1>6, <2>1 DEF RankBy
<1>8. Hook!Kept(s, S) = Hook!Ranked(s, rank)
  BY <1>7 DEF Hook!Kept, Hook!Cardinality, Cardinality
<1>9. /\ \A i \in S : <<i, i>> \in R
      /\ \A i, j \in S : <<i, j>> \in R \/ <<j, i>> \in R
      /\ \A i, j \in S : <<i, j>> \in R /\ <<j, i>> \in R => i = j
      /\ \A i, j, k \in S : <<i, j>> \in R /\ <<j, k>> \in R => <<i, k>> \in R
  BY <1>3, <1>5
<1> QED
  BY <1>2, <1>6, <1>8, <1>9, RankedDrawn

(* Elements by their keys, those of equal keys in the order they are in.   *)
KeyOrder(S, key) ==
  {p \in S \X S : key[p[1]] < key[p[2]] \/ (key[p[1]] = key[p[2]] /\ p[1] <= p[2])}
Numbered(S, key) == \A i \in S : i \in Nat /\ key[i] \in Int
LEMMA KeysOrder ==
  ASSUME NEW S, NEW key, Numbered(S, key), NEW R, R = KeyOrder(S, key)
  PROVE  /\ \A i \in S : <<i, i>> \in R
         /\ \A i, j \in S : <<i, j>> \in R \/ <<j, i>> \in R
         /\ \A i, j \in S : <<i, j>> \in R /\ <<j, i>> \in R => i = j
         /\ \A i, j, k \in S : <<i, j>> \in R /\ <<j, k>> \in R => <<i, k>> \in R
<1>0. \A i \in S : \A j \in S : <<j, i>> \in R <=> (key[j] < key[i] \/ (key[j] = key[i] /\ j <= i))
  BY DEF KeyOrder
<1>1. \A i \in S : <<i, i>> \in R
  BY <1>0 DEF Numbered
<1>2. ASSUME NEW i \in S, NEW j \in S PROVE <<i, j>> \in R \/ <<j, i>> \in R
  <2>1. i \in Nat /\ j \in Nat /\ key[i] \in Int /\ key[j] \in Int
    BY DEF Numbered
  <2>2. \/ key[i] < key[j] \/ (key[i] = key[j] /\ i <= j)
        \/ key[j] < key[i] \/ (key[j] = key[i] /\ j <= i)
    BY <2>1
  <2> QED
    BY <1>0, <2>2
<1>3. ASSUME NEW i \in S, NEW j \in S, <<i, j>> \in R, <<j, i>> \in R PROVE i = j
  <2>1. i \in Nat /\ j \in Nat /\ key[i] \in Int /\ key[j] \in Int
    BY DEF Numbered
  <2>2. /\ key[i] < key[j] \/ (key[i] = key[j] /\ i <= j)
        /\ key[j] < key[i] \/ (key[j] = key[i] /\ j <= i)
    BY <1>0, <1>3
  <2> QED
    BY <2>1, <2>2
<1>4. ASSUME NEW i \in S, NEW j \in S, NEW k \in S, <<i, j>> \in R, <<j, k>> \in R
      PROVE  <<i, k>> \in R
  <2>1. /\ key[i] < key[j] \/ (key[i] = key[j] /\ i <= j)
        /\ key[j] < key[k] \/ (key[j] = key[k] /\ j <= k)
    BY <1>0, <1>4
  <2>2. i \in Nat /\ j \in Nat /\ k \in Nat /\ key[i] \in Int /\ key[j] \in Int /\ key[k] \in Int
    BY DEF Numbered
  <2>3. key[i] < key[k] \/ (key[i] = key[k] /\ i <= k)
    BY <2>1, <2>2
  <2> QED
    BY <1>0, <2>3
<1> QED
  BY <1>1, <1>2, <1>3, <1>4

Timed(s) == \A i \in DOMAIN s : s[i].sig \in Int
LEMMA ByTimeDrawn ==
  ASSUME NEW X, NEW s \in Seq(X), Timed(s)
  PROVE  Drawn(Hook!ByTime(s), s, DOMAIN s)
<1>1. PICK S : S = DOMAIN s
  OBVIOUS
<1>2. S = 1..Len(s) /\ Len(s) \in Nat /\ IsFiniteSet(1..Len(s))
  BY <1>1, FS_Interval
<1>3. PICK key : key = [i \in S |-> s[i].sig]
  OBVIOUS
<1>4. Numbered(S, key)
  BY <1>1, <1>2, <1>3 DEF Timed, Numbered
<1>5. \A i, j \in S : Hook!NotAfter(s, j, i) <=> (key[j] < key[i] \/ (key[j] = key[i] /\ j <= i))
  BY <1>3, Zenon DEF Hook!NotAfter
<1>6. PICK R : R = KeyOrder(S, key)
  OBVIOUS
<1>7. \A i, j \in S : <<j, i>> \in R <=> Hook!NotAfter(s, j, i)
  <2>1. \A i \in S : \A j \in S : <<j, i>> \in R <=> (key[j] < key[i] \/ (key[j] = key[i] /\ j <= i))
    BY <1>6 DEF KeyOrder
  <2> QED
    BY <1>5, <2>1, Zenon
<1>8. PICK rank : rank = RankBy(S, R)
  OBVIOUS
<1>9. rank = [i \in S |-> Cardinality({j \in S : Hook!NotAfter(s, j, i)})]
  <2>1. \A i \in S : {j \in S : <<j, i>> \in R} = {j \in S : Hook!NotAfter(s, j, i)}
    BY <1>7
  <2> QED
    BY <1>8, <2>1 DEF RankBy
<1>10. Hook!ByTime(s) = Hook!Ranked(s, rank)
  BY <1>1, <1>9 DEF Hook!ByTime, Hook!Cardinality, Cardinality
<1>12. /\ \A i \in S : <<i, i>> \in R
       /\ \A i, j \in S : <<i, j>> \in R \/ <<j, i>> \in R
       /\ \A i, j \in S : <<i, j>> \in R /\ <<j, i>> \in R => i = j
       /\ \A i, j, k \in S : <<i, j>> \in R /\ <<j, k>> \in R => <<i, k>> \in R
  BY <1>4, <1>6, KeysOrder
<1>13. IsFiniteSet(S)
  BY <1>2
<1>14. Drawn(Hook!Ranked(s, rank), s, S)
  BY <1>8, <1>12, <1>13, RankedDrawn
<1> QED
  BY <1>1, <1>10, <1>14

LEMMA ReverseDrawn ==
  ASSUME NEW X, NEW s \in Seq(X)
  PROVE  Drawn(Hook!Reverse(s), s, DOMAIN s)
<1>1. PICK k \in Nat : k = Len(s) /\ DOMAIN s = 1..k
  OBVIOUS
<1>2. PICK f : f = [n \in 1..k |-> (k - n) + 1]
  OBVIOUS
<1>3. \A n \in 1..k : f[n] = (k - n) + 1 /\ f[n] \in 1..k
  BY <1>1, <1>2
<1>4. f \in [1..k -> 1..k] /\ \A m, n \in 1..k : f[m] = f[n] => m = n
  BY <1>2, <1>3
<1>5. Hook!Reverse(s) = [n \in 1..k |-> s[(k - n) + 1]]
  BY <1>1 DEF Hook!Reverse
<1>6. Hook!Reverse(s) = [n \in 1..k |-> s[f[n]]]
  BY <1>3, <1>5
<1>7. \E g \in [1..k -> 1..k] :
        /\ \A m, n \in 1..k : g[m] = g[n] => m = n
        /\ Hook!Reverse(s) = [n \in 1..k |-> s[g[n]]]
  BY <1>4, <1>6
<1> QED
  BY <1>1, <1>7 DEF Drawn

(* The newest of a list: nothing that is not in it, and nothing twice.     *)
LEMMA NewestFrom ==
  ASSUME NEW X, NEW s \in Seq(X), Distinct(s), NEW limit \in Nat
  PROVE  /\ Hook!Newest(s, limit) \in Seq(X) /\ Distinct(Hook!Newest(s, limit))
         /\ \A x \in Hook!ToSet(Hook!Newest(s, limit)) : x \in Hook!ToSet(s)
<1>1. PICK n : n = Len(s)
  OBVIOUS
<1>2. PICK m : m = IF n > limit THEN n - limit + 1 ELSE 1
  OBVIOUS
<1>3. n \in Nat /\ DOMAIN s = 1..n /\ m \in Nat /\ 1 <= m /\ m <= n + 1 /\ n <= Len(s)
  BY <1>1, <1>2
<1>4. PICK r : r = SubSeq(s, m, n)
  OBVIOUS
<1>5. r \in Seq(X) /\ Len(r) = n - m + 1 /\ \A k \in 1..Len(r) : r[k] = s[k + m - 1]
  BY <1>3, <1>4, Cut
<1>6. DOMAIN r = 1..Len(r) /\ \A k \in DOMAIN r : k \in Nat /\ k + m - 1 \in DOMAIN s /\ r[k] = s[k + m - 1]
  BY <1>3, <1>5
<1>7. Distinct(r)
  <2> SUFFICES ASSUME NEW i \in DOMAIN r, NEW j \in DOMAIN r, r[i] = r[j] PROVE i = j
    BY DEF Distinct
  <2>1. s[i + m - 1] = s[j + m - 1] /\ i + m - 1 \in DOMAIN s /\ j + m - 1 \in DOMAIN s
    BY <1>6
  <2>2. i + m - 1 = j + m - 1
    BY <2>1 DEF Distinct
  <2> QED
    BY <1>3, <1>6, <2>2
<1>8. PICK us : us = Hook!Reverse(r)
  OBVIOUS
<1>9. us \in Seq(X) /\ Distinct(us) /\ \A i \in DOMAIN us : \E j \in DOMAIN r : us[i] = r[j]
  <2>0. r \in Seq(X)
    BY <1>5
  <2>1. PICK S : S = DOMAIN r /\ S \subseteq DOMAIN r
    OBVIOUS
  <2>2. Drawn(us, r, S)
    BY <1>8, <2>0, <2>1, ReverseDrawn
  <2>3. us \in Seq(X) /\ (\A l \in DOMAIN us : \E i \in S : us[l] = r[i]) /\ (Distinct(r) => Distinct(us))
    BY <2>0, <2>1, <2>2, DrawnSeq DEF SequenceFrom
  <2> QED
    BY <1>7, <2>1, <2>3
<1>10. Hook!Newest(s, limit) = us
  BY <1>1, <1>2, <1>4, <1>8 DEF Hook!Newest
<1>11. \A x \in Hook!ToSet(us) : x \in Hook!ToSet(s)
  <2> SUFFICES ASSUME NEW i \in DOMAIN us PROVE us[i] \in {s[j] : j \in DOMAIN s}
    BY SameHook
  <2>1. PICK j \in DOMAIN r : us[i] = r[j]
    BY <1>9
  <2> QED
    BY <1>6, <2>1
<1> QED
  BY <1>9, <1>10, <1>11

(* The signatures to read are of the listing, and none of them twice.      *)
LEMMA FreshFrom ==
  ASSUME NEW X, NEW list \in Seq(X), Distinct(list), NEW first, NEW lastSig,
         NEW us, us = Hook!Fresh(list, first, lastSig)
  PROVE  /\ us \in Seq(X) /\ Distinct(us)
         /\ \A x \in Hook!ToSet(us) : x \in Hook!ToSet(list)
<1> DEFINE newer(i) == first \/ \A j \in 1..i : list[j] # lastSig
<1>1. PICK S : S = {i \in DOMAIN list : newer(i) /\ list[i] \notin Failed}
  OBVIOUS
<1> HIDE DEF newer
<1>2. PICK r : r = Hook!Kept(list, S)
  OBVIOUS
<1>3. us = Hook!Reverse(r)
  BY <1>1, <1>2 DEF Hook!Fresh, newer
<1>4. S \subseteq DOMAIN list
  BY <1>1
<1>5. r \in Seq(X) /\ Distinct(r) /\ \A n \in DOMAIN r : \E i \in S : r[n] = list[i]
  <2>1. Drawn(r, list, S)
    BY <1>2, <1>4, KeptDrawn
  <2>2. r \in Seq(X) /\ (\A n \in DOMAIN r : \E i \in S : r[n] = list[i]) /\ (Distinct(list) => Distinct(r))
    BY <1>4, <2>1, DrawnSeq DEF SequenceFrom
  <2> QED
    BY <2>2
<1>6. us \in Seq(X) /\ Distinct(us) /\ \A n \in DOMAIN us : \E i \in DOMAIN r : us[n] = r[i]
  <2>0. r \in Seq(X)
    BY <1>5
  <2>1. PICK D : D = DOMAIN r /\ D \subseteq DOMAIN r
    OBVIOUS
  <2>2. Drawn(us, r, D)
    BY <1>3, <2>0, <2>1, ReverseDrawn
  <2>3. us \in Seq(X) /\ (\A n \in DOMAIN us : \E i \in D : us[n] = r[i]) /\ (Distinct(r) => Distinct(us))
    <3>1. D \subseteq DOMAIN r
      BY <2>1
    <3>2. SequenceFrom(us, r, D, X)
      BY <2>0, <2>2, <3>1, DrawnSeq
    <3> QED
      BY <3>2 DEF SequenceFrom
  <2> QED
    BY <1>5, <2>1, <2>3
<1>7. ASSUME NEW n \in DOMAIN us PROVE \E i \in DOMAIN list : us[n] = list[i]
  BY <1>4, <1>5, <1>6
<1> QED
  BY <1>6, <1>7, SameHook

(* A list without its head.                                                *)
LEMMA TailFrom ==
  ASSUME NEW X, NEW s \in Seq(X), s # << >>, Distinct(s)
  PROVE  /\ Head(s) \in Hook!ToSet(s) /\ Tail(s) \in Seq(X) /\ Distinct(Tail(s))
         /\ \A x : x \in Hook!ToSet(Tail(s)) <=> x \in Hook!ToSet(s) /\ x # Head(s)
<1>1. PICK n \in Nat : n = Len(s) /\ n > 0 /\ DOMAIN s = 1..n
  OBVIOUS
<1>2. PICK us : us = Tail(s)
  OBVIOUS
<1>3. us \in Seq(X) /\ Len(us) = n - 1 /\ DOMAIN us = 1..(n - 1) /\ \A i \in 1..(n - 1) : us[i] = s[i + 1]
  BY <1>1, <1>2
<1>4. Head(s) = s[1] /\ 1 \in DOMAIN s
  BY <1>1
<1>5. \A i \in DOMAIN us : i \in Nat /\ i + 1 \in DOMAIN s /\ i + 1 # 1 /\ us[i] = s[i + 1]
  BY <1>1, <1>3
<1>6. Distinct(us)
  <2> SUFFICES ASSUME NEW i \in DOMAIN us, NEW j \in DOMAIN us, us[i] = us[j] PROVE i = j
    BY DEF Distinct
  <2>1. i + 1 = j + 1
    BY <1>5 DEF Distinct
  <2> QED
    BY <1>5, <2>1
<1>7. \A i \in DOMAIN us : us[i] # s[1] /\ us[i] \in {s[j] : j \in DOMAIN s}
  BY <1>4, <1>5 DEF Distinct
<1>8. ASSUME NEW j \in DOMAIN s, s[j] # s[1] PROVE s[j] \in {us[i] : i \in DOMAIN us}
  <2>1. j \in 1..n /\ j # 1
    BY <1>1, <1>8
  <2>2. j - 1 \in 1..(n - 1) /\ (j - 1) + 1 = j
    BY <1>1, <2>1
  <2> QED
    BY <1>3, <2>2
<1>9. \A x : x \in {us[i] : i \in DOMAIN us} <=> x \in {s[j] : j \in DOMAIN s} /\ x # s[1]
  BY <1>7, <1>8
<1>10. \A x : x \in Hook!ToSet(us) <=> x \in Hook!ToSet(s) /\ x # s[1]
  BY <1>9, SameHook
<1>11. Head(s) \in Hook!ToSet(s)
  BY <1>4, SameHook
<1> QED
  BY <1>2, <1>3, <1>4, <1>6, <1>10, <1>11

(* What webhook and poller have fed and what they are about to feed.       *)
Pos == Nat \ {0}
SwapRow == [sig : Pos, phase : Hook!Pools]
PollState ==
  [pc : {"idle", "listing", "listed", "next", "fetching"}, pool : Hook!Pools, first : BOOLEAN,
   list : Seq(Pos), rest : Seq(Pos)]
OfPool(s, p) == \A x \in Hook!ToSet(s) : x \in Hook!ToSet(chain[p])

(* A signature is on the chain of one pool, once.                          *)
ChainsOK ==
  /\ chain \in [Hook!Pools -> Seq(Pos)] /\ \E n \in Nat : Hook!OnChain = 1..n
  /\ \A p \in Hook!Pools : Distinct(chain[p])
  /\ \A p, q \in Hook!Pools, x \in Pos :
       x \in Hook!ToSet(chain[p]) /\ x \in Hook!ToSet(chain[q]) => p = q

(* One poll at a time: of a list of its pool, in which nothing is twice; a *)
(* first poll of a pool is one before its cursor moved.                    *)
PollOK(p) ==
  /\ Distinct(p.rest) /\ OfPool(p.rest, p.pool) /\ Distinct(p.list) /\ OfPool(p.list, p.pool)
  /\ p.pc = "fetching" => p.rest # << >>
PollsOK ==
  /\ poll \in [Ticks -> PollState] /\ \A t \in Ticks : PollOK(poll[t])
  /\ \A t \in Ticks : poll[t].pc # "idle" => polling
  /\ \A t, u \in Ticks : poll[t].pc # "idle" /\ poll[u].pc # "idle" => t = u

RequestsOK ==
  hook \in [Hooks -> Nat] /\ \A h \in Hooks : hook[h] # 0 => hook[h] \in Hook!ToSet(chain["meteora"])

(* The rows of a signature, the requests that fetch it, and the poll that  *)
(* is going to feed it: one that fetches it or, as a first poll, drops its *)
(* rows before it reads it again.                                          *)
Dues(p, x) ==
  \/ p.pc = "fetching" /\ x = Head(p.rest)
  \/ p.pc \in {"next", "fetching"} /\ p.first /\ x \in Hook!ToSet(p.rest)
Asked(hk, x) == {h \in Hooks : hk[h] = x}
DueIn(ps, x) == \E t \in Ticks : Dues(ps[t], x)
Load(ts, hk, ps, x) ==
  Cardinality(RowsOf(ts, x)) + Cardinality(Asked(hk, x)) + (IF DueIn(ps, x) THEN 1 ELSE 0)

(* Once seen, and unless a first poll is about to drop its rows, nothing   *)
(* adds to the load of a signature.                                        *)
Begun(x) ==
  /\ x \in seen
  /\ \A t \in Ticks :
       poll[t].pc = "listed" /\ poll[t].first => x \notin Hook!ToSet(chain[poll[t].pool])
LoadsFall ==
  \A x \in Pos : Begun(x) => Load(trades', hook', poll', x) <= Load(trades, hook, poll, x)

FaultsOK == feedFaults \in [list : {0}, fetch : Int, hook : Int, crash : {0}]

HookInv ==
  ChainsOK /\ trades \in Seq(SwapRow) /\ PollsOK /\ RequestsOK /\ FaultsOK
HookStep == HookInv' /\ LoadsFall

LEMMA AskedBounds ==
  ASSUME NEW hk, NEW x
  PROVE  /\ IsFiniteSet(Asked(hk, x)) /\ Cardinality(Asked(hk, x)) \in Nat
<1>1. IsFiniteSet(Hooks) /\ Asked(hk, x) \subseteq Hooks
  BY HooksAssumption DEF Asked
<1> QED
  BY <1>1, FS_Subset, FS_CardinalityType

LEMMA RowsBounds ==
  ASSUME NEW X, NEW ts \in Seq(X), NEW x
  PROVE  IsFiniteSet(RowsOf(ts, x)) /\ Cardinality(RowsOf(ts, x)) \in Nat
<1>1. DOMAIN ts = 1..Len(ts) /\ Len(ts) \in Nat
  OBVIOUS
<1>2. IsFiniteSet(DOMAIN ts)
  BY <1>1, FS_Interval
<1>3. IsFiniteSet(RowsOf(ts, x))
  BY <1>2, FS_Subset DEF RowsOf
<1> QED
  BY <1>3, FS_CardinalityType

(* What an empty list holds.                                               *)
LEMMA NothingListed ==
  /\ << >> \in Seq(Pos) /\ Distinct(<< >>) /\ Hook!ToSet(<< >>) = {} /\ \A p : OfPool(<< >>, p)
<1>1. << >> \in Seq(Pos) /\ DOMAIN << >> = {}
  OBVIOUS
<1>2. Distinct(<< >>)
  BY <1>1 DEF Distinct
<1>3. Hook!ToSet(<< >>) = {}
  BY <1>1, SameHook
<1> QED
  BY <1>1, <1>2, <1>3 DEF OfPool

(* A row appended.                                                         *)
RowAdded(us, ts, r) ==
  /\ us \in Seq(SwapRow)
  /\ \A x : x # r.sig => Cardinality(RowsOf(us, x)) = Cardinality(RowsOf(ts, x))
  /\ Cardinality(RowsOf(us, r.sig)) <= Cardinality(RowsOf(ts, r.sig)) + 1
LEMMA RowAppended ==
  ASSUME NEW ts \in Seq(SwapRow), NEW r \in SwapRow, NEW us, us = Append(ts, r)
  PROVE  RowAdded(us, ts, r)
<1>1. PICK n \in Nat : n = Len(ts) /\ DOMAIN ts = 1..n
  OBVIOUS
<1>2. us \in Seq(SwapRow) /\ Len(us) = n + 1 /\ us[n + 1] = r /\ \A i \in 1..n : us[i] = ts[i]
  BY <1>1
<1>3. DOMAIN us = 1..(n + 1)
  BY <1>2
<1>4. \A i \in DOMAIN us : i = n + 1 \/ i \in 1..n
  BY <1>3
<1>5. n + 1 \in DOMAIN us /\ \A i \in 1..n : i \in DOMAIN us
  BY <1>3
<1>7. ASSUME NEW x, x # r.sig PROVE RowsOf(us, x) = RowsOf(ts, x)
  BY <1>1, <1>2, <1>4, <1>5, <1>7 DEF RowsOf
<1>8. RowsOf(us, r.sig) = RowsOf(ts, r.sig) \cup {n + 1}
  BY <1>1, <1>2, <1>4, <1>5 DEF RowsOf
<1>9. Cardinality(RowsOf(us, r.sig)) <= Cardinality(RowsOf(ts, r.sig)) + 1
  <2>1. IsFiniteSet(RowsOf(ts, r.sig)) /\ Cardinality(RowsOf(ts, r.sig)) \in Nat
    BY RowsBounds
  <2>2. PICK S : S = RowsOf(ts, r.sig)
    OBVIOUS
  <2>3. IsFiniteSet(S) /\ Cardinality(S) \in Nat
    BY <2>1, <2>2
  <2>4. PICK m : m = n + 1
    OBVIOUS
  <2>5. Cardinality(S \cup {m}) <= Cardinality(S) + 1
    <3>1. Cardinality(S \cup {m}) = IF m \in S THEN Cardinality(S) ELSE Cardinality(S) + 1
      BY <2>3, FS_AddElement
    <3> QED
      BY <2>3, <3>1
  <2> QED
    BY <1>8, <2>2, <2>4, <2>5
<1> QED
  BY <1>2, <1>7, <1>9 DEF RowAdded

(* While one poll moves, the others are idle.                              *)
LEMMA OnlyPoll ==
  ASSUME PollsOK, NEW t \in Ticks, poll[t].pc # "idle" \/ ~polling, NEW p
  PROVE  /\ \A u \in Ticks : u # t => poll[u].pc = "idle"
         /\ \A x : DueIn(poll, x) <=> Dues(poll[t], x)
         /\ \A x : DueIn([poll EXCEPT ![t] = p], x) <=> Dues(p, x)
<1>1. \A u \in Ticks : u # t => poll[u].pc = "idle"
  BY DEF PollsOK
<1>2. \A u \in Ticks : u # t => \A x : ~Dues(poll[u], x)
  BY <1>1 DEF Dues
<1>3. PICK ps : ps = [poll EXCEPT ![t] = p]
  OBVIOUS
<1>4. ps[t] = p /\ \A u \in Ticks : u # t => ps[u] = poll[u]
  BY <1>3 DEF PollsOK
<1>5. \A x : DueIn(poll, x) <=> Dues(poll[t], x)
  BY <1>2 DEF DueIn
<1>6. \A x : DueIn(ps, x) <=> Dues(p, x)
  BY <1>2, <1>4 DEF DueIn
<1> QED
  BY <1>1, <1>3, <1>5, <1>6

(* A step of a poll that raises no load: it is no further due to feed x,   *)
(* or x is unseen or about to be dropped, or the one due is fed.           *)
LoadMoves(ts, us, p, q, x) ==
  \/ /\ Cardinality(RowsOf(us, x)) <= Cardinality(RowsOf(ts, x))
     /\ Dues(q, x) => Dues(p, x)
  \/ ~Begun(x)
  \/ /\ Cardinality(RowsOf(us, x)) <= Cardinality(RowsOf(ts, x)) + 1
     /\ Dues(p, x) /\ ~Dues(q, x)

LEMMA PollHappens ==
  ASSUME HookInv, NEW t \in Ticks, poll[t].pc # "idle" \/ ~polling,
         NEW q \in PollState, poll' = [poll EXCEPT ![t] = q], PollOK(q)',
         q.pc # "idle" => polling', UNCHANGED <<chain, hook>>,
         trades' \in Seq(SwapRow), FaultsOK',
         \A x \in Pos : LoadMoves(trades, trades', poll[t], q, x)
  PROVE  HookStep
<1>1. ChainsOK' /\ RequestsOK'
  <2>1. chain' = chain /\ hook' = hook /\ ChainsOK /\ RequestsOK
    BY DEF HookInv
  <2> QED
    BY <2>1 DEF ChainsOK, RequestsOK, Hook!OnChain
<1>2. PollsOK /\ \A u \in Ticks : u # t => poll[u].pc = "idle"
  BY OnlyPoll DEF HookInv
<1>3. poll'[t] = q /\ \A u \in Ticks : u # t => poll'[u] = poll[u]
  BY <1>2 DEF PollsOK
<1>4. PollsOK'
  <2>1. poll' \in [Ticks -> PollState]
    BY <1>2 DEF PollsOK
  <2>2. ASSUME NEW u \in Ticks, u # t PROVE PollOK(poll[u])'
    <3>1. PICK p : p = poll[u]
      OBVIOUS
    <3>2. PollOK(p) /\ p.pc = "idle" /\ poll'[u] = p
      BY <1>2, <1>3, <2>2, <3>1 DEF PollsOK
    <3>3. PollOK(p)'
      BY <3>2 DEF PollOK, OfPool
    <3> QED
      BY <3>2, <3>3
  <2>3. \A u \in Ticks : PollOK(poll[u])'
    BY <1>3, <2>2
  <2>4. \A u \in Ticks : poll'[u].pc # "idle" => u = t /\ polling'
    BY <1>2, <1>3
  <2> QED
    BY <2>1, <2>3, <2>4 DEF PollsOK
<1>5. ASSUME NEW x \in Pos, Begun(x)
      PROVE  Load(trades', hook', poll', x) <= Load(trades, hook, poll, x)
  <2>1. PICK ts, us, p, ps : ts = trades /\ us = trades' /\ p = poll[t] /\ ps = poll'
    OBVIOUS
  <2>2. /\ DueIn(poll, x) <=> Dues(p, x)
        /\ DueIn(ps, x) <=> Dues(q, x)
    BY <1>2, <2>1, OnlyPoll
  <2>3. /\ Cardinality(RowsOf(ts, x)) \in Nat /\ Cardinality(RowsOf(us, x)) \in Nat
        /\ Cardinality(Asked(hook, x)) \in Nat
    BY <2>1, RowsBounds, AskedBounds DEF HookInv
  <2>4. LoadMoves(ts, us, p, q, x)
    BY <2>1
  <2>5. Load(us, hook, ps, x) <= Load(ts, hook, poll, x)
    BY <1>5, <2>2, <2>3, <2>4 DEF Load, LoadMoves
  <2>6. hook' = hook
    OBVIOUS
  <2> QED
    BY <2>1, <2>5, <2>6
<1> QED
  BY <1>1, <1>4, <1>5 DEF HookInv, HookStep, LoadsFall

LEMMA PollIs ==
  ASSUME HookInv, NEW t \in Ticks, NEW p, p = poll[t]
  PROVE  /\ p \in PollState /\ PollOK(p) /\ p.pool \in Hook!Pools
         /\ p.rest \in Seq(Pos) /\ Distinct(p.rest) /\ p.list \in Seq(Pos)
         /\ poll \in [Ticks -> PollState]
<1>1. p \in PollState /\ PollOK(p) /\ poll \in [Ticks -> PollState]
  BY DEF HookInv, PollsOK
<1> QED
  BY <1>1 DEF PollState, PollOK

LEMMA PollBegins ==
  ASSUME NEW pool \in Hook!Pools, NEW q, q = Hook!At(pool)
  PROVE  q \in PollState /\ PollOK(q)' /\ \A x : ~Dues(q, x)
<1>1. /\ q = [pc |-> "listing", pool |-> pool, first |-> (last[pool] = 0), list |-> << >>, rest |-> << >>]
  BY DEF Hook!At, Hook!Idle
<1>2. /\ q.pc = "listing" /\ q.pool = pool /\ q.first \in BOOLEAN /\ q.list = << >> /\ q.rest = << >>
  BY <1>1
<1>3. q \in PollState
  BY <1>1, NothingListed DEF PollState
<1>4. PollOK(q)'
  BY <1>2, NothingListed DEF PollOK, OfPool
<1> QED
  BY <1>2, <1>3, <1>4 DEF Dues

LEMMA PollEnds ==
  Hook!Idle \in PollState /\ PollOK(Hook!Idle) /\ PollOK(Hook!Idle)' /\ \A x : ~Dues(Hook!Idle, x)
<1>1. /\ Hook!Idle.pc = "idle" /\ Hook!Idle.list = << >> /\ Hook!Idle.rest = << >>
  BY DEF Hook!Idle
<1>2. Hook!Idle \in PollState
  BY NothingListed DEF PollState, Hook!Idle, Hook!Pools
<1>3. PollOK(Hook!Idle) /\ PollOK(Hook!Idle)'
  BY <1>1, NothingListed DEF PollOK, OfPool
<1> QED
  BY <1>1, <1>2, <1>3 DEF Dues

LEMMA TimerFires ==
  ASSUME HookInv, NEW t \in Ticks, Hook!Tick(t)
  PROVE  HookStep
<1>1. PICK q : q = Hook!At("meteora")
  OBVIOUS
<1>2. /\ poll[t].pc = "idle" /\ ~polling /\ polling' = TRUE /\ poll' = [poll EXCEPT ![t] = q]
      /\ UNCHANGED <<chain, trades, seen, hook, feedFaults>>
  BY <1>1 DEF Hook!Tick, Hook!may_poll, Hook!env
<1>3. q \in PollState /\ PollOK(q)' /\ \A x : ~Dues(q, x)
  BY <1>1, PollBegins DEF Hook!Pools
<1>4. trades' \in Seq(SwapRow) /\ FaultsOK'
  BY <1>2 DEF HookInv, FaultsOK
<1>5. ASSUME NEW x \in Pos PROVE LoadMoves(trades, trades', poll[t], q, x)
  BY <1>2, <1>3, RowsBounds DEF LoadMoves, HookInv
<1> QED
  BY <1>2, <1>3, <1>4, <1>5, PollHappens

LEMMA PollLists ==
  ASSUME HookInv, NEW t \in Ticks, Hook!List(t)
  PROVE  HookStep
<1>1. PICK p : p = poll[t]
  OBVIOUS
<1>2. PICK n : n = IF p.first THEN FirstLimit ELSE Limit
  OBVIOUS
<1>3. PICK l : l = Hook!Newest(chain[p.pool], n)
  OBVIOUS
<1>4. PICK q : q = [p EXCEPT !.pc = "listed", !.list = l]
  OBVIOUS
<1>5. /\ p.pc = "listing" /\ poll' = [poll EXCEPT ![t].pc = "listed", ![t].list = l]
      /\ UNCHANGED <<chain, trades, seen, polling, hook, feedFaults>>
  BY <1>1, <1>2, <1>3 DEF Hook!List, Hook!env
<1>6. /\ p \in PollState /\ PollOK(p) /\ p.pool \in Hook!Pools /\ p.rest \in Seq(Pos)
      /\ poll \in [Ticks -> PollState]
  BY <1>1, PollIs
<1>7. poll' = [poll EXCEPT ![t] = q]
  BY <1>1, <1>4, <1>5, <1>6
<1>8. /\ q = [pc |-> "listed", pool |-> p.pool, first |-> p.first, list |-> l, rest |-> p.rest]
      /\ q.pc = "listed" /\ q.pool = p.pool /\ q.list = l /\ q.rest = p.rest
  BY <1>4, <1>6 DEF PollState
<1>9. PICK c : c = chain[p.pool]
  OBVIOUS
<1>10. c \in Seq(Pos) /\ Distinct(c) /\ n \in Nat
  BY <1>2, <1>6, <1>9, HooksAssumption DEF HookInv, ChainsOK
<1>11. l \in Seq(Pos) /\ Distinct(l) /\ \A x \in Hook!ToSet(l) : x \in Hook!ToSet(c)
  <2>1. /\ Hook!Newest(c, n) \in Seq(Pos) /\ Distinct(Hook!Newest(c, n))
        /\ \A x \in Hook!ToSet(Hook!Newest(c, n)) : x \in Hook!ToSet(c)
    BY <1>10, NewestFrom
  <2>2. l = Hook!Newest(c, n)
    BY <1>3, <1>9
  <2> QED
    BY <2>1, <2>2
<1>12. q \in PollState
  <2>1. p.first \in BOOLEAN
    BY <1>6 DEF PollState
  <2> QED
    BY <1>6, <1>8, <1>11, <2>1 DEF PollState
<1>13. PollOK(q)'
  BY <1>5, <1>6, <1>8, <1>9, <1>11 DEF PollOK, OfPool
<1>14. trades' \in Seq(SwapRow) /\ FaultsOK'
  BY <1>5 DEF HookInv, FaultsOK
<1>15. ASSUME NEW x \in Pos PROVE LoadMoves(trades, trades', poll[t], q, x)
  BY <1>5, <1>8, RowsBounds DEF LoadMoves, HookInv, Dues
<1>16. poll[t].pc # "idle" /\ polling'
  BY <1>1, <1>5 DEF HookInv, PollsOK
<1> QED
  BY <1>5, <1>7, <1>12, <1>13, <1>14, <1>15, <1>16, PollHappens

(* A feed drawn from the feed raises no load.                              *)
LEMMA FeedDrawn ==
  ASSUME trades \in Seq(SwapRow), NEW S, S \subseteq DOMAIN trades, NEW ts, Drawn(ts, trades, S)
  PROVE  /\ ts \in Seq(SwapRow)
         /\ \A x : Cardinality(RowsOf(ts, x)) <= Cardinality(RowsOf(trades, x))
<1>1. PICK tr, X : tr = trades /\ X = SwapRow
  OBVIOUS
<1>2. tr \in Seq(X) /\ S \subseteq DOMAIN tr /\ Drawn(ts, tr, S)
  BY <1>1
<1>3. SequenceFrom(ts, tr, S, X)
  BY <1>2, DrawnSeq
<1>4. \A x : Cardinality(RowsOf(ts, x)) <= Cardinality(RowsOf(tr, x))
  BY <1>2, DrawnRows
<1> QED
  BY <1>1, <1>3, <1>4 DEF SequenceFrom

LEMMA PollMerges ==
  ASSUME HookInv, NEW t \in Ticks, Hook!Merge(t)
  PROVE  HookStep
<1>1. PICK p : p = poll[t]
  OBVIOUS
<1>2. PICK l : l = Hook!Fresh(p.list, p.first, last[p.pool])
  OBVIOUS
<1>3. PICK ts : ts = IF p.first THEN Hook!WithoutPhase(trades, p.pool) ELSE trades
  OBVIOUS
<1>4. PICK q : q = [p EXCEPT !.pc = "next", !.rest = l]
  OBVIOUS
<1>5. /\ p.pc = "listed" /\ poll' = [poll EXCEPT ![t].pc = "next", ![t].rest = l] /\ trades' = ts
      /\ UNCHANGED <<chain, seen, polling, hook, feedFaults>>
  BY <1>1, <1>2, <1>3 DEF Hook!Merge, Hook!env
<1>6. /\ p \in PollState /\ PollOK(p) /\ p.pool \in Hook!Pools /\ p.list \in Seq(Pos)
      /\ poll \in [Ticks -> PollState]
  BY <1>1, PollIs
<1>7. poll' = [poll EXCEPT ![t] = q]
  BY <1>1, <1>4, <1>5, <1>6
<1>8. /\ q = [pc |-> "next", pool |-> p.pool, first |-> p.first, list |-> p.list, rest |-> l]
      /\ q.pc = "next" /\ q.pool = p.pool /\ q.first = p.first /\ q.list = p.list /\ q.rest = l
  BY <1>4, <1>6 DEF PollState
<1>9. l \in Seq(Pos) /\ Distinct(l) /\ \A x \in Hook!ToSet(l) : x \in Hook!ToSet(p.list)
  <2>1. p.list \in Seq(Pos) /\ Distinct(p.list)
    BY <1>6 DEF PollOK
  <2>2. PICK list, first, from : list = p.list /\ first = p.first /\ from = last[p.pool]
    OBVIOUS
  <2>3. list \in Seq(Pos) /\ Distinct(list) /\ l = Hook!Fresh(list, first, from)
    BY <1>2, <2>1, <2>2
  <2>4. l \in Seq(Pos) /\ Distinct(l) /\ \A x \in Hook!ToSet(l) : x \in Hook!ToSet(list)
    BY <2>3, FreshFrom
  <2> QED
    BY <2>2, <2>4
<1>10. q \in PollState
  <2>1. p.first \in BOOLEAN
    BY <1>6 DEF PollState
  <2> QED
    BY <1>6, <1>8, <1>9, <2>1 DEF PollState
<1>11. PollOK(q)'
  BY <1>5, <1>6, <1>8, <1>9 DEF PollOK, OfPool
<1>12. trades \in Seq(SwapRow)
  BY DEF HookInv
<1>13. CASE p.first
  <2>1. PICK S : S = {i \in DOMAIN trades : trades[i].phase # p.pool}
    OBVIOUS
  <2>2. S \subseteq DOMAIN trades
    BY <2>1
  <2>3. PICK tr : tr = trades
    OBVIOUS
  <2>4. Drawn(ts, trades, S)
    <3>1. ts = Hook!Kept(tr, S)
      BY <1>3, <1>13, <2>1, <2>3 DEF Hook!WithoutPhase
    <3>2. tr \in Seq(SwapRow) /\ S \subseteq DOMAIN tr
      BY <1>12, <2>2, <2>3
    <3>3. Drawn(Hook!Kept(tr, S), tr, S)
      BY <3>2, KeptDrawn
    <3> QED
      BY <2>3, <3>1, <3>3
  <2>5. /\ ts \in Seq(SwapRow)
        /\ \A x : Cardinality(RowsOf(ts, x)) <= Cardinality(RowsOf(trades, x))
    BY <1>12, <2>2, <2>4, FeedDrawn
  <2>6. trades' \in Seq(SwapRow) /\ FaultsOK'
    BY <1>5, <2>5 DEF HookInv, FaultsOK
  <2>7. ASSUME NEW x \in Pos, x \in Hook!ToSet(l) PROVE ~Begun(x)
    <3>1. x \in Hook!ToSet(chain[p.pool])
      BY <1>6, <1>9, <2>7 DEF PollOK, OfPool
    <3> QED
      BY <1>1, <1>5, <1>13, <3>1 DEF Begun
  <2>8. ASSUME NEW x \in Pos PROVE LoadMoves(trades, trades', poll[t], q, x)
    <3>1. Dues(q, x) => x \in Hook!ToSet(l)
      BY <1>8 DEF Dues
    <3> QED
      BY <1>5, <2>5, <2>7, <3>1 DEF LoadMoves
  <2>9. poll[t].pc # "idle" /\ polling'
    BY <1>1, <1>5 DEF HookInv, PollsOK
  <2> QED
    BY <1>5, <1>7, <1>10, <1>11, <2>6, <2>8, <2>9, PollHappens
<1>14. CASE ~p.first
  <2>1. ts = trades
    BY <1>3, <1>14
  <2>2. trades' \in Seq(SwapRow) /\ FaultsOK'
    BY <1>5, <2>1 DEF HookInv, FaultsOK
  <2>3. ASSUME NEW x \in Pos PROVE LoadMoves(trades, trades', poll[t], q, x)
    BY <1>5, <1>8, <1>14, <2>1, <1>12, RowsBounds DEF LoadMoves, Dues
  <2>4. poll[t].pc # "idle" /\ polling'
    BY <1>1, <1>5 DEF HookInv, PollsOK
  <2> QED
    BY <1>5, <1>7, <1>10, <1>11, <2>2, <2>3, <2>4, PollHappens
<1> QED
  BY <1>13, <1>14

(* A signature of the list is done with.                                   *)
PastHead(p) == [p EXCEPT !.pc = "next", !.rest = Tail(p.rest)]
LEMMA SignatureDone ==
  ASSUME HookInv, NEW p \in PollState, PollOK(p), p.pc \in {"next", "fetching"}, p.rest # << >>,
         NEW q, q = PastHead(p), chain' = chain
  PROVE  /\ q \in PollState /\ PollOK(q)' /\ q.pc = "next" /\ ~Dues(q, Head(p.rest))
         /\ \A x : Dues(q, x) => Dues(p, x)
<1>1. /\ p.rest \in Seq(Pos) /\ Distinct(p.rest) /\ p.pool \in Hook!Pools /\ p.first \in BOOLEAN
      /\ p.list \in Seq(Pos)
  BY DEF PollState, PollOK
<1>2. PICK r : r = p.rest
  OBVIOUS
<1>3. PICK l : l = Tail(r)
  OBVIOUS
<1>4. /\ l \in Seq(Pos) /\ Distinct(l)
      /\ \A x : x \in Hook!ToSet(l) <=> x \in Hook!ToSet(r) /\ x # Head(r)
  <2>1. r \in Seq(Pos) /\ r # << >> /\ Distinct(r)
    BY <1>1, <1>2
  <2>2. /\ Tail(r) \in Seq(Pos) /\ Distinct(Tail(r))
        /\ \A x : x \in Hook!ToSet(Tail(r)) <=> x \in Hook!ToSet(r) /\ x # Head(r)
    BY <2>1, TailFrom
  <2> QED
    BY <1>3, <2>2
<1>5. /\ q = [pc |-> "next", pool |-> p.pool, first |-> p.first, list |-> p.list, rest |-> l]
      /\ q.pc = "next" /\ q.pool = p.pool /\ q.first = p.first /\ q.list = p.list /\ q.rest = l
  BY <1>2, <1>3 DEF PollState, PastHead
<1>6. q \in PollState
  BY <1>1, <1>4, <1>5 DEF PollState
<1>7. PollOK(q)'
  BY <1>2, <1>4, <1>5 DEF PollOK, OfPool
<1>8. \A x : Dues(q, x) <=> p.first /\ x \in Hook!ToSet(r) /\ x # Head(r)
  BY <1>4, <1>5 DEF Dues
<1>9. \A x : Dues(q, x) => Dues(p, x)
  BY <1>2, <1>8 DEF Dues
<1> QED
  BY <1>2, <1>5, <1>6, <1>7, <1>8, <1>9

LEMMA PollSkips ==
  ASSUME HookInv, NEW t \in Ticks, Hook!Skip(t)
  PROVE  HookStep
<1>1. PICK p : p = poll[t]
  OBVIOUS
<1>2. PICK q : q = PastHead(p)
  OBVIOUS
<1>3. /\ p.pc = "next" /\ p.rest # << >> /\ poll' = [poll EXCEPT ![t].rest = Tail(@)]
      /\ UNCHANGED <<chain, trades, seen, polling, hook, feedFaults>>
  BY <1>1 DEF Hook!Skip, Hook!env
<1>4. p \in PollState /\ PollOK(p) /\ poll \in [Ticks -> PollState]
  BY <1>1, PollIs
<1>5. poll' = [poll EXCEPT ![t] = q]
  <2>1. [p EXCEPT !.rest = Tail(p.rest)] = q
    BY <1>2, <1>3, <1>4 DEF PollState, PastHead
  <2>2. poll' = [poll EXCEPT ![t] = [p EXCEPT !.rest = Tail(p.rest)]]
    BY <1>1, <1>3, <1>4
  <2> QED
    BY <2>1, <2>2
<1>6. q \in PollState /\ PollOK(q)' /\ \A x : Dues(q, x) => Dues(p, x)
  BY <1>2, <1>3, <1>4, SignatureDone
<1>7. trades' \in Seq(SwapRow) /\ FaultsOK'
  BY <1>3 DEF HookInv, FaultsOK
<1>8. ASSUME NEW x \in Pos PROVE LoadMoves(trades, trades', poll[t], q, x)
  BY <1>1, <1>3, <1>6, RowsBounds DEF LoadMoves, HookInv
<1>9. poll[t].pc # "idle" /\ polling'
  BY <1>1, <1>3 DEF HookInv, PollsOK
<1> QED
  BY <1>3, <1>5, <1>6, <1>7, <1>8, <1>9, PollHappens

(* What a poll takes is unseen unless it is a first poll, which was due to *)
(* feed it already.                                                        *)
LEMMA PollTakes ==
  ASSUME HookInv, NEW t \in Ticks, Hook!Take(t)
  PROVE  HookStep
<1>1. PICK p : p = poll[t]
  OBVIOUS
<1>2. PICK q : q = [p EXCEPT !.pc = "fetching"]
  OBVIOUS
<1>3. PICK r : r = p.rest
  OBVIOUS
<1>4. /\ p.pc = "next" /\ r # << >> /\ (p.first \/ Head(r) \notin seen)
      /\ poll' = [poll EXCEPT ![t].pc = "fetching"] /\ seen' = seen \cup {Head(r)}
      /\ UNCHANGED <<chain, trades, polling, hook, feedFaults>>
  BY <1>1, <1>3 DEF Hook!Take, Hook!env
<1>5. p \in PollState /\ PollOK(p) /\ r \in Seq(Pos) /\ Distinct(r) /\ poll \in [Ticks -> PollState]
  BY <1>1, <1>3, PollIs
<1>6. poll' = [poll EXCEPT ![t] = q]
  BY <1>1, <1>2, <1>4, <1>5
<1>7. /\ q = [pc |-> "fetching", pool |-> p.pool, first |-> p.first, list |-> p.list, rest |-> r]
      /\ q.pc = "fetching" /\ q.pool = p.pool /\ q.first = p.first /\ q.list = p.list /\ q.rest = r
  BY <1>2, <1>3, <1>5 DEF PollState
<1>8. q \in PollState
  BY <1>3, <1>5, <1>7 DEF PollState
<1>9. PollOK(q)'
  BY <1>3, <1>4, <1>5, <1>7 DEF PollOK, OfPool
<1>10. trades' \in Seq(SwapRow) /\ FaultsOK'
  BY <1>4 DEF HookInv, FaultsOK
<1>11. Head(r) \in Hook!ToSet(r)
  BY <1>4, <1>5, TailFrom
<1>12. ASSUME NEW x \in Pos PROVE LoadMoves(trades, trades', poll[t], q, x)
  <2>1. CASE p.first \/ x # Head(r)
    <3>1. Dues(q, x) => Dues(p, x)
      BY <1>3, <1>4, <1>7, <1>11, <2>1 DEF Dues
    <3> QED
      BY <1>1, <1>4, <3>1, RowsBounds DEF LoadMoves, HookInv
  <2>2. CASE ~p.first /\ x = Head(r)
    BY <1>4, <2>2 DEF LoadMoves, Begun
  <2> QED
    BY <2>1, <2>2
<1>13. poll[t].pc # "idle" /\ polling'
  BY <1>1, <1>4 DEF HookInv, PollsOK
<1> QED
  BY <1>4, <1>6, <1>8, <1>9, <1>10, <1>12, <1>13, PollHappens

LEMMA FetchFailed ==
  ASSUME HookInv, NEW t \in Ticks, Hook!FetchFails(t)
  PROVE  HookStep
<1>1. PICK p : p = poll[t]
  OBVIOUS
<1>2. PICK q : q = PastHead(p)
  OBVIOUS
<1>3. /\ p.pc = "fetching" /\ poll' = [poll EXCEPT ![t].pc = "next", ![t].rest = Tail(@)]
      /\ feedFaults' = [feedFaults EXCEPT !["fetch"] = @ - 1]
      /\ UNCHANGED <<chain, trades, seen, polling, hook>>
  BY <1>1 DEF Hook!FetchFails, Hook!Fetched, Hook!Fault, Hook!env
<1>4. p \in PollState /\ PollOK(p) /\ poll \in [Ticks -> PollState] /\ p.rest # << >>
  BY <1>1, <1>3, PollIs DEF PollOK
<1>5. poll' = [poll EXCEPT ![t] = q]
  BY <1>1, <1>2, <1>3, <1>4 DEF PastHead
<1>6. q \in PollState /\ PollOK(q)' /\ \A x : Dues(q, x) => Dues(p, x)
  BY <1>2, <1>3, <1>4, SignatureDone
<1>7. trades' \in Seq(SwapRow)
  BY <1>3 DEF HookInv
<1>8. FaultsOK'
  BY <1>3 DEF HookInv, FaultsOK
<1>9. ASSUME NEW x \in Pos PROVE LoadMoves(trades, trades', poll[t], q, x)
  BY <1>1, <1>3, <1>6, RowsBounds DEF LoadMoves, HookInv
<1>10. poll[t].pc # "idle" /\ polling'
  BY <1>1, <1>3 DEF HookInv, PollsOK
<1> QED
  BY <1>3, <1>5, <1>6, <1>7, <1>8, <1>9, <1>10, PollHappens

(* A row of a signature, if it is a swap.                                  *)
LEMMA RowFed ==
  ASSUME HookInv, NEW s \in Pos, NEW pool \in Hook!Pools, Hook!Feed(s, pool)
  PROVE  /\ trades' \in Seq(SwapRow)
         /\ \A x \in Pos : x # s => Cardinality(RowsOf(trades', x)) = Cardinality(RowsOf(trades, x))
         /\ Cardinality(RowsOf(trades', s)) <= Cardinality(RowsOf(trades, s)) + 1
<1>1. PICK ts, us : ts = trades /\ us = trades'
  OBVIOUS
<1>2. ts \in Seq(SwapRow)
  BY <1>1 DEF HookInv
<1>3. CASE us = ts
  <2>1. Cardinality(RowsOf(ts, s)) \in Nat
    BY <1>2, RowsBounds
  <2>2. Cardinality(RowsOf(us, s)) <= Cardinality(RowsOf(ts, s)) + 1
    BY <1>3, <2>1
  <2> QED
    BY <1>1, <1>2, <1>3, <2>2
<1>4. CASE us # ts
  <2>1. PICK r : r = [sig |-> s, phase |-> pool]
    OBVIOUS
  <2>2. r \in SwapRow /\ r.sig = s /\ us = Append(ts, r)
    BY <1>1, <1>4, <2>1 DEF SwapRow, Hook!Feed
  <2>3. RowAdded(us, ts, r)
    <3>1. ts \in Seq(SwapRow) /\ r \in SwapRow /\ us = Append(ts, r)
      BY <1>2, <2>2
    <3> QED
      BY <3>1, RowAppended
  <2> QED
    BY <1>1, <2>2, <2>3 DEF RowAdded
<1> QED
  BY <1>3, <1>4

LEMMA PollRecords ==
  ASSUME HookInv, NEW t \in Ticks, Hook!Record(t)
  PROVE  HookStep
<1>1. PICK p : p = poll[t]
  OBVIOUS
<1>2. PICK q : q = PastHead(p)
  OBVIOUS
<1>3. PICK s : s = Head(p.rest)
  OBVIOUS
<1>4. /\ p.pc = "fetching" /\ poll' = [poll EXCEPT ![t].pc = "next", ![t].rest = Tail(@)]
      /\ Hook!Feed(s, p.pool) /\ UNCHANGED <<chain, seen, polling, hook, feedFaults>>
  BY <1>1, <1>3 DEF Hook!Record, Hook!Fetched, Hook!env
<1>5. /\ p \in PollState /\ PollOK(p) /\ poll \in [Ticks -> PollState] /\ p.rest # << >>
      /\ p.pool \in Hook!Pools /\ p.rest \in Seq(Pos) /\ Distinct(p.rest)
  BY <1>1, <1>3, <1>4, PollIs DEF PollOK
<1>6. poll' = [poll EXCEPT ![t] = q]
  BY <1>1, <1>2, <1>4, <1>5 DEF PastHead
<1>7. q \in PollState /\ PollOK(q)' /\ ~Dues(q, s) /\ \A x : Dues(q, x) => Dues(p, x)
  BY <1>2, <1>3, <1>4, <1>5, SignatureDone
<1>8. s \in Hook!ToSet(p.rest) /\ s \in Pos
  <2>1. s \in Hook!ToSet(p.rest)
    BY <1>3, <1>5, TailFrom
  <2> QED
    BY <1>5, <2>1, SameHook
<1>9. PICK pool : pool = p.pool
  OBVIOUS
<1>10. pool \in Hook!Pools /\ Hook!Feed(s, pool)
  BY <1>4, <1>5, <1>9
<1>12. /\ trades' \in Seq(SwapRow)
       /\ \A x \in Pos : x # s => Cardinality(RowsOf(trades', x)) = Cardinality(RowsOf(trades, x))
       /\ Cardinality(RowsOf(trades', s)) <= Cardinality(RowsOf(trades, s)) + 1
  BY <1>8, <1>10, RowFed
<1>13. FaultsOK'
  BY <1>4 DEF HookInv, FaultsOK
<1>14. ASSUME NEW x \in Pos PROVE LoadMoves(trades, trades', poll[t], q, x)
  <2>1. CASE x = s
    <3>1. Dues(p, x)
      BY <1>3, <1>4, <2>1 DEF Dues
    <3> QED
      BY <1>1, <1>7, <1>12, <2>1, <3>1 DEF LoadMoves
  <2>2. CASE x # s
    <3>1. Cardinality(RowsOf(trades', x)) = Cardinality(RowsOf(trades, x))
      BY <1>12, <2>2
    <3>2. Cardinality(RowsOf(trades, x)) \in Nat
      BY RowsBounds DEF HookInv
    <3> QED
      BY <1>1, <1>7, <3>1, <3>2 DEF LoadMoves
  <2> QED
    BY <2>1, <2>2
<1>15. poll[t].pc # "idle" /\ polling'
  BY <1>1, <1>4 DEF HookInv, PollsOK
<1> QED
  BY <1>4, <1>6, <1>7, <1>12, <1>13, <1>14, <1>15, PollHappens

LEMMA PollDone ==
  ASSUME HookInv, NEW t \in Ticks, Hook!Done(t)
  PROVE  HookStep
<1>1. PICK p : p = poll[t]
  OBVIOUS
<1>2. PICK more : more = (p.pool = "meteora" /\ migrated)
  OBVIOUS
<1>3. PICK q : q = IF more THEN Hook!At("meteora_amm") ELSE Hook!Idle
  OBVIOUS
<1>4. PICK ts : ts = IF p.first THEN Hook!ByTime(trades) ELSE trades
  OBVIOUS
<1>5. /\ p.pc = "next" /\ poll' = [poll EXCEPT ![t] = q] /\ trades' = ts /\ (polling' <=> more)
      /\ UNCHANGED <<chain, seen, hook, feedFaults>>
  BY <1>1, <1>2, <1>3, <1>4 DEF Hook!Done, Hook!env
<1>6. q \in PollState /\ PollOK(q)' /\ \A x : ~Dues(q, x)
  <2>1. CASE more
    <3>1. PICK pool \in Hook!Pools : pool = "meteora_amm"
      BY DEF Hook!Pools
    <3>2. q = Hook!At(pool)
      BY <1>3, <2>1, <3>1
    <3> QED
      BY <3>2, PollBegins
  <2>2. CASE ~more
    BY <1>3, <2>2, PollEnds
  <2> QED
    BY <2>1, <2>2
<1>7. q.pc # "idle" => polling'
  <2>1. Hook!Idle.pc = "idle"
    BY DEF Hook!Idle
  <2> QED
    BY <1>3, <1>5, <2>1
<1>8. /\ trades' \in Seq(SwapRow)
      /\ \A x : Cardinality(RowsOf(ts, x)) <= Cardinality(RowsOf(trades, x))
  <2>1. trades \in Seq(SwapRow)
    BY DEF HookInv
  <2>2. CASE p.first
    <3>1. PICK tr, S : tr = trades /\ S = DOMAIN trades
      OBVIOUS
    <3>2. tr \in Seq(SwapRow) /\ S \subseteq DOMAIN trades
      BY <2>1, <3>1
    <3>3. Timed(tr)
      <4>1. \A i \in DOMAIN tr : tr[i] \in SwapRow
        BY <3>2
      <4> QED
        BY <4>1 DEF Timed, SwapRow, Pos
    <3>4. Drawn(Hook!ByTime(tr), tr, DOMAIN tr)
      BY <3>2, <3>3, ByTimeDrawn
    <3>5. Drawn(ts, trades, S)
      BY <1>4, <2>2, <3>1, <3>4
    <3>6. /\ ts \in Seq(SwapRow)
          /\ \A x : Cardinality(RowsOf(ts, x)) <= Cardinality(RowsOf(trades, x))
      BY <2>1, <3>2, <3>5, FeedDrawn
    <3> QED
      BY <1>5, <3>6
  <2>3. CASE ~p.first
    <3>1. ts = trades
      BY <1>4, <2>3
    <3>2. \A x : Cardinality(RowsOf(trades, x)) \in Nat
      BY <2>1, RowsBounds
    <3> QED
      BY <1>5, <2>1, <3>1, <3>2
  <2> QED
    BY <2>2, <2>3
<1>9. FaultsOK'
  BY <1>5 DEF HookInv, FaultsOK
<1>10. ASSUME NEW x \in Pos PROVE LoadMoves(trades, trades', poll[t], q, x)
  BY <1>5, <1>6, <1>8 DEF LoadMoves
<1>11. poll[t].pc # "idle"
  BY <1>1, <1>5
<1> QED
  BY <1>5, <1>6, <1>7, <1>8, <1>9, <1>10, <1>11, PollHappens

(* A request is made, or ends.                                             *)
LEMMA RequestHappens ==
  ASSUME HookInv, UNCHANGED <<chain, polling, poll>>,
         trades' \in Seq(SwapRow), RequestsOK', FaultsOK',
         \A x \in Pos : Begun(x) => Load(trades', hook', poll, x) <= Load(trades, hook, poll, x)
  PROVE  HookStep
<1>1. ChainsOK'
  BY DEF HookInv, ChainsOK, Hook!OnChain
<1>2. PollsOK'
  <2>1. \A t \in Ticks : PollOK(poll[t])'
    <3> SUFFICES ASSUME NEW t \in Ticks PROVE PollOK(poll[t])'
      OBVIOUS
    <3>1. PICK p : p = poll[t]
      OBVIOUS
    <3>2. PollOK(p)
      BY <3>1 DEF HookInv, PollsOK
    <3>3. PollOK(p)'
      BY <3>2 DEF PollOK, OfPool
    <3> QED
      BY <3>1, <3>3
  <2> QED
    BY <2>1 DEF HookInv, PollsOK
<1>3. LoadsFall
  <2>1. poll' = poll
    OBVIOUS
  <2> QED
    BY <2>1 DEF LoadsFall
<1> QED
  BY <1>1, <1>2, <1>3 DEF HookInv, HookStep

LEMMA Delivered ==
  ASSUME HookInv, NEW h \in Hooks, Hook!HookDeliver(h)
  PROVE  HookStep
<1>1. PICK s \in Hook!ToSet(chain["meteora"]) :
        /\ s \notin seen /\ hook' = [hook EXCEPT ![h] = s]
        /\ UNCHANGED <<chain, trades, seen, polling, poll, feedFaults>>
  BY DEF Hook!HookDeliver, Hook!unseen, Hook!env
<1>2. s \in Pos
  <2>1. PICK c : c = chain["meteora"]
    OBVIOUS
  <2>2. c \in Seq(Pos)
    BY <2>1 DEF HookInv, ChainsOK, Hook!Pools
  <2>3. s \in {c[i] : i \in DOMAIN c}
    BY <2>1, SameHook
  <2> QED
    BY <2>2, <2>3
<1>3. hook \in [Hooks -> Nat] /\ hook' \in [Hooks -> Nat] /\ hook'[h] = s
      /\ \A g \in Hooks : g # h => hook'[g] = hook[g]
  BY <1>1, <1>2 DEF HookInv, RequestsOK, Pos
<1>4. RequestsOK'
  BY <1>1, <1>3 DEF HookInv, RequestsOK
<1>5. trades' \in Seq(SwapRow) /\ FaultsOK'
  BY <1>1 DEF HookInv, FaultsOK
<1>6. ASSUME NEW x \in Pos, Begun(x)
      PROVE  Load(trades', hook', poll, x) <= Load(trades, hook, poll, x)
  <2>1. PICK hk : hk = hook'
    OBVIOUS
  <2>2. /\ IsFiniteSet(Asked(hook, x)) /\ Cardinality(Asked(hook, x)) \in Nat
        /\ Cardinality(Asked(hk, x)) \in Nat
    BY AskedBounds
  <2>3. Cardinality(RowsOf(trades, x)) \in Nat
    BY RowsBounds DEF HookInv
  <2>4. x # s
    BY <1>1, <1>6 DEF Begun
  <2>5. Asked(hk, x) \subseteq Asked(hook, x)
    BY <1>3, <2>1, <2>4 DEF Asked
  <2>6. Cardinality(Asked(hk, x)) <= Cardinality(Asked(hook, x))
    BY <2>2, <2>5, FS_Subset
  <2>7. Load(trades, hk, poll, x) <= Load(trades, hook, poll, x)
    BY <2>2, <2>3, <2>6 DEF Load
  <2> QED
    BY <1>1, <2>1, <2>7
<1> QED
  BY <1>1, <1>4, <1>5, <1>6, RequestHappens

(* A request that ends leaves its signature to the others.                 *)
LEMMA RequestEnds ==
  ASSUME HookInv, NEW h \in Hooks, hook[h] # 0, NEW hk, hk = [hook EXCEPT ![h] = 0]
  PROVE  /\ hk \in [Hooks -> Nat] /\ \A g \in Hooks : hk[g] # 0 => hk[g] = hook[g]
         /\ \A x \in Pos : x # hook[h] => Cardinality(Asked(hk, x)) = Cardinality(Asked(hook, x))
         /\ Cardinality(Asked(hk, hook[h])) = Cardinality(Asked(hook, hook[h])) - 1
<1>1. hook \in [Hooks -> Nat]
  BY DEF HookInv, RequestsOK
<1>2. hk \in [Hooks -> Nat] /\ hk[h] = 0 /\ \A g \in Hooks : g # h => hk[g] = hook[g]
  BY <1>1
<1>3. ASSUME NEW x \in Pos, x # hook[h] PROVE Asked(hk, x) = Asked(hook, x)
  BY <1>1, <1>2, <1>3 DEF Asked, Pos
<1>4. PICK S : S = Asked(hook, hook[h])
  OBVIOUS
<1>5. h \in S /\ IsFiniteSet(S)
  BY <1>4, AskedBounds DEF Asked
<1>6. Asked(hk, hook[h]) = S \ {h}
  BY <1>1, <1>2, <1>4 DEF Asked
<1>7. Cardinality(S \ {h}) = Cardinality(S) - 1
  BY <1>5, FS_RemoveElement
<1> QED
  BY <1>2, <1>3, <1>4, <1>6, <1>7

LEMMA RequestFails ==
  ASSUME HookInv, NEW h \in Hooks, Hook!HookFails(h)
  PROVE  HookStep
<1>1. /\ hook[h] # 0 /\ hook' = [hook EXCEPT ![h] = 0]
      /\ feedFaults' = [feedFaults EXCEPT !["hook"] = @ - 1]
      /\ UNCHANGED <<chain, trades, seen, polling, poll>>
  BY DEF Hook!HookFails, Hook!Fault, Hook!env
<1>2. PICK hk : hk = hook'
  OBVIOUS
<1>3. /\ hk \in [Hooks -> Nat] /\ \A g \in Hooks : hk[g] # 0 => hk[g] = hook[g]
      /\ \A x \in Pos : x # hook[h] => Cardinality(Asked(hk, x)) = Cardinality(Asked(hook, x))
      /\ Cardinality(Asked(hk, hook[h])) = Cardinality(Asked(hook, hook[h])) - 1
  BY <1>1, <1>2, RequestEnds
<1>4. RequestsOK'
  BY <1>1, <1>2, <1>3 DEF HookInv, RequestsOK
<1>5. trades' \in Seq(SwapRow) /\ FaultsOK'
  BY <1>1 DEF HookInv, FaultsOK
<1>6. ASSUME NEW x \in Pos PROVE Load(trades', hook', poll, x) <= Load(trades, hook, poll, x)
  <2>1. Cardinality(Asked(hook, x)) \in Nat /\ Cardinality(Asked(hk, x)) \in Nat
    BY AskedBounds
  <2>2. Cardinality(RowsOf(trades, x)) \in Nat
    BY RowsBounds DEF HookInv
  <2>3. Cardinality(Asked(hk, x)) <= Cardinality(Asked(hook, x))
    BY <1>3, <2>1
  <2>4. Load(trades, hk, poll, x) <= Load(trades, hook, poll, x)
    BY <2>1, <2>2, <2>3 DEF Load
  <2> QED
    BY <1>1, <1>2, <2>4
<1> QED
  BY <1>1, <1>4, <1>5, <1>6, RequestHappens

LEMMA RequestRecords ==
  ASSUME HookInv, NEW h \in Hooks, Hook!HookRecord(h)
  PROVE  HookStep
<1>1. PICK s : s = hook[h]
  OBVIOUS
<1>2. /\ s # 0 /\ Hook!Feed(s, "meteora") /\ hook' = [hook EXCEPT ![h] = 0]
      /\ seen' = IF s \in NotSwap \cup Failed THEN seen ELSE seen \cup {s}
      /\ UNCHANGED <<chain, polling, poll, feedFaults>>
  BY <1>1 DEF Hook!HookRecord, Hook!env
<1>3. PICK pool \in Hook!Pools : pool = "meteora"
  BY DEF Hook!Pools
<1>4. s \in Hook!ToSet(chain[pool])
  BY <1>1, <1>2, <1>3 DEF HookInv, RequestsOK
<1>5. s \in Pos
  <2>1. PICK c : c = chain[pool]
    OBVIOUS
  <2>2. c \in Seq(Pos)
    BY <2>1 DEF HookInv, ChainsOK
  <2>3. s \in {c[i] : i \in DOMAIN c}
    BY <1>4, <2>1, SameHook
  <2> QED
    BY <2>2, <2>3
<1>7. /\ trades' \in Seq(SwapRow)
      /\ \A x \in Pos : x # s => Cardinality(RowsOf(trades', x)) = Cardinality(RowsOf(trades, x))
      /\ Cardinality(RowsOf(trades', s)) <= Cardinality(RowsOf(trades, s)) + 1
  <2>1. Hook!Feed(s, pool)
    BY <1>2, <1>3
  <2> QED
    BY <1>5, <2>1, RowFed
<1>8. PICK hk, us : hk = hook' /\ us = trades'
  OBVIOUS
<1>9. /\ hk \in [Hooks -> Nat] /\ \A g \in Hooks : hk[g] # 0 => hk[g] = hook[g]
      /\ \A x \in Pos : x # hook[h] => Cardinality(Asked(hk, x)) = Cardinality(Asked(hook, x))
      /\ Cardinality(Asked(hk, hook[h])) = Cardinality(Asked(hook, hook[h])) - 1
  BY <1>1, <1>2, <1>8, RequestEnds
<1>10. RequestsOK'
  BY <1>2, <1>8, <1>9 DEF HookInv, RequestsOK
<1>11. FaultsOK'
  BY <1>2 DEF HookInv, FaultsOK
<1>12. ASSUME NEW x \in Pos PROVE Load(trades', hook', poll, x) <= Load(trades, hook, poll, x)
  <2>1. Cardinality(Asked(hook, x)) \in Nat /\ Cardinality(Asked(hk, x)) \in Nat
    BY AskedBounds
  <2>2. Cardinality(RowsOf(trades, x)) \in Nat /\ Cardinality(RowsOf(us, x)) \in Nat
    BY <1>7, <1>8, RowsBounds DEF HookInv
  <2>3. Cardinality(RowsOf(us, x)) + Cardinality(Asked(hk, x))
          <= Cardinality(RowsOf(trades, x)) + Cardinality(Asked(hook, x))
    <3>1. CASE x = s
      BY <1>1, <1>7, <1>8, <1>9, <2>1, <2>2, <3>1
    <3>2. CASE x # s
      BY <1>1, <1>7, <1>8, <1>9, <2>1, <2>2, <3>2
    <3> QED
      BY <3>1, <3>2
  <2>4. Load(us, hk, poll, x) <= Load(trades, hook, poll, x)
    BY <2>1, <2>2, <2>3 DEF Load
  <2> QED
    BY <1>8, <2>4
<1> QED
  BY <1>2, <1>7, <1>10, <1>11, <1>12, RequestHappens

(* A signature appended to a chain.                                        *)
LEMMA ChainGrows ==
  ASSUME NEW c \in Seq(Pos), NEW s \in Pos, NEW d, d = Append(c, s)
  PROVE  /\ d \in Seq(Pos)
         /\ \A x : x \in Hook!ToSet(d) <=> x \in Hook!ToSet(c) \/ x = s
         /\ Distinct(c) /\ s \notin Hook!ToSet(c) => Distinct(d)
<1>1. PICK n \in Nat : n = Len(c) /\ DOMAIN c = 1..n
  OBVIOUS
<1>2. d \in Seq(Pos) /\ Len(d) = n + 1 /\ d[n + 1] = s /\ \A i \in 1..n : d[i] = c[i]
  BY <1>1
<1>3. DOMAIN d = 1..(n + 1)
  BY <1>2
<1>4. \A i \in DOMAIN d : i = n + 1 \/ i \in DOMAIN c
  BY <1>1, <1>3
<1>5. n + 1 \in DOMAIN d /\ \A i \in DOMAIN c : i \in DOMAIN d /\ d[i] = c[i]
  BY <1>1, <1>2, <1>3
<1>6. \A x : x \in {d[i] : i \in DOMAIN d} <=> x \in {c[i] : i \in DOMAIN c} \/ x = s
  BY <1>2, <1>4, <1>5
<1>7. ASSUME Distinct(c), s \notin {c[i] : i \in DOMAIN c} PROVE Distinct(d)
  BY <1>2, <1>4, <1>5, <1>7 DEF Distinct
<1> QED
  BY <1>2, <1>6, <1>7, SameHook

LEMMA LoadsRest ==
  ASSUME HookInv, UNCHANGED <<trades, poll, hook>>
  PROVE  LoadsFall
<1>1. ASSUME NEW x \in Pos PROVE Load(trades, hook, poll, x) \in Int
  <2>1. Cardinality(RowsOf(trades, x)) \in Nat /\ Cardinality(Asked(hook, x)) \in Nat
    BY RowsBounds, AskedBounds DEF HookInv
  <2> QED
    BY <2>1 DEF Load
<1>2. ASSUME NEW x \in Pos PROVE Load(trades', hook', poll', x) = Load(trades, hook, poll, x)
  <2>1. trades' = trades /\ hook' = hook /\ poll' = poll
    OBVIOUS
  <2> QED
    BY <2>1
<1> QED
  BY <1>1, <1>2 DEF LoadsFall

LEMMA SwapLands ==
  ASSUME HookInv, Hook!Swap
  PROVE  HookStep
<1>1. PICK live \in Hook!Pools : live = Hook!Live
  BY DEF Hook!Live, Hook!Pools
<1>2. PICK n \in Nat : Hook!OnChain = 1..n
  BY DEF HookInv, ChainsOK
<1>3. PICK s : s = n + 1
  OBVIOUS
<1>4. /\ chain' = [chain EXCEPT ![live] = Append(@, s)]
      /\ UNCHANGED <<trades, seen, polling, poll, hook, feedFaults>>
  <2>1. Hook!Cardinality(Hook!OnChain) = n
    BY <1>2, FS_Interval, SameHook
  <2> QED
    BY <1>1, <1>3, <2>1 DEF Hook!Swap
<1>5. ChainsOK /\ chain \in [Hook!Pools -> Seq(Pos)]
  BY DEF HookInv, ChainsOK
<1>6. PICK c : c = chain[live]
  OBVIOUS
<1>7. PICK d : d = Append(c, s)
  OBVIOUS
<1>8. c \in Seq(Pos) /\ s \in Pos /\ Distinct(c)
  BY <1>3, <1>5, <1>6 DEF ChainsOK, Pos
<1>9. \A p \in Hook!Pools : s \notin Hook!ToSet(chain[p])
  <2>1. s \notin Hook!OnChain
    BY <1>2, <1>3
  <2> QED
    BY <2>1 DEF Hook!OnChain, Hook!Pools
<1>10. /\ d \in Seq(Pos) /\ Distinct(d)
       /\ \A x : x \in Hook!ToSet(d) <=> x \in Hook!ToSet(c) \/ x = s
  <2>1. s \notin Hook!ToSet(c)
    BY <1>6, <1>9
  <2> QED
    BY <1>7, <1>8, <2>1, ChainGrows
<1>11. PICK new : new = chain'
  OBVIOUS
<1>12. /\ new \in [Hook!Pools -> Seq(Pos)] /\ new[live] = d
       /\ \A p \in Hook!Pools : p # live => new[p] = chain[p]
  BY <1>4, <1>5, <1>6, <1>7, <1>10, <1>11
<1>13. \A p \in Hook!Pools : \A x :
         x \in Hook!ToSet(new[p]) <=> x \in Hook!ToSet(chain[p]) \/ (p = live /\ x = s)
  BY <1>6, <1>10, <1>12
<1>14. ChainsOK'
  <2>1. Hook!OnChain' = 1..(n + 1)
    <3>1. \A x : x \in Hook!OnChain' <=> x \in Hook!OnChain \/ x = s
      BY <1>11, <1>13, <1>1 DEF Hook!OnChain, Hook!Pools
    <3>2. \A x : x \in Hook!OnChain' <=> x \in 1..n \/ x = n + 1
      BY <1>2, <1>3, <3>1
    <3>3. \A x : x \in 1..(n + 1) <=> x \in 1..n \/ x = n + 1
      OBVIOUS
    <3> QED
      BY <3>2, <3>3
  <2>2. \A p \in Hook!Pools : Distinct(new[p])
    BY <1>5, <1>10, <1>12 DEF ChainsOK
  <2>3. ASSUME NEW p \in Hook!Pools, NEW q \in Hook!Pools, NEW x \in Pos,
               x \in Hook!ToSet(new[p]), x \in Hook!ToSet(new[q])
        PROVE  p = q
    <3>1. CASE x = s
      BY <1>9, <1>13, <2>3, <3>1
    <3>2. CASE x # s
      BY <1>5, <1>13, <2>3, <3>2 DEF ChainsOK
    <3> QED
      BY <3>1, <3>2
  <2>4. n + 1 \in Nat
    OBVIOUS
  <2> QED
    BY <1>11, <1>12, <2>1, <2>2, <2>3, <2>4 DEF ChainsOK
<1>15. \A p \in Hook!Pools : \A x \in Hook!ToSet(chain[p]) : x \in Hook!ToSet(chain'[p])
  BY <1>11, <1>13
<1>17. PollsOK'
  <2>1. PollsOK /\ poll' = poll /\ polling' = polling /\ seen' = seen
    BY <1>4 DEF HookInv
  <2>2. ASSUME NEW t \in Ticks PROVE PollOK(poll[t])'
    <3>1. PICK p : p = poll[t]
      OBVIOUS
    <3>2. PollOK(p) /\ p.pool \in Hook!Pools
      BY <3>1, PollIs
    <3>3. PollOK(p)'
      BY <1>15, <2>1, <3>2 DEF PollOK, OfPool
    <3>4. poll'[t] = p
      BY <2>1, <3>1
    <3> QED
      BY <3>3, <3>4
  <2> QED
    BY <2>1, <2>2 DEF PollsOK
<1>18. RequestsOK'
  <2>1. "meteora" \in Hook!Pools
    BY DEF Hook!Pools
  <2> QED
    BY <1>4, <1>15, <2>1 DEF HookInv, RequestsOK
<1>19. trades' \in Seq(SwapRow) /\ FaultsOK'
  BY <1>4 DEF HookInv, FaultsOK
<1>20. LoadsFall
  BY <1>4, LoadsRest
<1> QED
  BY <1>14, <1>17, <1>18, <1>19, <1>20 DEF HookInv, HookStep

LEMMA HookStarts == Hook!Init => HookInv
<1> SUFFICES ASSUME Hook!Init PROVE HookInv
  OBVIOUS
<1>1. /\ chain = [p \in Hook!Pools |-> << >>] /\ trades = << >> /\ poll = [t \in Ticks |-> Hook!Idle]
      /\ hook = [h \in Hooks |-> 0]
      /\ feedFaults = [list |-> 0, fetch |-> Faults, hook |-> Faults, crash |-> 0]
  BY DEF Hook!Init
<1>2. ChainsOK
  <2>1. chain \in [Hook!Pools -> Seq(Pos)] /\ \A p \in Hook!Pools : chain[p] = << >>
    BY <1>1
  <2>2. \A p \in Hook!Pools : Distinct(chain[p]) /\ Hook!ToSet(chain[p]) = {}
    BY <2>1, NothingListed
  <2>3. Hook!OnChain = {}
    BY <2>2 DEF Hook!OnChain, Hook!Pools
  <2>4. Hook!OnChain = 1..0 /\ 0 \in Nat
    BY <2>3
  <2> QED
    BY <2>1, <2>2, <2>4 DEF ChainsOK
<1>3. trades \in Seq(SwapRow)
  BY <1>1
<1>4. \A t \in Ticks : poll[t] = Hook!Idle
  BY <1>1
<1>5. Hook!Idle.pc = "idle"
  BY DEF Hook!Idle
<1>6. PollsOK
  <2>1. poll \in [Ticks -> PollState]
    BY <1>1, PollEnds
  <2> QED
    BY <1>4, <1>5, <2>1, PollEnds DEF PollsOK
<1>7. RequestsOK
  BY <1>1 DEF RequestsOK
<1>9. FaultsOK
  BY <1>1, CachesAssumption DEF FaultsOK
<1> QED
  BY <1>2, <1>3, <1>6, <1>7, <1>9 DEF HookInv

LEMMA HookRests ==
  ASSUME HookInv, UNCHANGED <<chain, trades, seen, polling, poll, hook, feedFaults>>
  PROVE  HookStep
<1>1. HookInv'
  BY DEF HookInv, ChainsOK, Hook!OnChain, PollsOK, PollOK, OfPool, RequestsOK, FaultsOK
<1> QED
  BY <1>1, LoadsRest DEF HookStep

LEMMA HookSteps == HookInv /\ [Hook!Next]_hookVars => HookStep
<1> SUFFICES ASSUME HookInv, [Hook!Next]_hookVars PROVE HookStep
  OBVIOUS
<1>1. CASE UNCHANGED hookVars
  BY <1>1, HookRests DEF hookVars
<1>2. CASE Hook!Swap
  BY <1>2, SwapLands
<1>3. CASE Hook!Migrate \/ Hook!Persist
  BY <1>3, HookRests DEF Hook!Migrate, Hook!Persist
<1>4. ASSUME NEW t \in Ticks,
             Hook!Tick(t) \/ Hook!PollStep(t) \/ Hook!ListFails(t) \/ Hook!FetchFails(t)
      PROVE  HookStep
  <2>1. CASE Hook!ListFails(t)
    BY <2>1 DEF Hook!ListFails, Hook!Fault, HookInv, FaultsOK
  <2>2. CASE Hook!PollStep(t)
    BY <2>2, PollLists, PollMerges, PollSkips, PollTakes, PollRecords, PollDone DEF Hook!PollStep
  <2> QED
    BY <1>4, <2>1, <2>2, TimerFires, FetchFailed
<1>5. ASSUME NEW h \in Hooks, Hook!HookDeliver(h) \/ Hook!HookRecord(h) \/ Hook!HookFails(h)
      PROVE  HookStep
  BY <1>5, Delivered, RequestRecords, RequestFails
<1>6. CASE Hook!Restart
  BY <1>6 DEF Hook!Restart, Hook!Fault, HookInv, FaultsOK
<1> QED
  BY <1>1, <1>2, <1>3, <1>4, <1>5, <1>6 DEF Hook!Next

(* A first poll is one of a pool whose cursor has not moved.               *)
FirstInv ==
  /\ DOMAIN last = Hook!Pools
  /\ \A t \in Ticks : poll[t].pc # "idle" /\ poll[t].first => last[poll[t].pool] = 0

LEMMA FirstKept ==
  ASSUME FirstInv, last' = last,
         \A t \in Ticks : /\ poll'[t].pool = poll[t].pool /\ poll'[t].first = poll[t].first
                          /\ poll'[t].pc # "idle" => poll[t].pc # "idle"
  PROVE  FirstInv'
  BY DEF FirstInv

LEMMA FirstPollSteps ==
  ASSUME HookInv, FirstInv, NEW t \in Ticks,
         Hook!List(t) \/ Hook!Merge(t) \/ Hook!Skip(t) \/ Hook!Take(t) \/ Hook!Record(t) \/ Hook!FetchFails(t)
  PROVE  FirstInv'
<1>1. PICK p : p = poll[t]
  OBVIOUS
<1>2. p \in PollState /\ poll \in [Ticks -> PollState]
  BY <1>1, PollIs
<1>3. /\ p.pc # "idle" /\ last' = last
      /\ \A u \in Ticks : poll'[u].pool = poll[u].pool /\ poll'[u].first = poll[u].first
      /\ \A u \in Ticks : u # t => poll'[u] = poll[u]
  <2>1. CASE Hook!List(t)
    BY <1>1, <1>2, <2>1 DEF Hook!List, PollState
  <2>2. CASE Hook!Merge(t)
    <3>1. PICK l : poll' = [poll EXCEPT ![t].pc = "next", ![t].rest = l]
      BY <2>2 DEF Hook!Merge
    <3> QED
      BY <1>1, <1>2, <2>2, <3>1 DEF Hook!Merge, PollState
  <2>3. CASE Hook!Skip(t)
    BY <1>1, <1>2, <2>3 DEF Hook!Skip, PollState
  <2>4. CASE Hook!Take(t)
    BY <1>1, <1>2, <2>4 DEF Hook!Take, PollState
  <2>5. CASE Hook!Record(t) \/ Hook!FetchFails(t)
    <3>1. p.pc = "fetching" /\ last' = last /\ Hook!Fetched(t)
      BY <1>1, <2>5 DEF Hook!Record, Hook!FetchFails
    <3>2. PICK l : poll' = [poll EXCEPT ![t].pc = "next", ![t].rest = l]
      BY <3>1 DEF Hook!Fetched
    <3> QED
      BY <1>1, <1>2, <3>1, <3>2 DEF PollState
  <2> QED
    BY <2>1, <2>2, <2>3, <2>4, <2>5
<1> QED
  BY <1>1, <1>3, FirstKept

(* A poll that begins looks at the cursor; that of another pool stays.     *)
LEMMA FirstPollBegins ==
  ASSUME HookInv, FirstInv, NEW t \in Ticks, Hook!Tick(t) \/ Hook!Done(t)
  PROVE  FirstInv'
<1>1. PICK p : p = poll[t]
  OBVIOUS
<1>2. /\ poll[t].pc # "idle" \/ ~polling
      /\ \/ poll' = [poll EXCEPT ![t] = Hook!At("meteora")] /\ last' = last
         \/ \E c : /\ last' = [last EXCEPT ![p.pool] = c]
                   /\ \/ p.pool = "meteora" /\ poll' = [poll EXCEPT ![t] = Hook!At("meteora_amm")]
                      \/ poll' = [poll EXCEPT ![t] = Hook!Idle]
  <2>1. CASE Hook!Tick(t)
    BY <2>1 DEF Hook!Tick, Hook!may_poll
  <2>2. CASE Hook!Done(t)
    <3>1. p.pc = "next" /\ \E c : last' = [last EXCEPT ![p.pool] = c]
      BY <1>1, <2>2 DEF Hook!Done
    <3>2. \/ p.pool = "meteora" /\ poll' = [poll EXCEPT ![t] = Hook!At("meteora_amm")]
          \/ poll' = [poll EXCEPT ![t] = Hook!Idle]
      BY <1>1, <2>2 DEF Hook!Done
    <3> QED
      BY <1>1, <3>1, <3>2
  <2> QED
    BY <2>1, <2>2
<1>3. poll \in [Ticks -> PollState] /\ \A u \in Ticks : u # t => poll[u].pc = "idle"
  BY <1>2, OnlyPoll DEF HookInv, PollsOK
<1>4. PICK q : q = poll'[t]
  OBVIOUS
<1>5. \A u \in Ticks : u # t => poll'[u].pc = "idle"
  BY <1>2, <1>3
<1>6. DOMAIN last = Hook!Pools /\ DOMAIN last' = Hook!Pools
  BY <1>2 DEF FirstInv
<1>7. \A pool : /\ Hook!At(pool).pool = pool /\ Hook!At(pool).first = (last[pool] = 0)
  BY DEF Hook!At, Hook!Idle
<1>8. Hook!Idle.pc = "idle"
  BY DEF Hook!Idle
<1>9. q.pc # "idle" /\ q.first => last'[q.pool] = 0
  <2>1. CASE poll' = [poll EXCEPT ![t] = Hook!At("meteora")] /\ last' = last
    BY <1>3, <1>4, <1>7, <2>1
  <2>2. ASSUME NEW c, last' = [last EXCEPT !["meteora"] = c],
               poll' = [poll EXCEPT ![t] = Hook!At("meteora_amm")]
        PROVE  q.first => last'[q.pool] = 0
    <3>1. q.pool = "meteora_amm" /\ (q.first => last["meteora_amm"] = 0)
      BY <1>3, <1>4, <1>7, <2>2
    <3>2. last'["meteora_amm"] = last["meteora_amm"]
      BY <1>6, <2>2 DEF Hook!Pools
    <3> QED
      BY <3>1, <3>2
  <2>3. CASE poll' = [poll EXCEPT ![t] = Hook!Idle]
    BY <1>3, <1>4, <1>8, <2>3
  <2> QED
    BY <1>2, <2>1, <2>2, <2>3
<1>10. \A u \in Ticks : poll'[u].pc # "idle" /\ poll'[u].first => last'[poll'[u].pool] = 0
  BY <1>4, <1>5, <1>9
<1> QED
  BY <1>6, <1>10 DEF FirstInv

LEMMA FirstSteps == HookInv /\ FirstInv /\ [Hook!Next]_hookVars => FirstInv'
<1> SUFFICES ASSUME HookInv, FirstInv, [Hook!Next]_hookVars PROVE FirstInv'
  OBVIOUS
<1>1. CASE last' = last /\ poll' = poll
  BY <1>1, FirstKept
<1>2. ASSUME NEW t \in Ticks,
             Hook!Tick(t) \/ Hook!PollStep(t) \/ Hook!ListFails(t) \/ Hook!FetchFails(t)
      PROVE  FirstInv'
  <2>1. CASE Hook!ListFails(t)
    BY <2>1 DEF Hook!ListFails, Hook!Fault, HookInv, FaultsOK
  <2>2. CASE Hook!PollStep(t)
    BY <2>2, FirstPollSteps, FirstPollBegins DEF Hook!PollStep
  <2> QED
    BY <1>2, <2>1, <2>2, FirstPollSteps, FirstPollBegins
<1>3. CASE Hook!Restart
  BY <1>3 DEF Hook!Restart, Hook!Fault, HookInv, FaultsOK
<1>4. CASE Hook!Swap \/ Hook!Migrate \/ Hook!Persist \/ UNCHANGED hookVars
  BY <1>1, <1>4 DEF Hook!Swap, Hook!Migrate, Hook!Persist, hookVars
<1>5. ASSUME NEW h \in Hooks, Hook!HookDeliver(h) \/ Hook!HookRecord(h) \/ Hook!HookFails(h)
      PROVE  last' = last /\ poll' = poll
  BY <1>5 DEF Hook!HookDeliver, Hook!HookRecord, Hook!HookFails
<1> QED
  BY <1>1, <1>2, <1>3, <1>4, <1>5 DEF Hook!Next

(* The load of a signature is what is in sight of it.                      *)
InSight == \A x \in Pos : Hook!CopiesInSight(x) = Load(trades, hook, poll, x)
LEMMA SightIs == HookInv => InSight
<1> SUFFICES ASSUME HookInv, NEW x \in Pos
             PROVE  Hook!CopiesInSight(x) = Load(trades, hook, poll, x)
  BY DEF InSight
<1> DEFINE Due(t) == /\ poll[t].rest # << >> /\ poll[t].pc \in {"next", "fetching"}
                     /\ \/ poll[t].pc = "fetching" /\ Head(poll[t].rest) = x
                        \/ poll[t].first /\ x \in Hook!ToSet(poll[t].rest)
           D == {t \in Ticks : Due(t)}
<1>1. Hook!CopiesInSight(x) = Cardinality(RowsOf(trades, x)) + (Cardinality(Asked(hook, x)) + Cardinality(D))
  <2>1. Hook!Coming(x) = Hook!Cardinality(Asked(hook, x)) + Hook!Cardinality(D)
    BY DEF Hook!Coming, Asked
  <2>2. Hook!Coming(x) = Cardinality(Asked(hook, x)) + Cardinality(D)
    BY <2>1, SameHook
  <2>3. Hook!Copies(x, trades) = Cardinality(RowsOf(trades, x))
    BY SameHook
  <2> QED
    BY <2>2, <2>3 DEF Hook!CopiesInSight
<1>2. ASSUME NEW t \in Ticks PROVE Due(t) <=> Dues(poll[t], x)
  <2>1. PICK p : p = poll[t]
    OBVIOUS
  <2>2. PollOK(p)
    BY <2>1, PollIs
  <2>3. p.rest = << >> => Hook!ToSet(p.rest) = {} /\ p.pc # "fetching"
    BY <2>2, NothingListed DEF PollOK
  <2> QED
    BY <2>1, <2>3 DEF Dues
<1>3. Cardinality(D) = IF DueIn(poll, x) THEN 1 ELSE 0
  <2> HIDE DEF Due
  <2>1. CASE \E t \in Ticks : Due(t)
    <3>1. PICK t \in Ticks : Due(t)
      BY <2>1
    <3>2. \A u \in Ticks : Due(u) => u = t
      <4>1. \A u \in Ticks : Due(u) => poll[u].pc # "idle"
        BY <1>2 DEF Dues
      <4> QED
        BY <3>1, <4>1 DEF HookInv, PollsOK
    <3>3. D = {t}
      BY <3>1, <3>2
    <3>4. Cardinality(D) = 1
      BY <3>3, FS_Singleton
    <3> QED
      BY <1>2, <3>1, <3>4 DEF DueIn
  <2>2. CASE ~\E t \in Ticks : Due(t)
    <3>1. D = {} /\ ~DueIn(poll, x)
      BY <1>2, <2>2 DEF DueIn
    <3> QED
      BY <3>1, FS_EmptySet
  <2> QED
    BY <2>1, <2>2
<1>4. Cardinality(RowsOf(trades, x)) \in Nat /\ Cardinality(Asked(hook, x)) \in Nat
  BY RowsBounds, AskedBounds DEF HookInv
<1> HIDE DEF D
<1> QED
  BY <1>1, <1>3, <1>4 DEF Load

(* A pool whose rebuild is not due has none that is about to drop its rows.*)
LEMMA SeenBegun ==
  ASSUME HookInv, FirstInv, NEW p \in Hook!Pools, p \notin Hook!DueRebuilds,
         NEW x \in Pos, x \in Hook!ToSet(chain[p]), x \in seen
  PROVE  Begun(x)
<1> SUFFICES ASSUME NEW t \in Ticks, poll[t].pc = "listed", poll[t].first,
                    x \in Hook!ToSet(chain[poll[t].pool])
             PROVE  FALSE
  BY DEF Begun
<1>1. poll[t].pool \in Hook!Pools
  BY PollIs
<1>2. poll[t].pool = p
  BY <1>1 DEF HookInv, ChainsOK
<1>3. last[p] = 0
  BY <1>2 DEF FirstInv
<1>4. \A u \in Ticks : ~Hook!Rereading(u)
  BY DEF HookInv, PollsOK, Hook!Rereading
<1> QED
  BY <1>3, <1>4 DEF Hook!DueRebuilds

SeenStay ==
  \A p \in Hook!Pools \ Hook!DueRebuilds :
    \A s \in Hook!Swaps \cap Hook!ToSet(chain[p]) \cap seen \cap seen' :
      Hook!CopiesInSight(s)' <= Hook!CopiesInSight(s)
LEMMA SightFalls ==
  ASSUME HookInv, FirstInv, InSight, InSight', HookStep
  PROVE  SeenStay
<1> SUFFICES ASSUME NEW p \in Hook!Pools, p \notin Hook!DueRebuilds, NEW s \in Hook!Swaps,
                    s \in Hook!ToSet(chain[p]), s \in seen
             PROVE  Hook!CopiesInSight(s)' <= Hook!CopiesInSight(s)
  BY DEF SeenStay
<1>1. s \in Pos
  BY HooksAssumption DEF Hook!Swaps, Hook!Sigs, Pos
<1>2. Begun(s)
  BY <1>1, SeenBegun
<1>3. Load(trades', hook', poll', s) <= Load(trades, hook, poll, s)
  BY <1>1, <1>2 DEF HookStep, LoadsFall
<1>4. Hook!CopiesInSight(s) = Load(trades, hook, poll, s)
  BY <1>1 DEF InSight
<1>5. Hook!CopiesInSight(s)' = Load(trades', hook', poll', s)
  BY <1>1 DEF InSight
<1> QED
  BY <1>3, <1>4, <1>5

(* Whatever requests, redeliveries and polls overlap, however many there   *)
(* are and whichever of their fetches fail: once the signature of a swap   *)
(* was seen and the rebuild of its pool has begun, no step adds a copy to  *)
(* those that the feed has or is about to get.                             *)
THEOREM SeenStayDeduped == ViewsSpec => SeenSwapsAreDeduped
<1>1. ViewsInit => HookInv /\ FirstInv
  <2>1. Hook!Init => FirstInv
    <3>1. Hook!Idle.pc = "idle"
      BY DEF Hook!Idle
    <3> QED
      BY <3>1 DEF Hook!Init, FirstInv
  <2> QED
    BY <2>1, HookStarts DEF ViewsInit
<1>2. HookInv /\ FirstInv
        /\ [ViewsNext]_<<part, vars, hookVars, candleVars, holderVars, walletVars, scanVars, saleVars>>
      => HookInv' /\ FirstInv' /\ HookStep
  <2> SUFFICES ASSUME HookInv, FirstInv,
                      [ViewsNext]_<<part, vars, hookVars, candleVars, holderVars, walletVars, scanVars, saleVars>>
               PROVE  HookInv' /\ FirstInv' /\ HookStep
    OBVIOUS
  <2>1. [Hook!Next]_hookVars
    BY DEF ViewsNext
  <2>2. HookStep /\ FirstInv'
    BY <2>1, HookSteps, FirstSteps
  <2> QED
    BY <2>2 DEF HookStep
<1>3. HookInv /\ FirstInv /\ InSight /\ InSight' /\ HookStep => SeenStay
  BY SightFalls
<1>4. SeenStay => [SeenStay]_(Hook!vars)
  OBVIOUS
<1> QED
  BY <1>1, <1>2, <1>3, <1>4, SightIs, PTL DEF ViewsSpec, SeenSwapsAreDeduped, Hook!NoCopyOnceSeen, SeenStay

(* What is shown is what happened, for any swaps: every swap that arrived  *)
(* keeps its side and amounts, and each candle is what the trades of its   *)
(* interval make it.                                                       *)
THEOREM TradesAreTrue == ViewsSpec => []TradesAreShown
<1>1. ViewsInit => SwapInv
  BY SwapStarts DEF ViewsInit
<1>2. SwapInv
        /\ [ViewsNext]_<<part, vars, hookVars, candleVars, holderVars, walletVars, scanVars, saleVars>>
      => SwapInv'
  <2>1. [ViewsNext]_<<part, vars, hookVars, candleVars, holderVars, walletVars, scanVars, saleVars>>
          => [Swap!Next]_candleVars
    BY DEF ViewsNext
  <2> QED
    BY <2>1, SwapSteps
<1>3. SwapInv => TradesAreShown
  BY SwapsShown DEF TradesAreShown
<1> QED
  BY <1>1, <1>2, <1>3, PTL DEF ViewsSpec
=============================================================================
