------------------------------ MODULE Relayer ------------------------------
(***************************************************************************)
(* The relayer's push cycle (src/relayer/src/main.ts) and what it awaits:  *)
(* price sources, the external pool and the program. A cycle goes through  *)
(* the markets one by one; setInterval starts the next cycle whether or    *)
(* not the last one is done. A price is abstracted to the number of moves  *)
(* it has made, so that a value names the moment it was observed.          *)
(***************************************************************************)
EXTENDS Integers, FiniteSets

CONSTANTS Markets,       \* 1..N, in the order of the config
          Cards,         \* markets of kind "card"; the others are "nft"
          External,      \* markets with an external pool
          Broken,        \* markets whose source always fails
          Gated,         \* markets whose estimate is always gated
          Cycles,        \* cycles that may overlap
          MaxTries,      \* attempts at a card price (4 in the code)
          MaxMoves,      \* bound: moves of each price
          Faults         \* bound: calls that fail

VARIABLES price, pool,   \* the true price, and the pool's
          index, mark,   \* what was pushed last, -1 before the first push
          cycle,         \* cycle[c]: [pc, at, tries, est]
          faults

vars == <<price, pool, index, mark, cycle, faults>>

Idle == [pc |-> "idle", at |-> 0, tries |-> 0, est |-> 0]

Init ==
  /\ price = [m \in Markets |-> 0] /\ pool = [m \in Markets |-> 0]
  /\ index = [m \in Markets |-> -1] /\ mark = [m \in Markets |-> -1]
  /\ cycle = [c \in Cycles |-> Idle]
  /\ faults = Faults

(* Prices move. *)
Move == \E m \in Markets :
  /\ \/ price[m] < MaxMoves /\ price' = [price EXCEPT ![m] = @ + 1] /\ UNCHANGED pool
     \/ m \in External /\ pool[m] < MaxMoves /\ pool' = [pool EXCEPT ![m] = @ + 1] /\ UNCHANGED price
  /\ UNCHANGED <<index, mark, cycle, faults>>

(* The interval fires. *)
Begin(c) ==
  /\ cycle[c].pc = "idle"
  /\ cycle' = [cycle EXCEPT ![c] = [Idle EXCEPT !.pc = "estimate", !.at = 1]]
  /\ UNCHANGED <<price, pool, index, mark, faults>>

(* The loop goes on to the next market, or ends.                           *)
Onward(c) ==
  IF cycle[c].at = Cardinality(Markets) THEN Idle
  ELSE [cycle[c] EXCEPT !.pc = "estimate", !.at = @ + 1, !.tries = 0, !.est = 0]

after_error_stop(c) == Idle
after_error(c) == Onward(c)

observed(c) == price[cycle[c].at]

(* The source answers: an NFT market's asks, a card's price.               *)
Estimate(c) ==
  /\ cycle[c].pc = "estimate" /\ cycle[c].at \notin Broken \cup Gated
  /\ cycle' = [cycle EXCEPT ![c].pc = "push", ![c].est = observed(c)]
  /\ UNCHANGED <<price, pool, index, mark, faults>>

(* The estimate is gated: the market holds its last value.                 *)
HoldPush(c) ==
  /\ cycle[c].pc = "estimate" /\ cycle[c].at \in Gated
  /\ cycle' = [cycle EXCEPT ![c] = Onward(c)]
  /\ UNCHANGED <<price, pool, index, mark, faults>>

(* The source fails: a card price that the server refuses is tried again,  *)
(* up to MaxTries times; a call that throws or a bad answer is not.        *)
SourceFails(c) ==
  /\ cycle[c].pc = "estimate" /\ cycle[c].at \notin Gated
  /\ IF cycle[c].at \in Broken THEN UNCHANGED faults ELSE faults > 0 /\ faults' = faults - 1
  /\ \/ /\ cycle[c].at \in Cards /\ cycle[c].tries + 1 < MaxTries
        /\ cycle' = [cycle EXCEPT ![c].tries = @ + 1]
     \/ cycle' = [cycle EXCEPT ![c] = after_error(c)]
  /\ UNCHANGED <<price, pool, index, mark>>

PushIndex(c) ==
  LET m == cycle[c].at IN
  /\ cycle[c].pc = "push"
  /\ index' = [index EXCEPT ![m] = cycle[c].est]
  /\ cycle' = [cycle EXCEPT ![c] = IF m \in External THEN [@ EXCEPT !.pc = "pool"] ELSE Onward(c)]
  /\ UNCHANGED <<price, pool, mark, faults>>

(* The external pool is read after the index push, then the mark pushed.   *)
ReadPool(c) ==
  /\ cycle[c].pc = "pool"
  /\ cycle' = [cycle EXCEPT ![c].pc = "mark", ![c].est = pool[cycle[c].at]]
  /\ UNCHANGED <<price, pool, index, mark, faults>>

PushMark(c) ==
  /\ cycle[c].pc = "mark"
  /\ mark' = [mark EXCEPT ![cycle[c].at] = cycle[c].est]
  /\ cycle' = [cycle EXCEPT ![c] = Onward(c)]
  /\ UNCHANGED <<price, pool, index, faults>>

(* A push or the pool's read fails: the rest of this market is skipped.    *)
CallFails(c) ==
  /\ cycle[c].pc \in {"push", "pool", "mark"} /\ faults > 0
  /\ faults' = faults - 1
  /\ cycle' = [cycle EXCEPT ![c] = after_error(c)]
  /\ UNCHANGED <<price, pool, index, mark>>

Step(c) ==
  \/ Begin(c) \/ Estimate(c) \/ HoldPush(c) \/ PushIndex(c) \/ ReadPool(c) \/ PushMark(c)
  \/ cycle[c].at \in Broken /\ SourceFails(c)

Next == Move \/ \E c \in Cycles : Step(c) \/ SourceFails(c) \/ CallFails(c)

Spec == Init /\ [][Next]_vars
(* Intervals fire and every await ends. *)
FairSpec == Spec /\ \A c \in Cycles : WF_vars(Step(c))

-----------------------------------------------------------------------------
(* Properties. *)

(* Once prices rest, every market with a working source shows them, though *)
(* other markets fail or hold in every cycle and overlapping cycles push   *)
(* out of order.                                                           *)
FeedsFollow ==
  \A m \in Markets \ (Broken \cup Gated) :
    <>[](index[m] = price[m] /\ (m \in External => mark[m] = pool[m]))
=============================================================================
