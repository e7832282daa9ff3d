----------------------------- MODULE TradeFeed -----------------------------
(***************************************************************************)
(* What the indexer's trade feed of a market promises, whatever ingests    *)
(* it: the feed holds only swaps that happened, each at most once; a       *)
(* restart goes back to the copy that was saved last; and some pools are   *)
(* rebuilt, once after each start: their swaps are dropped, to be read     *)
(* anew as far as the reader reaches back. Nothing else is forgotten.      *)
(***************************************************************************)
EXTENDS Naturals

CONSTANTS Swaps,        \* the swaps that can happen
          Pools,        \* the pools they happen on
          Rebuilt       \* the pools that are rebuilt after a start

VARIABLES happened,     \* happened[p]: the swaps of pool p on chain
          feed,         \* feed[s]: how often the feed holds s
          saved,        \* the feed as last saved
          due           \* the pools whose rebuild is still due

vars == <<happened, feed, saved, due>>

Nothing == [s \in Swaps |-> 0]

Init ==
  /\ happened = [p \in Pools |-> {}] /\ due = Rebuilt
  /\ feed = Nothing /\ saved = Nothing

(* A transaction lands on a pool: it may hold several swaps. *)
Happen(p, S) ==
  /\ happened' = [happened EXCEPT ![p] = @ \cup S]
  /\ UNCHANGED <<feed, saved, due>>

(* A swap enters the feed once. *)
Record(p, s) ==
  /\ s \in happened[p]
  /\ feed[s] = 0
  /\ feed' = [feed EXCEPT ![s] = 1]
  /\ UNCHANGED <<happened, saved, due>>

(* The pool's one rebuild drops its swaps, and leaves those of the others. *)
Rebuild(p) ==
  /\ p \in due /\ due' = due \ {p}
  /\ feed' = [s \in Swaps |-> IF s \in happened[p] THEN 0 ELSE feed[s]]
  /\ UNCHANGED <<happened, saved>>

Save == saved' = feed /\ UNCHANGED <<happened, feed, due>>

Restart == feed' = saved /\ due' = Rebuilt /\ UNCHANGED <<happened, saved>>

Next ==
  \/ \E p \in Pools :
       \/ Rebuild(p)
       \/ \E s \in Swaps : Record(p, s)
       \/ \E S \in SUBSET Swaps : Happen(p, S)
  \/ Save
  \/ Restart

Spec == Init /\ [][Next]_vars
=============================================================================
