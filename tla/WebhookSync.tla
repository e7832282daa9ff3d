---------------------------- MODULE WebhookSync ----------------------------
(***************************************************************************)
(* How the indexer keeps one Helius webhook on its pools                   *)
(* (syncHeliusWebhook of src/indexer/src/index.ts, on a timer): the first  *)
(* sync of a process discovers the webhooks of its URL, remembers one and  *)
(* deletes the others; every sync then updates the remembered webhook, or  *)
(* creates one. The remembered id is lost when the process restarts.       *)
(***************************************************************************)
EXTENDS Naturals, FiniteSets

CONSTANTS Pools,          \* curve pools of listed markets
          MaxHooks,       \* bound: webhooks ever created
          Inherited,      \* webhooks that earlier runs left behind
          CallFaults,     \* bound: calls that throw, before or after taking effect
          Garbled,        \* bound: lists that arrive as something else
          DeleteFaults,   \* bound: deletions that fail
          MaxRestarts     \* bound: restarts

VARIABLES hooks,          \* at Helius: [id -> pools it watches]
          listed,         \* pools in the listings file
          id,             \* heliusWebhookId, 0 when unknown
          pc, pools, dups,\* the sync under way: step, pools read, duplicates left
          faults

vars == <<hooks, listed, id, pc, pools, dups, faults>>

Created == DOMAIN hooks
Drop(h, k) == [x \in DOMAIN h \ {k} |-> h[x]]
Put(h, k, v) == [x \in DOMAIN h \cup {k} |-> IF x = k THEN v ELSE h[x]]
Oldest(S) == CHOOSE k \in S : \A j \in S : k <= j

Init ==
  /\ hooks = [k \in 1..Inherited |-> {}]
  /\ listed = {} /\ id = 0
  /\ pc = "idle" /\ pools = {} /\ dups = {}
  /\ faults = [call |-> CallFaults, garbled |-> Garbled, delete |-> DeleteFaults, restart |-> MaxRestarts]

Fault(kind) == faults[kind] > 0 /\ faults' = [faults EXCEPT ![kind] = @ - 1]

ListPool == \E p \in Pools \ listed :
  listed' = listed \cup {p} /\ UNCHANGED <<hooks, id, pc, pools, dups, faults>>

listed_at_boot == IF pools = {} THEN listed ELSE pools
listed_now == listed

(* A sync starts with the pools listed now; without any it does nothing. *)
Start ==
  /\ pc = "idle" /\ listed # {}
  /\ pools' = listed_now
  /\ pc' = IF id = 0 THEN "discover" ELSE "send"
  /\ UNCHANGED <<hooks, listed, id, dups, faults>>

(* The list names the webhooks of our URL: one is remembered.              *)
Discover ==
  /\ pc = "discover"
  /\ IF Created # {}
     THEN id' = Oldest(Created) /\ dups' = Created \ {id'} /\ pc' = "delete"
     ELSE pc' = "send" /\ UNCHANGED <<id, dups>>
  /\ UNCHANGED <<hooks, listed, pools, faults>>

(* A list that does not parse, or is no array, counts as empty.            *)
DiscoverGarbled ==
  /\ pc = "discover" /\ Fault("garbled")
  /\ pc' = "send"
  /\ UNCHANGED <<hooks, listed, id, pools, dups>>

deleted_none(k) == hooks
deleted(k) == Drop(hooks, k)

Delete ==
  /\ pc = "delete"
  /\ IF dups = {} THEN pc' = "send" /\ UNCHANGED <<hooks, dups>>
     ELSE hooks' = deleted(Oldest(dups)) /\ dups' = dups \ {Oldest(dups)} /\ UNCHANGED pc
  /\ UNCHANGED <<listed, id, pools, faults>>

(* A failed deletion is ignored. *)
DeleteFails ==
  /\ pc = "delete" /\ dups # {} /\ Fault("delete")
  /\ dups' = dups \ {Oldest(dups)}
  /\ UNCHANGED <<hooks, listed, id, pc, pools>>

(* PUT updates the remembered webhook, POST creates one. *)
target == IF id = 0 THEN CHOOSE k \in 1..MaxHooks : k \notin Created ELSE id
Applied == hooks' = Put(hooks, target, pools)

Send ==
  /\ pc = "send" /\ (id = 0 => Cardinality(Created) < MaxHooks)
  /\ Applied /\ id' = target /\ pc' = "idle"
  /\ UNCHANGED <<listed, pools, dups, faults>>

(* A call throws or its answer has no id: it may still have taken effect.  *)
CallThrows ==
  /\ pc \in {"discover", "send"} /\ Fault("call")
  /\ \/ pc = "send" /\ (id = 0 => Cardinality(Created) < MaxHooks) /\ Applied
     \/ UNCHANGED hooks
  /\ pc' = "idle"
  /\ UNCHANGED <<listed, id, pools, dups>>

Restart ==
  /\ Fault("restart")
  /\ id' = 0 /\ pc' = "idle" /\ dups' = {} /\ pools' = {}
  /\ UNCHANGED <<hooks, listed>>

Sync == Start \/ Discover \/ Delete \/ Send
Next == ListPool \/ Sync \/ DiscoverGarbled \/ DeleteFails \/ CallThrows \/ Restart

Spec == Init /\ [][Next]_vars
(* The timer fires and every call ends. *)
FairSpec == Spec /\ WF_vars(Sync)

-----------------------------------------------------------------------------
(* Properties. *)

(* Every listed pool ends up watched for good, whatever calls fail and     *)
(* however often the process restarts.                                     *)
ListedPoolsWatched ==
  \A p \in Pools : (p \in listed) ~> [](\E k \in Created : p \in hooks[k])

(* "Restarts (and prior duplicate-creating runs) converge on a single      *)
(* webhook for our URL instead of piling up new ones", as long as lists    *)
(* arrive whole and deletions succeed; calls may fail before or after      *)
(* they take effect.                                                       *)
Orderly == faults.garbled = Garbled /\ faults.delete = DeleteFaults
OneWebhook == (listed # {}) ~> [](Orderly => Cardinality(Created) = 1)
=============================================================================
