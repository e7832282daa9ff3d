------------------------------ MODULE Holders ------------------------------
(***************************************************************************)
(* GET /holders/:mint of the indexer: the token accounts of a mint are     *)
(* read page by page with a cursor while tokens keep moving, and summed    *)
(* per owner. The DAS server lists accounts by number and its cursor is    *)
(* the last one it returned.                                               *)
(***************************************************************************)
EXTENDS Integers, FiniteSets, SequencesExt

CONSTANTS MaxAccount,    \* token accounts are 1..MaxAccount
          Wallets,       \* owners on the curve
          Vaults,        \* owners off the curve: pools and program accounts
          PageSize,      \* accounts per page (1000 in the code)
          PageCap,       \* pages per answer (25 in the code)
          MaxAmount,     \* bound: tokens of one account
          MaxMoves,      \* bound: movements of tokens
          Faults         \* bound: pages answered by an error

VARIABLES owner,         \* owner[a], fixed
          amount,        \* amount[a]: tokens of account a, -1 while it is closed
          page, cursor,  \* pages read, and the account the last one ended with
          balances,      \* the map of that name
          pc,
          held,          \* held[a]: the most account a had since the read began
          quiet,         \* nothing moved since the read began
          moves, faults

vars == <<owner, amount, page, cursor, balances, pc, held, quiet, moves, faults>>
reader == <<page, cursor, balances, pc>>

Accounts == 1..MaxAccount
Owners == Wallets \cup Vaults
Nobody == [o \in Owners |-> 0]
Larger(x, y) == IF x < y THEN y ELSE x
Of(o) == {a \in Accounts : owner[a] = o}
Sum(f, S) == SumFunctionOnSet([a \in Accounts |-> Larger(f[a], 0)], S)

Init ==
  /\ owner \in [Accounts -> Owners]
  /\ amount \in [Accounts -> {-1, MaxAmount}]
  /\ page = 0 /\ cursor = 0 /\ balances = Nobody /\ pc = "idle"
  /\ held = amount /\ quiet = TRUE /\ moves = MaxMoves /\ faults = Faults

-----------------------------------------------------------------------------
(* The chain *)

Becomes(a) ==
  /\ moves > 0 /\ moves' = moves - 1
  /\ amount' = a
  /\ held' = [k \in Accounts |-> Larger(held[k], a[k])]
  /\ quiet' = FALSE
  /\ UNCHANGED <<owner, reader, faults>>

(* A transfer; the receiving account is opened for it if need be.          *)
Transfer(a, b) ==
  /\ a # b /\ amount[a] > 0 /\ amount[b] < MaxAmount
  /\ Becomes([amount EXCEPT ![a] = @ - 1, ![b] = Larger(@, 0) + 1])

Close(a) == amount[a] = 0 /\ Becomes([amount EXCEPT ![a] = -1])

-----------------------------------------------------------------------------
(* The request *)

Ask ==
  /\ pc \in {"idle", "sent", "failed"}
  /\ page' = 0 /\ cursor' = 0 /\ balances' = Nobody /\ pc' = "read"
  /\ held' = amount /\ quiet' = TRUE
  /\ UNCHANGED <<owner, amount, moves, faults>>

after_inclusive(a, c) == a >= c
after(a, c) == a > c

Listed(c) == {a \in Accounts : amount[a] >= 0 /\ after(a, c)}
PageOf(c) == {a \in Listed(c) : Cardinality({b \in Listed(c) : b <= a}) <= PageSize}

(* Accounts of vaults are left out; the others add to their owner.         *)
added_last(total, x) == x
added(total, x) == total + x
sum(totals, p) ==
  [o \in Owners |-> IF o \in Wallets THEN added(totals[o], Sum(amount, p \cap Of(o))) ELSE totals[o]]

(* A page arrives. The server may or may not give a cursor with the last   *)
(* accounts; without one, on an empty page or at the cap the answer goes   *)
(* out.                                                                    *)
ReadPage ==
  LET p == PageOf(cursor) IN
  /\ pc = "read"
  /\ page' = page + 1
  /\ balances' = sum(balances, p)
  /\ cursor' = IF p = {} THEN cursor ELSE Max(p)
  /\ \/ p # {} /\ page' < PageCap /\ pc' = "read"
     \/ /\ p = {} \/ page' = PageCap \/ Listed(cursor') \subseteq {cursor'}
        /\ pc' = "sent"
  /\ UNCHANGED <<owner, amount, held, quiet, moves, faults>>

(* An error the server puts in a JSON body has no accounts: it reads as an *)
(* empty page. A call that throws ends the request with status 500.        *)
PageFails ==
  /\ pc = "read" /\ faults > 0 /\ faults' = faults - 1
  /\ pc' \in {"sent", "failed"}
  /\ UNCHANGED <<owner, amount, page, cursor, balances, held, quiet, moves>>

Next ==
  \/ \E a, b \in Accounts : Transfer(a, b)
  \/ \E a \in Accounts : Close(a)
  \/ Ask \/ ReadPage \/ PageFails

Spec == Init /\ [][Next]_vars

-----------------------------------------------------------------------------
(* Properties. *)

(* Whatever moves between two pages and whichever page fails, no owner is  *)
(* shown with more than its accounts held while the list was read, and no  *)
(* vault is shown at all.                                                  *)
ShownWasHeld ==
  \A o \in Owners : balances[o] <= IF o \in Wallets THEN Sum(held, Of(o)) ELSE 0

(* "Full holder list for a mint": an answer given while nothing moved is   *)
(* the balance of every wallet. It needs the accounts to fit the pages and *)
(* no page to have failed.                                                 *)
FullList ==
  pc = "sent" /\ quiet /\ faults = Faults => \A o \in Wallets : balances[o] = Sum(amount, Of(o))
=============================================================================
