------------------------------ MODULE Catalog ------------------------------
(***************************************************************************)
(* The allowlist of relayer/scripts/allowlist.ts: which underlyings are    *)
(* deep enough to get a market, and the price a card's market starts with. *)
(* Collections are asked one by one; the card marketplace is read page by  *)
(* page, for minutes, while cards are sold and new ones are offered. What  *)
(* the scan found is kept in a file that later runs reuse.                 *)
(***************************************************************************)
EXTENDS Integers, FiniteSets, SequencesExt

CONSTANTS Group,        \* Group[l]: the graded card listing l offers
          Price,        \* Price[l]: its price
          PageSize,     \* listings per page
          MinListings, MinFloorUsd,
          Collections,  \* NFT_CANDIDATES
          Volume,       \* Volume[c]: weekly volume of a collection
          MinVolume,
          MaxMoves,     \* bound: sales and new offers
          Faults        \* bound: requests that fail in every attempt

VARIABLES onSale,       \* the marketplace: listings in the order of its pages
          pages,        \* totalPages, as the first page told
          page,         \* pages read or given up
          read,         \* the listings read: <<page, listing>>
          nfts,         \* collections that answered and qualify
          pc,
          file,         \* cc-depth-scout.json: <<rows of the last scan>>, or << >>
          allow,        \* allowlist.yaml: [nfts, cards]
          before,       \* the marketplace when the scan began
          offered, quiet, moves, faults

vars == <<onSale, pages, page, read, nfts, pc, file, allow, before, offered, quiet, moves, faults>>
world == <<onSale, offered, quiet, moves>>

Listings == DOMAIN Group
Cards == {Group[l] : l \in Listings}
Fault == faults > 0 /\ faults' = faults - 1
Ceil(n) == (n + PageSize - 1) \div PageSize

Init ==
  /\ onSale \in UNION {SetToSeqs(S) : S \in SUBSET Listings}
  /\ pages = 0 /\ page = 0 /\ read = {} /\ nfts = << >> /\ pc = "idle"
  /\ file = << >> /\ allow = [nfts |-> << >>, cards |-> << >>] /\ before = {}
  /\ offered = FALSE /\ quiet = TRUE /\ moves = MaxMoves /\ faults = Faults

-----------------------------------------------------------------------------
(* The marketplace, while the scan runs *)

Sold(i) ==
  /\ pc = "cards" /\ moves > 0 /\ moves' = moves - 1
  /\ i \in DOMAIN onSale /\ onSale' = RemoveAt(onSale, i)
  /\ quiet' = FALSE
  /\ UNCHANGED <<pages, page, read, nfts, pc, file, allow, before, offered, faults>>

Offered(l, i) ==
  /\ pc = "cards" /\ moves > 0 /\ moves' = moves - 1
  /\ l \in Listings \ ToSet(onSale) /\ i \in 1..Len(onSale) + 1
  /\ onSale' = InsertAt(onSale, i, l)
  /\ offered' = TRUE /\ quiet' = FALSE
  /\ UNCHANGED <<pages, page, read, nfts, pc, file, allow, before, faults>>

-----------------------------------------------------------------------------
(* The script *)

(* Collections that do not answer are skipped; those that trade enough are *)
(* kept, the most traded first.                                            *)
deep_any(c) == TRUE
deep(c) == Volume[c] >= MinVolume
busiest_first(s) == \A i \in 1..Len(s) - 1 : Volume[s[i]] >= Volume[s[i + 1]]

scanNfts ==
  /\ pc = "idle"
  /\ \E answered \in SUBSET Collections :
       /\ answered # Collections => faults > 0
       /\ faults' = IF answered = Collections THEN faults ELSE faults - 1
       /\ nfts' \in {s \in SetToSeqs({c \in answered : deep(c)}) : busiest_first(s)}
  /\ pc' = "choose"
  /\ UNCHANGED <<world, pages, page, read, file, allow, before>>

PageOf(p) == {onSale[i] : i \in {k \in DOMAIN onSale : (p - 1) * PageSize < k /\ k <= p * PageSize}}

(* --scan-cards, or no file: the first page tells how many there are. When *)
(* it cannot be read the script dies.                                      *)
StartScan ==
  /\ pc = "choose"
  /\ \/ /\ pages' = Ceil(Len(onSale)) /\ page' = 1 /\ read' = {1} \X PageOf(1) /\ pc' = "cards"
        /\ before' = ToSet(onSale) /\ offered' = FALSE /\ quiet' = TRUE
        /\ UNCHANGED <<nfts, faults>>
     \/ /\ Fault /\ pc' = "idle" /\ nfts' = << >>
        /\ UNCHANGED <<pages, page, read, before, offered, quiet>>
  /\ UNCHANGED <<onSale, moves, file, allow>>

NextPage ==
  /\ pc = "cards" /\ page < pages
  /\ page' = page + 1 /\ read' = read \cup ({page'} \X PageOf(page'))
  /\ UNCHANGED <<world, pages, nfts, pc, file, allow, before, faults>>

(* Four attempts fail: the page is left out.                               *)
SkipPage ==
  /\ pc = "cards" /\ page < pages /\ Fault
  /\ page' = page + 1 /\ quiet' = FALSE
  /\ UNCHANGED <<onSale, offered, moves, pages, read, nfts, pc, file, allow, before>>

(* A row of a card: how many listings were read, the lowest and the middle *)
(* price when they are sorted.                                             *)
prices_of(c) == {x \in read : Group[x[2]] = c}
earlier(x, y) == x[1] < y[1] \/ (x[1] = y[1] /\ x[2] < y[2])
cheaper_as_read(x, y) == earlier(x, y)
cheaper(x, y) ==
  \/ Price[x[2]] < Price[y[2]]
  \/ Price[x[2]] = Price[y[2]] /\ earlier(x, y)
sorted(s, n) == CHOOSE x \in s : Cardinality({y \in s : y = x \/ cheaper(y, x)}) = n
row(c) ==
  LET s == prices_of(c)  price(n) == Price[sorted(s, n)[2]]
  IN  [listings |-> Cardinality(s), floor |-> price(1), median |-> price((Cardinality(s) \div 2) + 1)]
rows == [c \in {Group[x[2]] : x \in read} |-> row(c)]

ScanEnds ==
  /\ pc = "cards" /\ page >= pages
  /\ file' = <<rows>> /\ pc' = "emit"
  /\ UNCHANGED <<world, pages, page, read, nfts, allow, before, faults>>

(* Without --scan-cards the rows of the file do.                           *)
ReuseScan ==
  /\ pc = "choose" /\ file # << >> /\ pc' = "emit"
  /\ UNCHANGED <<world, pages, page, read, nfts, file, allow, before, faults>>

qualifies_by_floor(r) == r.floor >= MinFloorUsd
qualifies(r) == r.listings >= MinListings /\ r.floor >= MinFloorUsd

(* The allowlist: a card starts at the median of its listings.             *)
Emit ==
  /\ pc = "emit" /\ pc' = "idle"
  /\ allow' = [nfts |-> nfts,
               cards |-> [c \in {d \in DOMAIN file[1] : qualifies(file[1][d])} |-> file[1][c].median]]
  /\ nfts' = << >> /\ read' = {} /\ pages' = 0 /\ page' = 0
  /\ UNCHANGED <<world, file, before, faults>>

-----------------------------------------------------------------------------
Next ==
  \/ \E i \in DOMAIN onSale : Sold(i)
  \/ \E l \in Listings, i \in 1..Len(onSale) + 1 : Offered(l, i)
  \/ scanNfts \/ StartScan \/ NextPage \/ SkipPage \/ ScanEnds \/ ReuseScan \/ Emit

Spec == Init /\ [][Next]_vars

-----------------------------------------------------------------------------
(* Properties. *)

(* While cards are only sold, the scan counts no listing twice, however    *)
(* the pages shift under it: a card is never found deeper than it was.     *)
CountedOnce ==
  ~offered => \A x \in read : x[2] \in before /\ \A y \in read : x[2] = y[2] => x = y

(* A whole scan during which nothing moved lists every card that is deep   *)
(* enough, starting between the cheapest and the dearest listing with no   *)
(* more than half of them on either side.                                  *)
QuietAllowlistExact ==
  pc = "emit" /\ quiet /\ page > 0 =>
    \A c \in Cards :
      LET offers == {l \in before : Group[l] = c}
          r == file[1][c]
      IN  /\ (c \in DOMAIN file[1]) <=> (offers # {})
          /\ offers # {} =>
               /\ r.listings = Cardinality(offers)
               /\ \E l \in offers : Price[l] = r.floor
               /\ \A l \in offers : r.floor <= Price[l]
               /\ \E l \in offers : Price[l] = r.median
               /\ 2 * Cardinality({l \in offers : Price[l] < r.median}) <= r.listings
               /\ 2 * Cardinality({l \in offers : Price[l] > r.median}) <= r.listings

(* However often the file is reused and whatever page was lost, a card on  *)
(* the allowlist had as many listings on sale as the policy asks for, none *)
(* below its least price read, unless new offers shifted the pages; and    *)
(* the collections come by volume, none of which trades too little.        *)
AllowlistIsDeep ==
  /\ pc = "idle" /\ ~offered =>
       \A c \in DOMAIN allow.cards :
         /\ Cardinality({l \in before : Group[l] = c}) >= MinListings
         /\ allow.cards[c] >= MinFloorUsd
  /\ \A i \in DOMAIN allow.nfts : Volume[allow.nfts[i]] >= MinVolume
  /\ busiest_first(allow.nfts)
=============================================================================
