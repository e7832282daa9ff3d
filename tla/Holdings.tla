------------------------------ MODULE Holdings ------------------------------
(***************************************************************************)
(* GET /holdings/:owner of the indexer: the assets of a wallet are read by *)
(* page number while assets come and go, and matched to the underlyings of *)
(* the catalog. The DAS server lists the assets a wallet has by number.    *)
(***************************************************************************)
EXTENDS Integers, FiniteSets

CONSTANTS MaxAsset,      \* assets are 1..MaxAsset
          CardKeys, Grades, \* a card's key: which card, and its grade
          NoGrade,       \* the grade attribute is missing
          Collections,   \* verified NFT collections of the catalog
          Catalog,       \* the card underlyings: <<card, grade>>
          PageSize,      \* assets per page (1000 in the code)
          PageCap,       \* pages per answer (20 in the code)
          MaxMoves,      \* bound: assets that come or go
          Faults         \* bound: pages answered by an error

VARIABLES kind,          \* kind[a]: what asset a is, fixed
          mine,          \* assets of the wallet
          page, assets,  \* pages read, and what was on them: <<page, asset>>
          pc,
          had,           \* assets the wallet had since the read began
          quiet,         \* none came or went since then
          moves, faults

vars == <<kind, mine, page, assets, pc, had, quiet, moves, faults>>

Assets == 1..MaxAsset
Nfts == {<<"nft", c>> : c \in Collections}
Graded == {<<"card", <<k, g>>>> : k \in CardKeys, g \in Grades \cup {NoGrade}}
AssetKinds == Nfts \cup Graded \cup {<<"other">>}

Init ==
  /\ kind \in [Assets -> AssetKinds]
  /\ mine \in SUBSET Assets
  /\ page = 1 /\ assets = {} /\ pc = "idle"
  /\ had = mine /\ quiet = TRUE /\ moves = MaxMoves /\ faults = Faults

Move(a) ==
  /\ moves > 0 /\ moves' = moves - 1
  /\ mine' = IF a \in mine THEN mine \ {a} ELSE mine \cup {a}
  /\ had' = had \cup mine' /\ quiet' = FALSE
  /\ UNCHANGED <<kind, page, assets, pc, faults>>

-----------------------------------------------------------------------------
(* assetsByOwner *)

Ask ==
  /\ pc \in {"idle", "sent", "failed"}
  /\ page' = 1 /\ assets' = {} /\ pc' = "read"
  /\ had' = mine /\ quiet' = TRUE
  /\ UNCHANGED <<kind, mine, moves, faults>>

rank(a) == Cardinality({b \in mine : b <= a})
PageOf(n) == {a \in mine : rank(a) \in (n - 1) * PageSize + 1 .. n * PageSize}

full_more(p) == Cardinality(p) > PageSize
full(p) == Cardinality(p) = PageSize

(* A page that is not full is the last one. *)
Arrives(p) ==
  /\ assets' = assets \cup ({page} \X p)
  /\ page' = page + 1
  /\ pc' = IF full(p) /\ page < PageCap THEN "read" ELSE "sent"
  /\ UNCHANGED <<kind, mine, had, quiet, moves>>

ReadPage == pc = "read" /\ Arrives(PageOf(page)) /\ UNCHANGED faults

(* An error in a JSON body has no items; a call that throws ends the       *)
(* request with status 400.                                                *)
PageFails ==
  /\ pc = "read" /\ faults > 0 /\ faults' = faults - 1
  /\ \/ Arrives({})
     \/ pc' = "failed" /\ UNCHANGED <<kind, mine, page, assets, had, quiet, moves>>

-----------------------------------------------------------------------------
(* cardHoldings *)

(* The catalog identifier rebuilt from a card's attributes; a card with an *)
(* attribute missing has none.                                             *)
identifier_ungraded(a) ==
  IF \E u \in Catalog : u[1] = kind[a][2][1]
  THEN CHOOSE u \in Catalog : u[1] = kind[a][2][1] ELSE <<"none">>
identifier(a) == IF kind[a][2][2] = NoGrade THEN <<"none">> ELSE kind[a][2]

underlying(a) ==
  CASE kind[a][1] = "card" -> IF identifier(a) \in Catalog THEN <<"card", identifier(a)>> ELSE <<"none">>
    [] kind[a][1] = "nft" -> kind[a]
    [] OTHER -> <<"none">>

copies(u) == Cardinality({x \in assets : underlying(x[2]) = u})
Underlyings == Nfts \cup {<<"card", c>> : c \in Catalog}
held == {u \in Underlyings : copies(u) > 0}

Next == (\E a \in Assets : Move(a)) \/ Ask \/ ReadPage \/ PageFails
Spec == Init /\ [][Next]_vars

-----------------------------------------------------------------------------
(* Properties. *)

(* Whatever comes and goes between two pages and whichever page fails, an  *)
(* underlying is shown as held only if the wallet had, while it was read,  *)
(* the very collectible: this card in this grade, or an NFT of the         *)
(* verified collection.                                                    *)
HeldWasHad ==
  \A u \in held : \E a \in had : kind[a] = u

(* An answer given while nothing moved counts every copy once, when the    *)
(* assets fit the pages and no page has failed.                            *)
QuietCountsExact ==
  pc = "sent" /\ quiet /\ faults = Faults =>
    \A u \in Underlyings : copies(u) = Cardinality({a \in mine : kind[a] = u})
=============================================================================
