----------------------------- MODULE CardImages -----------------------------
(***************************************************************************)
(* relayer/scripts/card-images.ts: a picture for every card of the         *)
(* allowlist. Each card has a ladder of rungs, from the precise source to  *)
(* the loose one: a rung may first search a catalog, which can answer with *)
(* another print, and then downloads a file, whose name is the identifier  *)
(* with odd characters replaced, cut off at 120. Every request is tried    *)
(* three times; the report of a run replaces that of the run before.       *)
(***************************************************************************)
EXTENDS Integers, SequencesExt

CONSTANTS Cards,     \* the cards of the allowlist, in order
          Kind,      \* Kind[c]: "onepiece", "pokemon" or "foreign"
          Coded,     \* cards whose code can be derived from set and number
          Prints,    \* what the catalogs have: the cards and other prints
          Words,     \* Words[x]: the specific words in the name of a print
          safe,      \* safe[c]: the file name of a card, without extension
          Nums,      \* number variants of a Pokemon print
          Names,     \* name variants
          MaxTries,  \* attempts per request (3 in the code)
          MaxRuns    \* bound: runs of the script

VARIABLES at,        \* the card the loop is at, 0 between runs
          rung,      \* the rung of its ladder
          pc, tries,
          hit,       \* the print the search found
          disk,      \* disk[f]: the print pictured in file f, or None
          results,   \* the results of this run
          report,    \* report.json
          runs

vars == <<at, rung, pc, tries, hit, disk, results, report, runs>>

None == "none"
card == Cards[at]
Files == {safe[c] : c \in ToSet(Cards)} \X {"jpg", "png"}

Init ==
  /\ at = 0 /\ rung = 0 /\ pc = "idle" /\ tries = 0 /\ hit = None
  /\ disk = [f \in Files |-> None]
  /\ results = << >> /\ report = << >> /\ runs = MaxRuns

-----------------------------------------------------------------------------
(* The ladders. A rung is what it downloads, and how good that is.         *)

Direct(status, ext) == [search |-> FALSE, status |-> status, ext |-> ext]
Search == [search |-> TRUE, status |-> "ok", ext |-> "png"]

(* The clean scan by its code, then the official one with a watermark.     *)
resolveOnePiece(c) ==
  IF c \in Coded THEN <<Direct("ok", "jpg"), Direct("watermarked", "png")>> ELSE << >>

(* English prints: every number with every name, then every number alone.  *)
resolvePokemon == [i \in 1..(Nums * Names + Nums) |-> Search]

(* Other languages: one lookup by set and number.                          *)
resolveForeign(c) == IF c \in Coded THEN <<Search>> ELSE << >>

Ladder(c) ==
  CASE Kind[c] = "onepiece" -> resolveOnePiece(c)
    [] Kind[c] = "pokemon" -> resolvePokemon
    [] Kind[c] = "foreign" -> resolveForeign(c)

-----------------------------------------------------------------------------
(* The loop *)

(* Rung r of card i is next; a ladder without more rungs leaves the card   *)
(* for a person to do.                                                     *)
OnRung(i, r, done) ==
  IF i > Len(Cards)
  THEN /\ report' = done /\ at' = 0 /\ rung' = 0 /\ pc' = "idle" /\ results' = << >>
  ELSE LET l == Ladder(Cards[i]) IN
       /\ at' = i /\ rung' = r /\ UNCHANGED report
       /\ results' = done
       /\ pc' = IF r > Len(l) THEN "manual" ELSE IF l[r].search THEN "search" ELSE "download"

Turn == tries' = 0 /\ hit' = None
Start ==
  /\ pc = "idle" /\ runs > 0 /\ runs' = runs - 1
  /\ OnRung(1, 1, << >>) /\ Turn
  /\ UNCHANGED disk

(* Every request of the rung failed, or it has no picture.                 *)
next_rung_same == rung
next_rung == rung + 1
NextRung == OnRung(at, next_rung, results) /\ Turn

Resolved(status, file) ==
  /\ OnRung(at + 1, 1, Append(results, [card |-> card, status |-> status, file |-> file])) /\ Turn
  /\ UNCHANGED runs

(* getJson: null on a 404 and after the last attempt.                      *)
Again == tries + 1 < MaxTries /\ tries' = tries + 1 /\ UNCHANGED <<at, rung, pc, hit, results, report>>
SearchFails ==
  /\ pc = "search"
  /\ Again \/ (tries + 1 = MaxTries /\ NextRung)
  /\ UNCHANGED <<disk, runs>>

namesOverlap_any(c, found) == TRUE
namesOverlap(c, found) == Words[c] \cap Words[found] # {}

(* Of what a search finds the first print whose name shares a specific     *)
(* word with the card's is trusted. A lookup by set and number answers     *)
(* with the card asked for.                                                *)
Found(found) ==
  /\ pc = "search"
  /\ Kind[card] = "foreign" => found \in {card, None}
  /\ IF found # None /\ (Kind[card] = "foreign" \/ namesOverlap(card, found))
     THEN /\ hit' = found /\ pc' = "download" /\ tries' = 0
          /\ UNCHANGED <<at, rung, results, report>>
     ELSE NextRung
  /\ UNCHANGED <<disk, runs>>

(* download: a 404 or an error page of a few bytes ends the rung, as the   *)
(* last failed attempt does.                                               *)
DownloadFails ==
  /\ pc = "download"
  /\ Again \/ (tries + 1 = MaxTries /\ NextRung)
  /\ UNCHANGED <<disk, runs>>

NoPicture == pc = "download" /\ NextRung /\ UNCHANGED <<disk, runs>>

Downloaded ==
  /\ pc = "download"
  /\ LET how == Ladder(card)[rung]
         file == <<safe[card], how.ext>>
     IN  /\ disk' = [disk EXCEPT ![file] = IF hit = None THEN card ELSE hit]
         /\ Resolved(how.status, file)

Manual == pc = "manual" /\ Resolved("manual", None) /\ UNCHANGED disk

(* The script is stopped and run again.                                    *)
Stopped ==
  /\ pc # "idle" /\ runs > 0
  /\ at' = 0 /\ rung' = 0 /\ pc' = "idle" /\ results' = << >> /\ Turn
  /\ UNCHANGED <<disk, report, runs>>

-----------------------------------------------------------------------------
Step ==
  \/ SearchFails \/ DownloadFails \/ NoPicture \/ Downloaded \/ Manual
  \/ \E found \in Prints \cup {None} : Found(found)

Next == Start \/ Step \/ Stopped

Spec == Init /\ [][Next]_vars

(* Requests end, well or not; nothing makes a run start or stop.           *)
FairSpec == Spec /\ WF_vars(Step)

-----------------------------------------------------------------------------
(* Properties. *)

(* What a file may show for a card: the card itself, or, if it was         *)
(* searched for by name, a print whose name shares a specific word (the    *)
(* promise of the comment at card-images.ts:150-155).                      *)
MayShow(c) ==
  IF Kind[c] = "pokemon"
  THEN {x \in Prints : \E w \in Words[c] : w \in Words[x]}
  ELSE {c}

(* However many runs were stopped half way, the report names every card    *)
(* once, and a card reported as done has a file; the file shows a print    *)
(* that was trusted for this card, or for one whose file has its name.     *)
ReportedIsOnDisk ==
  /\ \A i \in DOMAIN report :
       /\ report[i].card = Cards[i]
       /\ report[i].status # "manual" =>
            \E c \in ToSet(Cards) :
              safe[c] = safe[report[i].card] /\ disk[report[i].file] \in MayShow(c)
  /\ report = << >> \/ Len(report) = Len(Cards)

(* Even if every site is down, a run that nobody stops ends with a report. *)
RunEnds == pc # "idle" ~> pc = "idle"
=============================================================================
