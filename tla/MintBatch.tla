----------------------------- MODULE MintBatch -----------------------------
(***************************************************************************)
(* launcher/mint-core.mjs: a batch of pictures becomes NFTs. Storage       *)
(* credits are bought if they do not suffice, then for each picture the    *)
(* image and its metadata are uploaded, an asset is minted and mints.json  *)
(* is rewritten. A call that throws ends the run; a later run starts over. *)
(***************************************************************************)
EXTENDS Integers, Sequences

CONSTANTS Images,      \* pictures in the directory: 1..Images
          Cost,        \* credits an upload takes
          TopUp,       \* credits a top-up of 0.025 SOL buys
          MaxPolls,    \* looks at the balance after a top-up (30 in the code)
          MaxRuns,     \* bound: runs of the script
          Faults       \* bound: calls that throw

VARIABLES credits,     \* the Turbo balance
          bought,      \* top-ups that have not been credited yet
          pc, at, polls,
          uploads,     \* uploads of this run: <<what, image>>
          results,     \* the list of that name: image -> asset
          file,        \* mints.json
          assets,      \* assets on chain, in order: [image, owned uploads]
          runs, faults

vars == <<credits, bought, pc, at, polls, uploads, results, file, assets, runs, faults>>

Init ==
  /\ credits \in {0, 2 * Images * Cost} /\ bought = 0
  /\ pc = "idle" /\ at = 0 /\ polls = 0 /\ uploads = {}
  /\ results = << >> /\ file = << >> /\ assets = << >>
  /\ runs = MaxRuns /\ faults = Faults

needed == 2 * Images * Cost

(* The operator runs the script: results and uploads are of this run.      *)
Start ==
  /\ pc = "idle" /\ runs > 0 /\ runs' = runs - 1
  /\ pc' = "credits" /\ at' = 1 /\ polls' = 0 /\ uploads' = {} /\ results' = << >>
  /\ UNCHANGED <<credits, bought, file, assets, faults>>

(* A top-up shows in the balance at some later time.                       *)
Credited ==
  /\ bought > 0 /\ bought' = bought - 1
  /\ credits' = credits + TopUp
  /\ UNCHANGED <<pc, at, polls, uploads, results, file, assets, runs, faults>>

(* ensureCredits: the batch is priced and the balance looked at.           *)
ensureCredits ==
  /\ pc = "credits"
  /\ IF credits >= needed THEN pc' = "image" /\ UNCHANGED bought
     ELSE pc' = "poll" /\ bought' = bought + 1
  /\ UNCHANGED <<credits, at, polls, uploads, results, file, assets, runs, faults>>

enough_any == TRUE
enough == credits >= needed

(* A look at the balance; after the last one the run ends in an error.     *)
Poll ==
  /\ pc = "poll"
  /\ polls' = polls + 1
  /\ pc' = IF enough THEN "image" ELSE IF polls' < MaxPolls THEN "poll" ELSE "idle"
  /\ UNCHANGED <<credits, bought, at, uploads, results, file, assets, runs, faults>>

(* The image of the picture is uploaded, then the metadata that names it.  *)
uploadBytes(what, next) ==
  /\ pc = what
  /\ credits' = credits - Cost
  /\ uploads' = uploads \cup {<<what, at>>}
  /\ pc' = next
  /\ UNCHANGED <<bought, at, polls, results, file, assets, runs, faults>>

minted == Append(assets, [image |-> at, uris |-> {u \in uploads : u[2] = at}])

(* The asset is created; the run moves on when it is confirmed.            *)
Mint ==
  /\ pc = "mint" /\ assets' = minted /\ pc' = "record"
  /\ UNCHANGED <<credits, bought, at, polls, uploads, results, file, runs, faults>>

recorded == Append(results, Len(assets))

written_before == results
written == recorded

(* mints.json is written anew after each asset.                            *)
Record ==
  /\ pc = "record"
  /\ results' = recorded /\ file' = written
  /\ IF at = Images THEN pc' = "idle" /\ at' = 0 ELSE pc' = "image" /\ at' = at + 1
  /\ UNCHANGED <<credits, bought, polls, uploads, assets, runs, faults>>

(* A call throws, the confirmation of a mint that landed gets lost, or the *)
(* script is stopped.                                                      *)
Throws ==
  /\ pc \in {"credits", "poll", "image", "json", "mint", "record"} /\ faults > 0
  /\ faults' = faults - 1 /\ pc' = "idle" /\ at' = 0
  /\ \/ UNCHANGED assets
     \/ pc = "mint" /\ assets' = minted
  /\ UNCHANGED <<credits, bought, polls, uploads, results, file, runs>>

-----------------------------------------------------------------------------
Upload == uploadBytes("image", "json") \/ uploadBytes("json", "mint")
Step == ensureCredits \/ Poll \/ Upload \/ Mint \/ Record

Next == Start \/ Credited \/ Step \/ Throws

Spec == Init /\ [][Next]_vars

(* Calls end and top-ups are credited in the end.                          *)
FairSpec == Spec /\ WF_vars(Step) /\ WF_vars(Credited)

-----------------------------------------------------------------------------
(* Properties. *)

(* No upload is begun that the credits of the batch do not cover, also     *)
(* when an earlier run spent part of them or its top-up came late.         *)
UploadsCovered ==
  pc \in {"image", "json"} =>
    credits >= Cost * (2 * (Images - at) + IF pc = "image" THEN 2 ELSE 1)

(* mints.json lists assets of one run, one for each picture from the first *)
(* on, with image and metadata uploaded, and once the run turns to another *)
(* picture it lists all before it: the assets a crash would leave behind   *)
(* unlisted are at most the one being minted. (Those of a run that broke   *)
(* off stay on chain and are forgotten by the next run.)                   *)
FileIsOneRun ==
  /\ \A i \in DOMAIN file :
       /\ file[i] \in DOMAIN assets
       /\ assets[file[i]].image = i
       /\ assets[file[i]].uris = {<<"image", i>>, <<"json", i>>}
  /\ \A i, j \in DOMAIN file : i < j => file[i] < file[j]
  /\ at > 1 => Len(file) = at - 1

(* A run ends, in an error or with everything minted.                      *)
RunEnds == pc # "idle" ~> pc = "idle"
=============================================================================
