----------------------------- MODULE BlogStore -----------------------------
(***************************************************************************)
(* Comments and subscribers of the blog: the store of                      *)
(* src/blog/src/lib/store.ts (Upstash or two JSON files), the routes that  *)
(* call it, the author verification of privy.ts, and the comment section   *)
(* of a page. Requests overlap at every await. Writing a file is not       *)
(* atomic: fs.writeFile truncates it and writes it later, two writes that  *)
(* overlap may leave a mix of both, and a reader that finds no JSON gets   *)
(* the fallback, an empty list. Any call may fail at any of its steps, or  *)
(* be done and its answer lost; a process that dies is its requests        *)
(* failing one after the other.                                            *)
(***************************************************************************)
EXTENDS Integers, Sequences, SequencesExt, FiniteSets

CONSTANTS Upstash,      \* USE_UPSTASH
          Users, Requests, None,
          Spellings,    \* emails that are sent: <<trimmed and in lower case, as typed>>
          MAX_COMMENTS,
          MaxPosts,     \* bound: comments posted
          MaxLinks,     \* bound: times users link another account
          MaxSubs,      \* bound: subscriptions sent
          Faults        \* bound: calls that fail

VARIABLES file,    \* what is stored: [comments, subscribers]
          req,     \* requests under way on the server
          clash,   \* those whose reading and writing of a file overlaps another's
          page,    \* page[u]: the comment section a user has open
          linked,  \* the account a user has linked: none, wallet or email
          posts,   \* comments posted: [user, author, linked, older]; older: answered before
          acked,   \* comments the server answered for; on the file, since the last
                   \* time writes of it overlapped or one failed half way
          taken,   \* comments the store ever held
          news,    \* news[a]: times an address was told it is new; on the file, likewise
          subs, links, faults

vars == <<file, req, clash, page, linked, posts, acked, taken, news, subs, links, faults>>

Torn == <<None>>
Idle == [pc |-> "idle", to |-> "comments", item |-> 0, list |-> << >>]
Closed == [pc |-> "closed", snap |-> << >>, view |-> << >>, busy |-> 0, answer |-> FALSE]

(* email.trim().toLowerCase() *)
address_as_typed(e) == e[2]
address(e) == e[1]

Init ==
  /\ file = [comments |-> << >>, subscribers |-> << >>]
  /\ req = [r \in Requests |-> Idle] /\ clash = {}
  /\ page = [u \in Users |-> Closed]
  /\ linked = [u \in Users |-> None]
  /\ posts = << >> /\ acked = {} /\ taken = {}
  /\ news = [e \in Spellings |-> 0]
  /\ subs = MaxSubs /\ links = MaxLinks /\ faults = Faults

Fault == faults > 0 /\ faults' = faults - 1
Parsed(data) == IF data = Torn THEN << >> ELSE data
Ends(r) == req' = [req EXCEPT ![r] = Idle] /\ clash' = clash \ {r}

-----------------------------------------------------------------------------
(* The page *)

(* The page asks for the comments when it opens ... *)
Open(u) ==
  /\ page[u].pc = "closed"
  /\ page' = [page EXCEPT ![u].pc = "get"]
  /\ UNCHANGED <<file, req, clash, linked, posts, acked, taken, news, subs, links, faults>>

(* ... the server reads them ... *)
getComments(u) ==
  /\ page[u].pc = "get"
  /\ page' = [page EXCEPT ![u].pc = "got", ![u].snap =
       LET all == Parsed(file.comments) IN
       IF Upstash THEN SubSeq(all, 1, IF Len(all) < MAX_COMMENTS THEN Len(all) ELSE MAX_COMMENTS)
       ELSE all]
  /\ UNCHANGED <<file, req, clash, linked, posts, acked, taken, news, subs, links, faults>>

(* ... and the answer replaces what the page shows. *)
Loaded(u) ==
  /\ page[u].pc = "got"
  /\ page' = [page EXCEPT ![u].pc = "open", ![u].view = page[u].snap, ![u].snap = << >>]
  /\ UNCHANGED <<file, req, clash, linked, posts, acked, taken, news, subs, links, faults>>

Link(u) ==
  /\ linked[u] # "email" /\ links > 0
  /\ links' = links - 1
  /\ linked' = [linked EXCEPT ![u] = IF @ = None THEN "wallet" ELSE "email"]
  /\ UNCHANGED <<file, req, clash, page, posts, acked, taken, news, subs, faults>>

(* verifyAuthor: the linked email, else the wallet, else a handle made of  *)
(* the user id; also that handle when the rate-limited lookup fails.       *)
author(u) == IF linked[u] = None THEN "member" ELSE linked[u]

shown_at_once(u, c) == <<c>> \o page[u].view
shown(u, c) == page[u].view

Post(u, r) ==
  LET c == Len(posts) + 1 IN
  /\ page[u].pc # "closed" /\ page[u].busy = 0 /\ req[r].pc = "idle"
  /\ c <= MaxPosts
  /\ \E name \in {author(u), "member"} :
       /\ posts' = Append(posts, [user |-> u, author |-> name, linked |-> linked[u], older |-> acked])
       /\ IF name = author(u) THEN UNCHANGED faults ELSE Fault
  /\ page' = [page EXCEPT ![u].busy = c, ![u].view = shown(u, c)]
  /\ req' = [req EXCEPT ![r] = [Idle EXCEPT !.pc = "start", !.item = c]]
  /\ UNCHANGED <<file, clash, linked, acked, taken, news, subs, links>>

Answered(u) ==
  /\ page[u].answer
  /\ page' = [page EXCEPT ![u].view = <<page[u].busy>> \o page[u].view, ![u].busy = 0,
                          ![u].answer = FALSE]
  /\ UNCHANGED <<file, req, clash, linked, posts, acked, taken, news, subs, links, faults>>

Subscribe(e, r) ==
  /\ req[r].pc = "idle" /\ subs > 0
  /\ subs' = subs - 1
  /\ req' = [req EXCEPT ![r] = [Idle EXCEPT !.pc = "start", !.to = "subscribers", !.item = e]]
  /\ UNCHANGED <<file, clash, page, linked, posts, acked, taken, news, links, faults>>

-----------------------------------------------------------------------------
(* Answers *)

AnswerComment(c) ==
  /\ acked' = acked \cup {c}
  /\ page' = [page EXCEPT ![posts[c].user].answer = TRUE]
  /\ UNCHANGED news

AnswerNew(e) ==
  /\ news' = [s \in Spellings |-> news[s] + IF address(s) = address(e) THEN 1 ELSE 0]
  /\ UNCHANGED <<page, acked>>

Answer(r) == IF req[r].to = "comments" THEN AnswerComment(req[r].item) ELSE AnswerNew(req[r].item)

(* An answer that promises nothing.                                        *)
Unsure(r) ==
  /\ page' = IF req[r].to = "comments"
             THEN [page EXCEPT ![posts[req[r].item].user].answer = TRUE] ELSE page
  /\ UNCHANGED <<acked, news>>

failed_stays_busy(p) == p
failed(p) == [p EXCEPT !.busy = 0]

(* The client is told of a failure, and its post button comes back.        *)
Failed(r) ==
  page' = [u \in Users |->
    IF req[r].to = "comments" /\ posts[req[r].item].user = u
    THEN failed(page[u]) ELSE page[u]]

(* What was answered for before is no longer sure to be in a file.         *)
Void(to) ==
  /\ acked' = IF to = "comments" THEN {} ELSE acked
  /\ news' = IF to = "subscribers" THEN [s \in Spellings |-> 0] ELSE news

-----------------------------------------------------------------------------
(* The Upstash backend: each call is atomic; its answer may be lost.       *)

Pushed(r) == <<req[r].item>> \o file.comments

RedisPush(r) ==
  /\ Upstash /\ req[r].pc = "start" /\ req[r].to = "comments"
  /\ file' = [file EXCEPT !.comments = Pushed(r)]
  /\ taken' = taken \cup {req[r].item}
  /\ req' = [req EXCEPT ![r].pc = "trim"]
  /\ UNCHANGED <<clash, page, linked, posts, acked, news, subs, links, faults>>

newest_of_last(list) ==
  SubSeq(list, IF Len(list) > MAX_COMMENTS THEN Len(list) - MAX_COMMENTS + 1 ELSE 1, Len(list))
newest_of(list) == SubSeq(list, 1, IF Len(list) < MAX_COMMENTS THEN Len(list) ELSE MAX_COMMENTS)

RedisTrim(r) ==
  /\ req[r].pc = "trim"
  /\ file' = [file EXCEPT !.comments = newest_of(file.comments)]
  /\ \/ Answer(r) /\ UNCHANGED faults
     \/ Failed(r) /\ Fault /\ UNCHANGED <<acked, news>>
  /\ Ends(r)
  /\ UNCHANGED <<linked, posts, taken, subs, links>>

RedisAdd(r) ==
  LET a == address(req[r].item) IN
  /\ Upstash /\ req[r].pc = "start" /\ req[r].to = "subscribers"
  /\ IF Contains(file.subscribers, a)
     THEN UNCHANGED <<file, page, acked, news, faults>>
     ELSE /\ file' = [file EXCEPT !.subscribers = Append(@, a)]
          /\ \/ Answer(r) /\ UNCHANGED faults
             \/ Failed(r) /\ Fault /\ UNCHANGED <<acked, news>>
  /\ Ends(r)
  /\ UNCHANGED <<linked, posts, taken, subs, links>>

-----------------------------------------------------------------------------
(* The file backend: read, change, write. *)

new_list(r) ==
  LET list == Parsed(file[req[r].to])
  IN  IF req[r].to = "comments" THEN newest_of(<<req[r].item>> \o list)
      ELSE Append(list, address(req[r].item))

(* The requests that have read the file and not yet written it.            *)
Others(r) == {s \in Requests \ {r} : req[s].to = req[r].to /\ req[s].pc \in {"write", "fill"}}

FileRead(r) ==
  /\ ~Upstash /\ req[r].pc = "start"
  /\ IF req[r].to = "subscribers" /\ Contains(Parsed(file.subscribers), address(req[r].item))
     THEN Ends(r) /\ UNCHANGED <<acked, news>>
     ELSE /\ req' = [req EXCEPT ![r].pc = "write", ![r].list = new_list(r)]
          /\ IF Others(r) = {} THEN UNCHANGED <<clash, acked, news>>
             ELSE clash' = clash \cup Others(r) \cup {r} /\ Void(req[r].to)
  /\ UNCHANGED <<file, page, linked, posts, taken, subs, links, faults>>

FileTruncated(r) ==
  /\ req[r].pc = "write"
  /\ file' = [file EXCEPT ![req[r].to] = Torn]
  /\ req' = [req EXCEPT ![r].pc = "fill"]
  /\ UNCHANGED <<clash, page, linked, posts, acked, taken, news, subs, links, faults>>

(* The client is answered; of writes that overlap the file keeps one or a  *)
(* mix, and the answer is no promise.                                      *)
FileWritten(r) ==
  /\ req[r].pc = "fill"
  /\ \E data \in {req[r].list} \cup IF r \in clash THEN {Torn} ELSE {} :
       file' = [file EXCEPT ![req[r].to] = data]
  /\ taken' = IF req[r].to = "comments" THEN taken \cup {req[r].item} ELSE taken
  /\ IF r \in clash THEN Unsure(r) ELSE Answer(r)
  /\ Ends(r)
  /\ UNCHANGED <<linked, posts, subs, links, faults>>

(* A call fails before it does anything; a comment that was pushed stays   *)
(* when the list is not trimmed.                                           *)
StoreFails(r) ==
  /\ req[r].pc \in {"start", "write", "trim"} /\ Fault /\ Failed(r) /\ Ends(r)
  /\ UNCHANGED <<file, linked, posts, acked, taken, news, subs, links>>

(* A write fails after it truncated the file, and everything in it is lost.*)
WriteFails(r) ==
  /\ req[r].pc = "fill" /\ Fault /\ Failed(r) /\ Ends(r) /\ Void(req[r].to)
  /\ \E data \in {file[req[r].to], Torn} : file' = [file EXCEPT ![req[r].to] = data]
  /\ UNCHANGED <<linked, posts, taken, subs, links>>

-----------------------------------------------------------------------------
Serve(r) == RedisPush(r) \/ RedisTrim(r) \/ RedisAdd(r) \/ FileRead(r) \/ FileTruncated(r) \/ FileWritten(r)

Next ==
  \/ \E u \in Users :
       \/ Open(u) \/ getComments(u) \/ Loaded(u) \/ Link(u) \/ Answered(u)
       \/ \E r \in Requests : Post(u, r)
  \/ \E e \in Spellings, r \in Requests : Subscribe(e, r)
  \/ \E r \in Requests :
       Serve(r) \/ StoreFails(r) \/ WriteFails(r)

Spec == Init /\ [][Next]_vars

(* Requests and answers are served. *)
FairSpec ==
  /\ Spec
  /\ \A r \in Requests : WF_vars(Serve(r))
  /\ \A u \in Users : WF_vars(Answered(u))

-----------------------------------------------------------------------------
(* Properties. *)

Whole(what) == \A r \in Requests : ~(req[r].pc = "fill" /\ req[r].to = what)

(* A comment the server answered for is stored, until MAX_COMMENTS others  *)
(* have come that were not older: on Redis however requests overlap and    *)
(* whichever call fails; on the file until a write of it overlaps another  *)
(* or fails half way. (The file backend is said to be "fine for local dev  *)
(* and single-instance Node hosts"; two comments at once lose one, and a   *)
(* write cut short loses all: that is what acked leaves out.)              *)
CommentsKept ==
  Whole("comments") =>
    \A c \in acked :
      \/ Contains(file.comments, c)
      \/ /\ Len(file.comments) >= MAX_COMMENTS
         /\ \A k \in DOMAIN file.comments : file.comments[k] \notin posts[c].older

(* An address, however it is spelled, is told once that it is new, and     *)
(* then stays on the list, in the same sense.                              *)
SubscribedOnce ==
  Whole("subscribers") =>
    \A e \in Spellings :
      /\ news[e] <= 1
      /\ news[e] = 1 => Contains(file.subscribers, e[1])

(* A page shows no comment the store never took, although it loads and     *)
(* posts at the same time and posts may fail.                              *)
ShownWereStored == \A u \in Users : ToSet(page[u].view) \subseteq taken

(* A post ends: the button comes back whether the store takes the comment  *)
(* or fails.                                                               *)
PostingEnds == \A u \in Users : (page[u].busy # 0) ~> (page[u].busy = 0)

(* verifyAuthor "derives a stable display name from their verified linked  *)
(* email or wallet": a user whose linked account does not change has one   *)
(* name on all comments.                                                   *)
StableAuthor ==
  \A i, j \in DOMAIN posts :
    posts[i].user = posts[j].user /\ posts[i].linked = posts[j].linked
      => posts[i].author = posts[j].author
=============================================================================
