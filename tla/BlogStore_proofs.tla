-------------------------- MODULE BlogStore_proofs --------------------------
(***************************************************************************)
(* Theorems about the blog's store, for any users, requests, spellings and *)
(* faults.  What a page shows was stored, whatever overlaps (Base); what   *)
(* was answered for stays (Keeps), with any number of requests, although   *)
(* calls fail and writes of a file clash.                                  *)
(***************************************************************************)
EXTENDS BlogStore, SequenceTheorems, TLAPS

Addresses == {address(e) : e \in Spellings}
Words == Nat \cup Addresses \cup {None}
Names == {None, "wallet", "email", "member"}

Request ==
  [pc : {"idle", "start", "trim", "write", "fill"}, to : {"comments", "subscribers"},
   item : Nat \cup Spellings, list : Seq(Words)]
Section ==
  [pc : {"closed", "get", "got", "open"}, snap : Seq(Words), view : Seq(Words),
   busy : Nat, answer : BOOLEAN]
Comment == [user : Users, author : Names, linked : Names, older : SUBSET Nat]

Typed ==
  /\ file \in [comments : Seq(Words), subscribers : Seq(Words)]
  /\ req \in [Requests -> Request]
  /\ page \in [Users -> Section]
  /\ posts \in Seq(Comment) /\ linked \in [Users -> Names]
  /\ taken \subseteq DOMAIN posts /\ acked \subseteq taken
  /\ \A c \in DOMAIN posts : posts[c].older \subseteq taken
  /\ news \in [Spellings -> Nat]

Writing(r, to) == req[r].pc \in {"write", "fill"} /\ req[r].to = to
Posting(r) == req[r].pc # "idle" /\ req[r].to = "comments"

(* A comment on its way is awaited by the page it was posted from, and by  *)
(* no other request.                                                       *)
Awaited(r) ==
  LET c == req[r].item IN
  /\ c \in DOMAIN posts
  /\ page[posts[c].user].busy = c /\ ~page[posts[c].user].answer
  /\ c \in taken <=> req[r].pc = "trim"

Pending ==
  /\ \A r \in Requests : Posting(r) => Awaited(r)
  /\ \A r, s \in Requests : Posting(r) /\ Posting(s) /\ req[r].item = req[s].item => r = s
  /\ \A r \in Requests :
       /\ req[r].pc # "idle" /\ req[r].to = "subscribers" => req[r].item \in Spellings
       /\ req[r].pc = "trim" => Upstash /\ req[r].to = "comments"
       /\ req[r].pc \in {"write", "fill"} => ~Upstash

(* A torn list reads as empty; Redis never tears one.                      *)
Held(data) == IF Upstash THEN data ELSE Parsed(data)

Stored ==
  /\ ToSet(Held(file.comments)) \subseteq taken
  /\ \A u \in Users :
       /\ ToSet(page[u].view) \subseteq taken /\ ToSet(page[u].snap) \subseteq taken
       /\ page[u].answer => page[u].busy \in taken
  /\ \A r \in Requests : Writing(r, "comments") => ToSet(req[r].list) \subseteq taken \cup {req[r].item}

Base == Typed /\ Pending /\ Stored

(* The parts of Base that are about the file, and an answer to a post.     *)
FileTyped ==
  /\ file \in [comments : Seq(Words), subscribers : Seq(Words)]
  /\ ToSet(Held(file.comments)) \subseteq taken
Accepts(c) == page' = [page EXCEPT ![posts[c].user].answer = TRUE]

-----------------------------------------------------------------------------
(* Lists. *)

(* What is in a list with a comment put in front.                          *)
LEMMA InFront ==
  ASSUME NEW S, NEW c \in S, NEW list \in Seq(S)
  PROVE  /\ <<c>> \o list \in Seq(S)
         /\ Len(<<c>> \o list) = Len(list) + 1
         /\ (<<c>> \o list)[1] = c
         /\ \A i \in DOMAIN list : (<<c>> \o list)[i + 1] = list[i]
         /\ ToSet(<<c>> \o list) = {c} \cup ToSet(list)
<1>1. <<c>> \in Seq(S) /\ Len(<<c>>) = 1 /\ <<c>>[1] = c
  OBVIOUS
<1>2. Len(list) \in Nat /\ DOMAIN list = 1..Len(list)
  BY LenProperties
<1>3. /\ <<c>> \o list \in Seq(S)
      /\ Len(<<c>> \o list) = 1 + Len(list)
      /\ \A i \in 1..(1 + Len(list)) :
           (<<c>> \o list)[i] = IF i <= 1 THEN <<c>>[i] ELSE list[i - 1]
  BY <1>1, ConcatProperties
<1> DEFINE new == <<c>> \o list
<1>4. DOMAIN new = 1..(Len(list) + 1)
  BY <1>2, <1>3, LenProperties
<1>5. new[1] = c /\ \A i \in DOMAIN list : new[i + 1] = list[i]
  BY <1>1, <1>2, <1>3
<1> HIDE DEF new
<1>6. ToSet(new) = {c} \cup ToSet(list)
  <2>1. ASSUME NEW x \in ToSet(new) PROVE x \in {c} \cup ToSet(list)
    <3>1. PICK i \in 1..(Len(list) + 1) : x = new[i]
      BY <2>1, <1>4 DEF ToSet
    <3>2. CASE i = 1
      BY <3>1, <3>2, <1>5
    <3>3. CASE i # 1
      <4>1. i - 1 \in DOMAIN list /\ (i - 1) + 1 = i
        BY <3>3, <1>2
      <4> QED
        BY <4>1, <3>1, <1>5 DEF ToSet
    <3> QED
      BY <3>2, <3>3
  <2>2. c \in ToSet(new)
    BY <1>2, <1>4, <1>5 DEF ToSet
  <2>3. ASSUME NEW x \in ToSet(list) PROVE x \in ToSet(new)
    <3>1. PICK i \in DOMAIN list : x = list[i]
      BY <2>3 DEF ToSet
    <3>2. i + 1 \in DOMAIN new /\ new[i + 1] = x
      BY <3>1, <1>2, <1>4, <1>5
    <3> QED
      BY <3>2 DEF ToSet
  <2> QED
    BY <2>1, <2>2, <2>3
<1> QED
  BY <1>2, <1>3, <1>5, <1>6 DEF new

(* What is in the first n of a list.                                       *)
LEMMA FirstOf ==
  ASSUME NEW S, NEW list \in Seq(S), NEW n \in 0..Len(list)
  PROVE  /\ SubSeq(list, 1, n) \in Seq(S)
         /\ Len(SubSeq(list, 1, n)) = n
         /\ \A i \in 1..n : SubSeq(list, 1, n)[i] = list[i]
         /\ ToSet(SubSeq(list, 1, n)) \subseteq ToSet(list)
<1>1. Len(list) \in Nat /\ DOMAIN list = 1..Len(list)
  BY LenProperties
<1>2. \A i \in 1..n : list[i] \in S
  BY <1>1, ElementOfSeq
<1>3. /\ SubSeq(list, 1, n) \in Seq(S)
      /\ Len(SubSeq(list, 1, n)) = IF 1 <= n THEN n - 1 + 1 ELSE 0
      /\ \A i \in 1..(n - 1 + 1) : SubSeq(list, 1, n)[i] = list[1 + i - 1]
  BY <1>1, <1>2, SubSeqProperties
<1> DEFINE new == SubSeq(list, 1, n)
<1>4. Len(new) = n /\ \A i \in 1..n : new[i] = list[i]
  BY <1>1, <1>3
<1>5. DOMAIN new = 1..n
  BY <1>3, <1>4, LenProperties
<1> HIDE DEF new
<1>6. ToSet(new) \subseteq ToSet(list)
  BY <1>1, <1>4, <1>5 DEF ToSet
<1> QED
  BY <1>3, <1>4, <1>6 DEF new

LEMMA Newest ==
  ASSUME NEW S, NEW list \in Seq(S), MAX_COMMENTS \in Nat
  PROVE  /\ newest_of(list) \in Seq(S)
         /\ Len(newest_of(list)) = IF Len(list) < MAX_COMMENTS THEN Len(list) ELSE MAX_COMMENTS
         /\ \A i \in DOMAIN newest_of(list) : i \in DOMAIN list /\ newest_of(list)[i] = list[i]
         /\ ToSet(newest_of(list)) \subseteq ToSet(list)
<1> DEFINE n == IF Len(list) < MAX_COMMENTS THEN Len(list) ELSE MAX_COMMENTS
<1>1. Len(list) \in Nat /\ DOMAIN list = 1..Len(list)
  BY LenProperties
<1>2. n \in 0..Len(list)
  BY <1>1
<1>3. newest_of(list) = SubSeq(list, 1, n)
  BY DEF newest_of
<1> HIDE DEF n
<1>4. /\ newest_of(list) \in Seq(S)
      /\ Len(newest_of(list)) = n
      /\ \A i \in 1..n : newest_of(list)[i] = list[i]
      /\ ToSet(newest_of(list)) \subseteq ToSet(list)
  BY <1>2, <1>3, FirstOf
<1>5. DOMAIN newest_of(list) = 1..n /\ 1..n \subseteq DOMAIN list
  BY <1>1, <1>2, <1>4, LenProperties
<1> QED
  BY <1>4, <1>5 DEF n

(* Reading a file: it may be torn.                                         *)
LEMMA Reading ==
  ASSUME NEW list \in Seq(Words)
  PROVE  /\ Parsed(list) \in Seq(Words)
         /\ ToSet(Parsed(list)) \subseteq ToSet(list)
         /\ ToSet(Parsed(list)) \subseteq ToSet(Held(list))
<1>1. << >> \in Seq(Words) /\ ToSet(<< >>) = {}
  BY DEF ToSet
<1> QED
  BY <1>1 DEF Parsed, Held

-----------------------------------------------------------------------------
(* What a page shows was stored. *)

LEMMA BaseInit ==
  ASSUME Init
  PROVE  Base
<1>1. << >> \in Seq(Words) /\ ToSet(<< >>) = {} /\ DOMAIN << >> = {} /\ << >> \in Seq(Comment)
  BY DEF ToSet
<1>2. Idle \in Request /\ Closed \in Section
  BY <1>1 DEF Idle, Closed, Request, Section
<1>3. Typed
  BY <1>1, <1>2 DEF Init, Typed, Names
<1>4. Pending
  BY DEF Init, Pending, Posting, Idle
<1>5. Stored
  BY <1>1 DEF Init, Stored, Held, Parsed, Writing, Idle, Closed
<1> QED
  BY <1>3, <1>4, <1>5 DEF Base

LEMMA Posters ==
  ASSUME Typed
  PROVE  \A c \in DOMAIN posts : c \in Nat /\ c # 0 /\ posts[c] \in Comment /\ posts[c].user \in Users
<1>1. DOMAIN posts = 1..Len(posts) /\ Len(posts) \in Nat /\ posts \in [1..Len(posts) -> Comment]
  BY LenProperties DEF Typed
<1>2. \A p \in Comment : p.user \in Users
  BY DEF Comment
<1> QED
  BY <1>1, <1>2

LEMMA OpenKeeps ==
  ASSUME MAX_COMMENTS \in Nat, Base, NEW u \in Users, Open(u) \/ Loaded(u) \/ getComments(u)
  PROVE  Base'
<1> USE DEF Base
<1>1. page[u] \in Section /\ file.comments \in Seq(Words)
  BY DEF Typed
<1>2. PICK p \in Section : page' = [page EXCEPT ![u] = p] /\ p.busy = page[u].busy
        /\ p.answer = page[u].answer /\ ToSet(p.view) \subseteq taken /\ ToSet(p.snap) \subseteq taken
  <2>1. CASE Open(u)
    <3>1. [page[u] EXCEPT !.pc = "get"] \in Section
      BY <1>1 DEF Section
    <3> QED
      BY <1>1, <2>1, <3>1 DEF Open, Typed, Stored, Section
  <2>2. CASE Loaded(u)
    <3>1. << >> \in Seq(Words) /\ ToSet(<< >>) = {}
      BY DEF ToSet
    <3> DEFINE q == [page[u] EXCEPT !.pc = "open", !.view = page[u].snap, !.snap = << >>]
    <3>2. q \in Section /\ q.busy = page[u].busy /\ q.answer = page[u].answer
          /\ q.view = page[u].snap /\ q.snap = << >>
      BY <1>1, <3>1 DEF Section
    <3>3. page' = [page EXCEPT ![u] = q]
      BY <1>1, <2>2 DEF Loaded, Typed
    <3> QED
      BY <3>1, <3>2, <3>3 DEF Stored
  <2>3. CASE getComments(u)
    <3> DEFINE all == Parsed(file.comments)
               n == IF Len(all) < MAX_COMMENTS THEN Len(all) ELSE MAX_COMMENTS
               snap == IF Upstash THEN SubSeq(all, 1, n) ELSE all
               q == [page[u] EXCEPT !.pc = "got", !.snap = snap]
    <3>1. all \in Seq(Words) /\ ToSet(all) \subseteq taken
      BY <1>1, Reading DEF Stored
    <3>2. snap \in Seq(Words) /\ ToSet(snap) \subseteq taken
      <4>1. snap = all \/ snap = newest_of(all)
        BY DEF newest_of
      <4> HIDE DEF all, snap
      <4> QED
        BY <3>1, <4>1, Newest
    <3>3. page' = [page EXCEPT ![u] = q]
      BY <1>1, <2>3 DEF getComments, Typed
    <3> HIDE DEF snap
    <3>4. q \in Section /\ q.busy = page[u].busy /\ q.answer = page[u].answer
          /\ q.view = page[u].view /\ q.snap = snap
      BY <1>1, <3>2 DEF Section
    <3> QED
      BY <3>2, <3>3, <3>4 DEF Stored
  <2> QED
    BY <2>1, <2>2, <2>3
<1>3. UNCHANGED <<file, req, linked, posts, acked, taken, news>>
  BY DEF Open, Loaded, getComments
<1>4. Typed'
  BY <1>2, <1>3 DEF Typed
<1>5. \A v \in Users : page'[v].busy = page[v].busy /\ page'[v].answer = page[v].answer
  BY <1>2 DEF Typed
<1>6. Pending'
  <2>1. \A r \in Requests : Posting(r) => Awaited(r)'
    BY <1>3, <1>5, Posters DEF Pending, Awaited
  <2> QED
    BY <1>3, <2>1 DEF Pending, Posting
<1>7. Stored'
  BY <1>2, <1>3, <1>5 DEF Stored, Writing, Held, Parsed, Typed
<1> QED
  BY <1>4, <1>6, <1>7

(* Two comments on their way are not the same and not of the same page.    *)
LEMMA Apart ==
  ASSUME Base, NEW r \in Requests, NEW s \in Requests, r # s, Posting(r), Posting(s)
  PROVE  req[r].item # req[s].item /\ posts[req[r].item].user # posts[req[s].item].user
  BY DEF Base, Pending, Awaited

LEMMA LinkKeeps ==
  ASSUME Base, NEW u \in Users, Link(u)
  PROVE  Base'
<1>1. UNCHANGED <<file, req, page, posts, acked, taken, news>>
  BY DEF Link
<1>2. linked' \in [Users -> Names]
  BY DEF Link, Base, Typed, Names
<1>3. Typed'
  BY <1>1, <1>2 DEF Base, Typed
<1>4. Pending' /\ Stored'
  BY <1>1 DEF Base, Pending, Posting, Awaited, Stored, Writing, Held, Parsed
<1> QED
  BY <1>3, <1>4 DEF Base

LEMMA PostKeeps ==
  ASSUME Base, NEW u \in Users, NEW r \in Requests, Post(u, r)
  PROVE  Base'
<1> DEFINE c == Len(posts) + 1
<1>1. Typed /\ Pending /\ Stored
  BY DEF Base
<1>2. /\ Len(posts) \in Nat /\ DOMAIN posts = 1..Len(posts) /\ c \in Nat /\ c \notin DOMAIN posts
      /\ taken \subseteq Nat /\ 0 \notin taken /\ c \notin taken /\ acked \subseteq Nat
  BY <1>1, LenProperties DEF Typed
<1>3. PICK p \in Comment : posts' = Append(posts, p) /\ p.user = u /\ p.older = acked
  <2>1. PICK name \in {author(u), "member"} :
          posts' = Append(posts, [user |-> u, author |-> name, linked |-> linked[u], older |-> acked])
    BY DEF Post
  <2>2. name \in Names /\ linked[u] \in Names
    BY <1>1 DEF author, Typed, Names
  <2> DEFINE p == [user |-> u, author |-> name, linked |-> linked[u], older |-> acked]
  <2>3. p \in Comment
    BY <1>2, <2>2 DEF Comment
  <2>4. p.user = u /\ p.older = acked
    OBVIOUS
  <2> QED
    BY <2>1, <2>3, <2>4
<1>4. /\ posts' \in Seq(Comment) /\ DOMAIN posts' = DOMAIN posts \cup {c} /\ posts'[c] = p
      /\ \A d \in DOMAIN posts : posts'[d] = posts[d]
  <2>1. posts' \in Seq(Comment) /\ Len(posts') = Len(posts) + 1
    BY <1>1, <1>3 DEF Typed
  <2>2. DOMAIN posts' = 1..(Len(posts) + 1)
    BY <2>1, LenProperties
  <2>3. posts'[c] = p /\ \A d \in DOMAIN posts : posts'[d] = posts[d]
    BY <1>1, <1>2, <1>3 DEF Typed
  <2> QED
    BY <1>2, <2>1, <2>2, <2>3
<1> DEFINE q == [page[u] EXCEPT !.busy = c]
           new == [Idle EXCEPT !.pc = "start", !.item = c]
<1>5. /\ page' = [page EXCEPT ![u] = q] /\ q \in Section
      /\ q.busy = c /\ q.answer = page[u].answer /\ q.view = page[u].view /\ q.snap = page[u].snap
  <2>1. page[u] \in Section
    BY <1>1 DEF Typed
  <2>2. q \in Section /\ q.busy = c /\ q.answer = page[u].answer /\ q.view = page[u].view
        /\ q.snap = page[u].snap
    BY <1>2, <2>1 DEF Section
  <2>3. page' = [page EXCEPT ![u].busy = c, ![u].view = page[u].view]
    BY DEF Post, shown
  <2>4. page' = [page EXCEPT ![u] = q]
    BY <1>1, <2>1, <2>3 DEF Typed, Section
  <2> QED
    BY <2>2, <2>4
<1>6. /\ req' = [req EXCEPT ![r] = new] /\ new \in Request
      /\ new.pc = "start" /\ new.to = "comments" /\ new.item = c
  <2>1. << >> \in Seq(Words)
    OBVIOUS
  <2> QED
    BY <1>2, <2>1 DEF Post, Idle, Request
<1>7. page[u].busy = 0 /\ req[r].pc = "idle" /\ UNCHANGED <<file, linked, acked, taken, news>>
  BY DEF Post
<1>8. ~page[u].answer
  BY <1>1, <1>2, <1>7 DEF Stored
<1> HIDE DEF q, new, c
<1>9. Typed'
  BY <1>1, <1>2, <1>3, <1>4, <1>5, <1>6, <1>7 DEF Typed
<1>10. \A s \in Requests \ {r} : req'[s] = req[s]
  BY <1>6 DEF Typed
<1>11. req'[r] = new /\ page'[u] = q /\ \A v \in Users \ {u} : page'[v] = page[v]
  BY <1>1, <1>5, <1>6 DEF Typed
<1>12. Awaited(r)'
  BY <1>2, <1>3, <1>4, <1>5, <1>6, <1>7, <1>8, <1>11 DEF Awaited
<1>13. ASSUME NEW s \in Requests \ {r}, Posting(s)
       PROVE  Awaited(s)' /\ req[s].item # c
  <2>1. Awaited(s)
    BY <1>1, <1>13 DEF Pending
  <2> DEFINE d == req[s].item
  <2>2. d \in DOMAIN posts /\ d # 0 /\ d # c /\ posts[d].user \in Users
    BY <1>1, <1>2, <2>1, Posters DEF Awaited
  <2>3. posts[d].user # u
    BY <1>7, <2>1, <2>2 DEF Awaited
  <2>4. req'[s].item = d /\ req'[s].pc = req[s].pc /\ d \in DOMAIN posts'
        /\ posts'[d].user = posts[d].user /\ page'[posts[d].user] = page[posts[d].user]
    BY <1>4, <1>10, <1>11, <2>2, <2>3
  <2> QED
    BY <1>7, <2>1, <2>2, <2>4 DEF Awaited
<1>14. Pending'
  BY <1>1, <1>6, <1>10, <1>11, <1>12, <1>13 DEF Pending, Posting
<1>15. Stored'
  BY <1>1, <1>5, <1>6, <1>7, <1>8, <1>10, <1>11 DEF Stored, Writing, Held, Parsed
<1> QED
  BY <1>9, <1>14, <1>15 DEF Base

LEMMA AnsweredKeeps ==
  ASSUME Base, NEW u \in Users, Answered(u)
  PROVE  Base'
<1> DEFINE b == page[u].busy
           view == <<b>> \o page[u].view
           q == [page[u] EXCEPT !.view = view, !.busy = 0, !.answer = FALSE]
<1>1. Typed /\ Pending /\ Stored /\ page[u].answer
  BY DEF Base, Answered
<1>2. page[u] \in Section /\ b \in taken /\ taken \subseteq Words
  <2>1. DOMAIN posts = 1..Len(posts)
    BY <1>1, LenProperties DEF Typed
  <2> QED
    BY <1>1, <2>1 DEF Typed, Stored, Words
<1>3. view \in Seq(Words) /\ ToSet(view) \subseteq taken
  <2>1. page[u].view \in Seq(Words) /\ ToSet(page[u].view) \subseteq taken /\ b \in Words
    BY <1>1, <1>2 DEF Section, Stored
  <2> QED
    BY <1>2, <2>1, InFront
<1> HIDE DEF b, view
<1>4. q \in Section /\ q.busy = 0 /\ q.answer = FALSE /\ q.view = view /\ q.snap = page[u].snap
  BY <1>2, <1>3 DEF Section
<1>5. page' = [page EXCEPT ![u] = q]
  BY <1>1, <1>2 DEF Answered, Typed, b, view
<1>6. UNCHANGED <<file, req, linked, posts, acked, taken, news>>
  BY DEF Answered
<1> HIDE DEF q
<1>7. Typed'
  BY <1>1, <1>4, <1>5, <1>6 DEF Typed
<1>8. page'[u] = q /\ \A v \in Users \ {u} : page'[v] = page[v]
  BY <1>1, <1>5 DEF Typed
<1>9. ASSUME NEW s \in Requests, Posting(s)
      PROVE  Awaited(s)'
  <2>1. Awaited(s) /\ posts[req[s].item].user \in Users \ {u}
    BY <1>1, <1>9, Posters DEF Pending, Awaited
  <2> QED
    BY <1>6, <1>8, <2>1 DEF Awaited
<1>10. Pending'
  BY <1>1, <1>6, <1>9 DEF Pending, Posting
<1>11. Stored'
  BY <1>1, <1>3, <1>4, <1>6, <1>8 DEF Stored, Writing, Held, Parsed
<1> QED
  BY <1>7, <1>10, <1>11 DEF Base

LEMMA SubscribeKeeps ==
  ASSUME Base, NEW e \in Spellings, NEW r \in Requests, Subscribe(e, r)
  PROVE  Base'
<1> DEFINE new == [Idle EXCEPT !.pc = "start", !.to = "subscribers", !.item = e]
<1>1. Typed /\ Pending /\ Stored
  BY DEF Base
<1>2. new \in Request /\ new.pc = "start" /\ new.to = "subscribers" /\ new.item = e
  <2>1. << >> \in Seq(Words)
    OBVIOUS
  <2> QED
    BY <2>1 DEF Idle, Request
<1>3. req' = [req EXCEPT ![r] = new] /\ UNCHANGED <<file, page, linked, posts, acked, taken, news>>
  BY DEF Subscribe
<1> HIDE DEF new
<1>4. req'[r] = new /\ \A s \in Requests \ {r} : req'[s] = req[s]
  BY <1>1, <1>3 DEF Typed
<1>5. Typed'
  BY <1>1, <1>2, <1>3 DEF Typed
<1>6. Pending'
  BY <1>1, <1>2, <1>3, <1>4 DEF Pending, Posting, Awaited
<1>7. Stored'
  BY <1>1, <1>2, <1>3, <1>4 DEF Stored, Writing, Held, Parsed
<1> QED
  BY <1>5, <1>6, <1>7 DEF Base

-----------------------------------------------------------------------------
(* A request whose comment is stored or refused.                           *)

(* What a comment's answer does to the pages, when the request ends.       *)
LEMMA AnswerKeeps ==
  ASSUME Base, NEW r \in Requests, Posting(r),
         Accepts(req[r].item),
         acked' \subseteq acked \cup {req[r].item}, news' = news,
         Ends(r), UNCHANGED <<posts, linked>>,
         taken' = taken \cup {req[r].item},
         FileTyped'
  PROVE  Base'
<1> DEFINE c == req[r].item
           u == posts[c].user
           q == [page[u] EXCEPT !.answer = TRUE]
<1>1. Typed /\ Pending /\ Stored /\ Awaited(r)
  BY DEF Base, Pending
<1>2. c \in DOMAIN posts /\ u \in Users /\ page[u] \in Section /\ page[u].busy = c
  BY <1>1, Posters DEF Awaited, Typed
<1>3. /\ page' = [page EXCEPT ![u] = q] /\ q \in Section /\ q.busy = c /\ q.answer = TRUE
      /\ q.view = page[u].view /\ q.snap = page[u].snap
  BY <1>1, <1>2 DEF Accepts, Typed, Section
<1>4. acked' \subseteq acked \cup {c} /\ news' = news
  OBVIOUS
<1>5. req' = [req EXCEPT ![r] = Idle] /\ Idle \in Request /\ Idle.pc = "idle"
  <2>1. << >> \in Seq(Words)
    OBVIOUS
  <2> QED
    BY <2>1 DEF Ends, Idle, Request
<1> HIDE DEF c, u, q
<1>6. taken' = taken \cup {c}
  BY DEF c
<1>7. Typed'
  BY <1>1, <1>2, <1>3, <1>4, <1>5, <1>6 DEF FileTyped, Typed
<1>8. req'[r].pc = "idle" /\ \A s \in Requests \ {r} : req'[s] = req[s]
  BY <1>1, <1>5 DEF Typed
<1>9. page'[u] = q /\ \A v \in Users \ {u} : page'[v] = page[v]
  BY <1>1, <1>2, <1>3 DEF Typed
<1>10. ASSUME NEW s \in Requests \ {r}, Posting(s)
       PROVE  Awaited(s)'
  <2>1. Awaited(s) /\ req[s].item # c /\ posts[req[s].item].user \in Users \ {u}
    BY <1>1, <1>2, <1>10, Apart, Posters DEF Pending, Awaited, c, u
  <2> QED
    BY <1>6, <1>8, <1>9, <2>1 DEF Awaited
<1>11. Pending'
  BY <1>1, <1>8, <1>10 DEF Pending, Posting
<1>12. Stored'
  BY <1>1, <1>3, <1>6, <1>8, <1>9 DEF FileTyped, Stored, Writing
<1> QED
  BY <1>7, <1>11, <1>12 DEF Base

LEMMA IdleIsRequest == Idle \in Request /\ Idle.pc = "idle"
<1>1. << >> \in Seq(Words)
  OBVIOUS
<1> QED
  BY <1>1 DEF Idle, Request

(* What a failure does to the pages, when the request ends.                *)
LEMMA FailedKeeps ==
  ASSUME Base, NEW r \in Requests, req[r].pc # "idle", Failed(r), Ends(r),
         UNCHANGED <<linked, posts, taken>>, acked' \subseteq acked,
         news' \in [Spellings -> Nat],
         FileTyped'
  PROVE  Base'
<1>1. Typed /\ Pending /\ Stored /\ req[r] \in Request /\ req[r].pc # "idle"
  BY DEF Base, Typed
<1>2. /\ page' = [v \in Users |->
             IF req[r].to = "comments" /\ posts[req[r].item].user = v
             THEN failed(page[v]) ELSE page[v]]
      /\ req' = [req EXCEPT ![r] = Idle] /\ UNCHANGED <<linked, posts, taken>>
  BY DEF Failed, Ends
<1>3. \A v \in Users : /\ failed(page[v]) \in Section /\ failed(page[v]).busy = 0
        /\ failed(page[v]).answer = page[v].answer
        /\ failed(page[v]).view = page[v].view /\ failed(page[v]).snap = page[v].snap
  BY <1>1 DEF Typed, Section, failed
<1>4. \A v \in Users : /\ page'[v] \in Section /\ page'[v].answer = page[v].answer
        /\ page'[v].view = page[v].view /\ page'[v].snap = page[v].snap
  BY <1>1, <1>2, <1>3 DEF Typed
<1>5. Typed'
  <2>1. page' \in [Users -> Section]
    BY <1>2, <1>4
  <2> QED
    BY <1>1, <1>2, <2>1, IdleIsRequest DEF FileTyped, Typed
<1>6. req'[r].pc = "idle" /\ \A s \in Requests \ {r} : req'[s] = req[s]
  BY <1>1, <1>2, IdleIsRequest DEF Typed
<1>7. ASSUME NEW s \in Requests \ {r}, Posting(s)
      PROVE  Awaited(s)'
  <2>1. Awaited(s) /\ posts[req[s].item].user \in Users
    BY <1>1, <1>7, Posters DEF Pending, Awaited
  <2>2. req[r].to = "comments" => posts[req[r].item].user # posts[req[s].item].user
    BY <1>1, <1>7, Apart DEF Posting
  <2>3. page'[posts[req[s].item].user] = page[posts[req[s].item].user]
    BY <1>2, <2>1, <2>2
  <2> QED
    BY <1>2, <1>6, <2>1, <2>3 DEF Awaited
<1>8. Pending'
  BY <1>1, <1>6, <1>7 DEF Pending, Posting
<1>9. ASSUME NEW v \in Users, page'[v].answer
      PROVE  page'[v].busy \in taken
  <2>1. CASE req[r].to = "comments" /\ posts[req[r].item].user = v
    BY <1>1, <1>4, <1>9, <2>1 DEF Pending, Posting, Awaited
  <2>2. CASE ~(req[r].to = "comments" /\ posts[req[r].item].user = v)
    BY <1>1, <1>2, <1>9, <2>2 DEF Stored
  <2> QED
    BY <2>1, <2>2
<1>10. Stored'
  BY <1>1, <1>2, <1>4, <1>6, <1>9 DEF FileTyped, Stored, Writing
<1> QED
  BY <1>5, <1>8, <1>10 DEF Base

LEMMA RedisPushKeeps ==
  ASSUME Base, NEW r \in Requests, RedisPush(r)
  PROVE  Base'
<1> DEFINE c == req[r].item
           new == [req[r] EXCEPT !.pc = "trim"]
<1>1. Typed /\ Pending /\ Stored /\ Upstash /\ Posting(r) /\ Awaited(r)
  BY DEF Base, Pending, RedisPush, Posting
<1>2. c \in DOMAIN posts /\ c \in Words /\ c \notin taken
  BY <1>1, Posters DEF Awaited, RedisPush, Words
<1>3. file' = [file EXCEPT !.comments = <<c>> \o file.comments] /\ taken' = taken \cup {c}
  BY DEF RedisPush, Pushed
<1>4. /\ file' \in [comments : Seq(Words), subscribers : Seq(Words)]
      /\ ToSet(file'.comments) \subseteq taken'
  <2> DEFINE list == <<c>> \o file.comments
  <2>1. list \in Seq(Words) /\ ToSet(list) = {c} \cup ToSet(file.comments)
    BY <1>1, <1>2, InFront DEF Typed
  <2>2. ToSet(file.comments) \subseteq taken
    BY <1>1 DEF Stored, Held
  <2> HIDE DEF list
  <2>3. file'.comments = list
    BY <1>1, <1>3 DEF Typed, list
  <2> QED
    BY <1>1, <1>3, <2>1, <2>2, <2>3 DEF Typed, list
<1>5. /\ req' = [req EXCEPT ![r] = new] /\ new \in Request /\ new.pc = "trim"
      /\ new.to = "comments" /\ new.item = c
  BY <1>1 DEF RedisPush, Typed, Request
<1>6. UNCHANGED <<page, linked, posts, acked, news>>
  BY DEF RedisPush
<1> HIDE DEF c, new
<1>7. Typed'
  BY <1>1, <1>2, <1>3, <1>4, <1>5, <1>6 DEF Typed
<1>8. req'[r] = new /\ \A s \in Requests \ {r} : req'[s] = req[s]
  BY <1>1, <1>5 DEF Typed
<1>9. ASSUME NEW s \in Requests, Posting(s)
      PROVE  Awaited(s)'
  <2>1. CASE s = r
    BY <1>1, <1>3, <1>5, <1>6, <1>8, <2>1 DEF Awaited, c
  <2>2. CASE s # r
    <3>1. Awaited(s) /\ req[s].item # c
      BY <1>1, <1>9, <2>2, Apart DEF Pending, c
    <3> QED
      BY <1>3, <1>6, <1>8, <2>2, <3>1 DEF Awaited
  <2> QED
    BY <2>1, <2>2
<1>10. Pending'
  <2>1. \A s \in Requests : req'[s].item = req[s].item /\ (Posting(s)' <=> Posting(s))
    BY <1>1, <1>5, <1>8 DEF Posting, c
  <2> QED
    BY <1>1, <1>5, <1>8, <1>9, <2>1 DEF Pending
<1>11. Stored'
  BY <1>1, <1>3, <1>4, <1>5, <1>6, <1>8 DEF Stored, Writing, Held
<1> QED
  BY <1>7, <1>10, <1>11 DEF Base

LEMMA RedisTrimKeeps ==
  ASSUME MAX_COMMENTS \in Nat, Base, NEW r \in Requests, RedisTrim(r)
  PROVE  Base'
<1> DEFINE list == newest_of(file.comments)
<1>1. Typed /\ Stored /\ Upstash /\ Posting(r) /\ Awaited(r)
  BY DEF Base, Pending, RedisTrim, Posting
<1>2. list \in Seq(Words) /\ ToSet(list) \subseteq taken
  <2>1. file.comments \in Seq(Words) /\ ToSet(file.comments) \subseteq taken
    BY <1>1 DEF Typed, Stored, Held
  <2> QED
    BY <2>1, Newest
<1> HIDE DEF list
<1>3. file' = [file EXCEPT !.comments = list] /\ taken' = taken
  BY DEF RedisTrim, list
<1>4. Ends(r) /\ UNCHANGED <<posts, linked>> /\ req[r].pc = "trim"
  BY DEF RedisTrim
<1>5. taken' = taken \cup {req[r].item}
  BY <1>1, <1>3 DEF Awaited, RedisTrim
<1>6. /\ file' \in [comments : Seq(Words), subscribers : Seq(Words)]
      /\ ToSet(Held(file.comments)') \subseteq taken'
  BY <1>1, <1>2, <1>3 DEF Typed, Held
<1>7. CASE Answer(r)
  <2>1. AnswerComment(req[r].item)
    BY <1>1, <1>7 DEF Answer, Posting
  <2> QED
    BY <1>1, <1>4, <1>5, <1>6, <2>1, AnswerKeeps DEF AnswerComment, Accepts, FileTyped
<1>8. CASE Failed(r) /\ UNCHANGED <<acked, news>>
  <2>1. news' \in [Spellings -> Nat]
    BY <1>1, <1>8 DEF Typed
  <2> QED
    BY <1>3, <1>4, <1>6, <1>8, <2>1, FailedKeeps DEF FileTyped
<1> QED
  BY <1>7, <1>8 DEF RedisTrim

(* A request ends, or goes on, without a word on comments.                 *)
LEMMA OtherKeeps ==
  ASSUME Base, NEW r \in Requests, NEW q \in Request, req' = [req EXCEPT ![r] = q],
         req[r].to = "subscribers" \/ q.pc = "idle",
         q.pc # "idle" => q.to = req[r].to /\ q.item = req[r].item /\ req[r].pc # "idle",
         q.pc \in {"write", "fill"} => ~Upstash, q.pc # "trim",
         UNCHANGED <<page, linked, posts, taken>>, acked' \subseteq acked,
         file' \in [comments : Seq(Words), subscribers : Seq(Words)],
         file'.comments = file.comments, news' \in [Spellings -> Nat]
  PROVE  Base'
<1>1. Typed /\ Pending /\ Stored
  BY DEF Base
<1>2. Typed'
  BY <1>1 DEF Typed
<1>3. req'[r] = q /\ \A s \in Requests \ {r} : req'[s] = req[s]
  BY <1>1 DEF Typed
<1>4. ~Posting(r)'
  BY <1>3 DEF Posting
<1>5. Pending'
  BY <1>1, <1>3, <1>4 DEF Pending, Posting, Awaited
<1>6. Stored'
  BY <1>1, <1>3 DEF Stored, Writing, Held, Parsed
<1> QED
  BY <1>2, <1>5, <1>6 DEF Base

LEMMA NewsTyped ==
  ASSUME Typed, NEW e, AnswerNew(e)
  PROVE  news' \in [Spellings -> Nat]
<1>1. \A s \in Spellings : news[s] \in Nat
  BY DEF Typed
<1>2. \A s \in Spellings : (news[s] + IF address(s) = address(e) THEN 1 ELSE 0) \in Nat
  BY <1>1
<1> QED
  BY <1>2 DEF AnswerNew

LEMMA AddressWord ==
  ASSUME Base, NEW r \in Requests, req[r].pc # "idle", req[r].to = "subscribers"
  PROVE  req[r].item \in Spellings /\ address(req[r].item) \in Words
  BY DEF Base, Pending, Words, Addresses

LEMMA RedisAddKeeps ==
  ASSUME Base, NEW r \in Requests, RedisAdd(r)
  PROVE  Base'
<1> DEFINE a == address(req[r].item)
<1>1. req[r].pc = "start" /\ req[r].to = "subscribers" /\ Typed
  BY DEF RedisAdd, Base
<1>2. a \in Words
  BY <1>1, AddressWord
<1>3. /\ req' = [req EXCEPT ![r] = Idle] /\ UNCHANGED <<linked, posts, taken>>
      /\ Ends(r) /\ Upstash /\ Stored
  BY DEF RedisAdd, Ends, Base
<1>4. /\ UNCHANGED <<page, acked>> \/ (Failed(r) /\ UNCHANGED acked)
      /\ news' \in [Spellings -> Nat]
      /\ file' \in [comments : Seq(Words), subscribers : Seq(Words)]
      /\ file'.comments = file.comments
  <2>1. CASE Contains(file.subscribers, a)
    BY <1>1, <2>1 DEF RedisAdd, Typed
  <2>2. CASE ~Contains(file.subscribers, a)
    <3>1. /\ file' = [file EXCEPT !.subscribers = Append(@, a)]
          /\ AnswerNew(req[r].item) \/ (Failed(r) /\ UNCHANGED <<acked, news>>)
      BY <1>1, <2>2 DEF RedisAdd, Answer
    <3>2. file.subscribers \in Seq(Words)
      BY <1>1 DEF Typed
    <3>3. Append(file.subscribers, a) \in Seq(Words)
      BY <1>2, <3>2
    <3>4. file'.comments = file.comments /\ file' \in [comments : Seq(Words), subscribers : Seq(Words)]
      BY <1>1, <3>1, <3>3 DEF Typed
    <3>5. CASE AnswerNew(req[r].item)
      BY <1>1, <3>4, <3>5, NewsTyped DEF AnswerNew
    <3>6. CASE Failed(r) /\ UNCHANGED <<acked, news>>
      BY <1>1, <3>4, <3>6 DEF Typed
    <3> QED
      BY <3>1, <3>5, <3>6
  <2> QED
    BY <2>1, <2>2
<1>5. ToSet(Held(file.comments)') \subseteq taken
  BY <1>3, <1>4 DEF Stored, Held
<1>6. CASE UNCHANGED <<page, acked>>
  BY <1>1, <1>3, <1>4, <1>6, IdleIsRequest, OtherKeeps
<1>7. CASE Failed(r) /\ UNCHANGED acked
  BY <1>1, <1>3, <1>4, <1>5, <1>7, FailedKeeps DEF FileTyped
<1> QED
  BY <1>4, <1>6, <1>7

-----------------------------------------------------------------------------
(* The file backend. *)

LEMMA WritingKeeps ==
  ASSUME Base, ~Upstash, NEW r \in Requests, Posting(r), req[r].pc # "trim",
         NEW q \in Request, req' = [req EXCEPT ![r] = q],
         q.pc \in {"write", "fill"}, q.to = "comments", q.item = req[r].item,
         ToSet(q.list) \subseteq taken \cup {q.item},
         UNCHANGED <<page, linked, posts, taken>>, acked' \subseteq acked,
         news' \in [Spellings -> Nat],
         file' \in [comments : Seq(Words), subscribers : Seq(Words)],
         ToSet(Held(file.comments)') \subseteq taken
  PROVE  Base'
<1>1. Typed /\ Pending /\ Stored
  BY DEF Base
<1>2. Typed'
  BY <1>1 DEF Typed
<1>3. req'[r] = q /\ \A s \in Requests \ {r} : req'[s] = req[s]
  BY <1>1 DEF Typed
<1>4. \A s \in Requests : (Posting(s)' <=> Posting(s)) /\ req'[s].item = req[s].item
                          /\ (req'[s].pc = "trim" <=> req[s].pc = "trim")
  BY <1>3 DEF Posting
<1>5. \A s \in Requests : Posting(s)' => Awaited(s)'
  BY <1>1, <1>4 DEF Pending, Awaited
<1>6. Pending'
  BY <1>1, <1>3, <1>4, <1>5 DEF Pending, Posting
<1>7. Stored'
  BY <1>1, <1>3 DEF Stored, Writing
<1> QED
  BY <1>2, <1>6, <1>7 DEF Base

(* The list a request read and changed.                                    *)
LEMMA NewList ==
  ASSUME MAX_COMMENTS \in Nat, Base, ~Upstash, NEW r \in Requests, req[r].pc = "start"
  PROVE  /\ new_list(r) \in Seq(Words)
         /\ req[r].to = "comments" => ToSet(new_list(r)) \subseteq taken \cup {req[r].item}
<1>1. Typed /\ Stored
  BY DEF Base
<1>2. CASE req[r].to = "comments"
  <2> DEFINE c == req[r].item
             list == <<c>> \o Parsed(file.comments)
  <2>1. c \in Words
    BY <1>1, <1>2, Posters DEF Base, Pending, Posting, Awaited, Words
  <2>2. Parsed(file.comments) \in Seq(Words) /\ ToSet(Parsed(file.comments)) \subseteq taken
    BY <1>1, Reading DEF Typed, Stored, Held
  <2>3. list \in Seq(Words) /\ ToSet(list) \subseteq taken \cup {c}
    BY <2>1, <2>2, InFront
  <2>4. new_list(r) = newest_of(list)
    BY <1>2 DEF new_list
  <2> HIDE DEF list, c
  <2>5. new_list(r) \in Seq(Words) /\ ToSet(new_list(r)) \subseteq taken \cup {c}
    BY <2>3, <2>4, Newest
  <2> QED
    BY <2>5 DEF c
<1>3. CASE req[r].to = "subscribers"
  <2>1. Parsed(file.subscribers) \in Seq(Words) /\ address(req[r].item) \in Words
    BY <1>1, <1>3, Reading, AddressWord DEF Typed
  <2>2. Append(Parsed(file.subscribers), address(req[r].item)) \in Seq(Words)
    BY <2>1
  <2> QED
    BY <1>3, <2>2 DEF new_list
<1> QED
  BY <1>1, <1>2, <1>3 DEF Typed, Request

LEMMA VoidTyped ==
  ASSUME Typed, NEW to, Void(to)
  PROVE  acked' \subseteq acked /\ news' \in [Spellings -> Nat]
<1>1. [s \in Spellings |-> 0] \in [Spellings -> Nat]
  OBVIOUS
<1> QED
  BY <1>1 DEF Void, Typed

LEMMA FileReadKeeps ==
  ASSUME MAX_COMMENTS \in Nat, Base, NEW r \in Requests, FileRead(r)
  PROVE  Base'
<1> DEFINE q == [req[r] EXCEPT !.pc = "write", !.list = new_list(r)]
<1>1. ~Upstash /\ req[r].pc = "start" /\ Typed /\ Stored /\ req[r] \in Request
  BY DEF FileRead, Base, Typed
<1>2. /\ UNCHANGED <<file, page, linked, posts, taken>>
      /\ UNCHANGED <<acked, news>> \/ Void(req[r].to)
  BY DEF FileRead
<1>3. q \in Request /\ q.pc = "write" /\ q.to = req[r].to /\ q.item = req[r].item
      /\ q.list = new_list(r)
  BY <1>1, NewList DEF Request
<1>4. file' \in [comments : Seq(Words), subscribers : Seq(Words)] /\ news' \in [Spellings -> Nat]
      /\ ToSet(Held(file.comments)') \subseteq taken /\ acked' \subseteq acked
  BY <1>1, <1>2, VoidTyped DEF Typed, Stored, Held, Parsed
<1>5. (req' = [req EXCEPT ![r] = Idle] /\ req[r].to = "subscribers") \/ req' = [req EXCEPT ![r] = q]
  BY <1>1 DEF FileRead, Ends, Typed
<1> HIDE DEF q
<1>6. CASE req' = [req EXCEPT ![r] = Idle] /\ req[r].to = "subscribers"
  BY <1>2, <1>4, <1>6, IdleIsRequest, OtherKeeps
<1>7. CASE req' = [req EXCEPT ![r] = q] /\ req[r].to = "subscribers"
  BY <1>1, <1>2, <1>3, <1>4, <1>7, OtherKeeps
<1>8. CASE req' = [req EXCEPT ![r] = q] /\ req[r].to = "comments"
  <2>1. ToSet(q.list) \subseteq taken \cup {q.item}
    BY <1>1, <1>3, <1>8, NewList
  <2> QED
    BY <1>1, <1>2, <1>3, <1>4, <1>8, <2>1, WritingKeeps DEF Posting
<1> QED
  BY <1>1, <1>5, <1>6, <1>7, <1>8 DEF Request

LEMMA FileTruncatedKeeps ==
  ASSUME Base, NEW r \in Requests, FileTruncated(r)
  PROVE  Base'
<1> DEFINE q == [req[r] EXCEPT !.pc = "fill"]
<1>1. Typed /\ Pending /\ Stored /\ req[r] \in Request /\ req[r].pc = "write" /\ ~Upstash
  BY DEF FileTruncated, Base, Typed, Pending
<1>2. file' = [file EXCEPT ![req[r].to] = Torn] /\ UNCHANGED <<page, linked, posts, acked, taken, news>>
  BY DEF FileTruncated
<1>3. /\ req' = [req EXCEPT ![r] = q] /\ q \in Request /\ q.pc = "fill" /\ q.to = req[r].to
      /\ q.item = req[r].item /\ q.list = req[r].list
  BY <1>1 DEF FileTruncated, Typed, Request
<1>4. Torn \in Seq(Words) /\ ToSet(Parsed(Torn)) = {}
  BY DEF Torn, Words, Parsed, ToSet
<1>5. /\ file' \in [comments : Seq(Words), subscribers : Seq(Words)]
      /\ file'.comments = IF req[r].to = "comments" THEN Torn ELSE file.comments
  BY <1>1, <1>2, <1>4 DEF Typed, Request
<1>6. ToSet(Held(file.comments)') \subseteq taken
  BY <1>1, <1>4, <1>5 DEF Held, Stored, Parsed
<1>7. news' \in [Spellings -> Nat]
  BY <1>1, <1>2 DEF Typed
<1> HIDE DEF q
<1>8. CASE req[r].to = "comments"
  <2>1. ToSet(q.list) \subseteq taken \cup {q.item}
    BY <1>1, <1>3, <1>8 DEF Stored, Writing
  <2> QED
    BY <1>1, <1>2, <1>3, <1>5, <1>6, <1>7, <1>8, <2>1, WritingKeeps DEF Posting
<1>9. CASE req[r].to = "subscribers"
  BY <1>1, <1>2, <1>3, <1>5, <1>7, <1>9, OtherKeeps
<1> QED
  BY <1>1, <1>8, <1>9 DEF Request

LEMMA FileWrittenKeeps ==
  ASSUME Base, NEW r \in Requests, FileWritten(r)
  PROVE  Base'
<1>1. Typed /\ Pending /\ Stored /\ req[r] \in Request /\ req[r].pc = "fill" /\ ~Upstash
  BY DEF FileWritten, Base, Typed, Pending
<1>2. PICK data \in {req[r].list, Torn} : file' = [file EXCEPT ![req[r].to] = data]
  BY DEF FileWritten
<1>20. Torn \in Seq(Words) /\ ToSet(Parsed(Torn)) = {}
  BY DEF Torn, Words, Parsed, ToSet
<1>21. /\ taken' = IF req[r].to = "comments" THEN taken \cup {req[r].item} ELSE taken
      /\ Ends(r) /\ UNCHANGED <<linked, posts>>
  BY DEF FileWritten
<1>3. /\ file' \in [comments : Seq(Words), subscribers : Seq(Words)]
      /\ file'.comments = IF req[r].to = "comments" THEN data ELSE file.comments
  BY <1>1, <1>2, <1>20 DEF Typed, Request
<1>4. CASE req[r].to = "comments"
  <2>1. /\ Accepts(req[r].item)
        /\ acked' \subseteq acked \cup {req[r].item} /\ news' = news /\ Posting(r)
    BY <1>1, <1>4 DEF FileWritten, Answer, AnswerComment, Unsure, Posting, Accepts
  <2>2. ToSet(req[r].list) \subseteq taken \cup {req[r].item} /\ req[r].list \in Seq(Words)
    BY <1>1, <1>4 DEF Stored, Writing, Request
  <2>3. ToSet(Held(file.comments)') \subseteq taken'
    BY <1>1, <1>2, <1>20, <1>21, <1>3, <1>4, <2>2, Reading DEF Held, Parsed
  <2> QED
    BY <1>21, <1>3, <1>4, <2>1, <2>3, AnswerKeeps DEF FileTyped
<1>5. CASE req[r].to = "subscribers"
  <2>1. AnswerNew(req[r].item) \/ UNCHANGED <<page, acked, news>>
    BY <1>5 DEF FileWritten, Answer, Unsure
  <2>2. news' \in [Spellings -> Nat] /\ UNCHANGED <<page, acked>>
    BY <1>1, <2>1, NewsTyped DEF AnswerNew, Typed
  <2> QED
    BY <1>21, <1>3, <1>5, <2>2, IdleIsRequest, OtherKeeps DEF Ends
<1> QED
  BY <1>1, <1>4, <1>5 DEF Request

LEMMA StoreFailsKeeps ==
  ASSUME Base, NEW r \in Requests, StoreFails(r)
  PROVE  Base'
<1>1. req[r].pc # "idle" /\ Failed(r) /\ Ends(r) /\ UNCHANGED <<file, linked, posts, acked, taken, news>>
  BY DEF StoreFails
<1>2. /\ news' \in [Spellings -> Nat] /\ file' \in [comments : Seq(Words), subscribers : Seq(Words)]
      /\ ToSet(Held(file.comments)') \subseteq taken
  BY <1>1 DEF Base, Typed, Stored, Held, Parsed
<1> QED
  BY <1>1, <1>2, FailedKeeps DEF FileTyped

LEMMA WriteFailsKeeps ==
  ASSUME Base, NEW r \in Requests, WriteFails(r)
  PROVE  Base'
<1>1. /\ Typed /\ Pending /\ Stored /\ req[r] \in Request /\ req[r].pc = "fill" /\ ~Upstash
      /\ Failed(r) /\ Ends(r) /\ UNCHANGED <<linked, posts, taken>> /\ Void(req[r].to)
  BY DEF WriteFails, Base, Typed, Pending
<1>2. PICK data \in {file[req[r].to], Torn} : file' = [file EXCEPT ![req[r].to] = data]
  BY DEF WriteFails
<1>3. Torn \in Seq(Words) /\ ToSet(Parsed(Torn)) = {}
  BY DEF Torn, Words, Parsed, ToSet
<1>4. /\ file' \in [comments : Seq(Words), subscribers : Seq(Words)]
      /\ file'.comments \in {file.comments, Torn}
  BY <1>1, <1>2, <1>3 DEF Typed, Request
<1>5. ToSet(Held(file.comments)') \subseteq taken
  BY <1>1, <1>3, <1>4 DEF Held, Stored, Parsed
<1>6. acked' \subseteq acked /\ news' \in [Spellings -> Nat]
  BY <1>1, VoidTyped
<1> QED
  BY <1>1, <1>4, <1>5, <1>6, FailedKeeps DEF FileTyped

-----------------------------------------------------------------------------
LEMMA BaseStep ==
  ASSUME MAX_COMMENTS \in Nat, Base, [Next]_vars
  PROVE  Base'
<1>1. CASE UNCHANGED vars
  BY <1>1 DEF vars, Base, Typed, Pending, Posting, Awaited, Stored, Writing, Held, Parsed
<1>2. CASE \E u \in Users : Open(u) \/ getComments(u) \/ Loaded(u)
  BY <1>2, OpenKeeps
<1>3. CASE \E u \in Users : Link(u) \/ Answered(u) \/ \E r \in Requests : Post(u, r)
  BY <1>3, LinkKeeps, AnsweredKeeps, PostKeeps
<1>4. CASE \E e \in Spellings, r \in Requests : Subscribe(e, r)
  BY <1>4, SubscribeKeeps
<1>5. CASE \E r \in Requests : Serve(r)
  BY <1>5, RedisPushKeeps, RedisTrimKeeps, RedisAddKeeps, FileReadKeeps, FileTruncatedKeeps,
     FileWrittenKeeps DEF Serve
<1>6. CASE \E r \in Requests : StoreFails(r) \/ WriteFails(r)
  BY <1>6, StoreFailsKeeps, WriteFailsKeeps
<1> QED
  BY <1>1, <1>2, <1>3, <1>4, <1>5, <1>6 DEF Next

(* A page never shows a comment the store did not take, on either backend, *)
(* however many pages load and post at once and whatever fails.            *)
THEOREM PagesAreTrue ==
  ASSUME MAX_COMMENTS \in Nat
  PROVE  Spec => []ShownWereStored
<1>1. Init => Base
  BY BaseInit
<1>2. Base /\ [Next]_vars => Base'
  BY BaseStep
<1>3. Base => ShownWereStored
  BY DEF Base, Stored, ShownWereStored
<1> QED
  BY <1>1, <1>2, <1>3, PTL DEF Spec

-----------------------------------------------------------------------------
(* What was answered for stays. *)

(* None is neither a comment nor an address, so a torn file can be told.   *)
Careful == MAX_COMMENTS \in Nat \ {0} /\ None \notin Nat \cup Addresses

(* Each comment of S is in the list, behind none of those that were        *)
(* answered for before it was posted, or had to make room to as many.      *)
Kept(list, S, P) ==
  \A c \in S :
    \/ \E j \in DOMAIN list :
         list[j] = c /\ \A i \in DOMAIN list : i < j => list[i] \notin P[c].older
    \/ Len(list) >= MAX_COMMENTS /\ \A i \in DOMAIN list : list[i] \notin P[c].older

(* What must be kept: on Redis whatever was pushed.                        *)
Sure == IF Upstash THEN taken ELSE acked

CommentsIn ==
  /\ Held(file.comments) \in Seq(Nat)
  /\ Whole("comments") => Kept(Held(file.comments), Sure, posts)
  /\ \A r \in Requests : Writing(r, "comments") =>
       /\ req[r].list \in Seq(Nat)
       /\ r \notin clash => Kept(req[r].list, Sure \cup {req[r].item}, posts)

Listed(list, e) == Contains(list, address(e))

SubscribersIn ==
  /\ \A e \in Spellings : news[e] <= 1
  /\ Held(file.subscribers) \in Seq(Addresses)
  /\ Whole("subscribers") => \A e \in Spellings : news[e] = 1 => Listed(Held(file.subscribers), e)
  /\ \A r \in Requests : Writing(r, "subscribers") =>
       /\ req[r].list \in Seq(Addresses)
       /\ r \notin clash =>
            \A e \in Spellings :
              /\ news[e] = 1 \/ address(e) = address(req[r].item) => Listed(req[r].list, e)
              /\ address(e) = address(req[r].item) => news[e] = 0

(* Of two requests that have read a file both clash, and then nothing is   *)
(* promised of it.                                                         *)
Clashes ==
  /\ clash \subseteq Requests
  /\ \A r, s \in Requests, to \in {"comments", "subscribers"} :
       Writing(r, to) /\ Writing(s, to) /\ r # s => r \in clash
  /\ \A r \in Requests : r \in clash =>
       /\ req[r].pc \in {"write", "fill"}
       /\ req[r].to = "comments" => acked = {}
       /\ req[r].to = "subscribers" => \A e \in Spellings : news[e] = 0

Keeps == Base /\ CommentsIn /\ SubscribersIn /\ Clashes

(* A comment that is new to the store goes in front.                       *)
LEMMA PushKept ==
  ASSUME MAX_COMMENTS \in Nat, NEW list \in Seq(Nat), NEW c \in Nat, NEW S, NEW P, Kept(list, S, P),
         \A d \in S : c \notin P[d].older
  PROVE  Kept(<<c>> \o list, S \cup {c}, P)
<1> DEFINE new == <<c>> \o list
<1>1. /\ new \in Seq(Nat) /\ Len(new) = Len(list) + 1 /\ new[1] = c
      /\ \A i \in DOMAIN list : new[i + 1] = list[i]
  BY InFront
<1>2. Len(list) \in Nat /\ DOMAIN list = 1..Len(list) /\ DOMAIN new = 1..(Len(list) + 1)
  BY <1>1, LenProperties
<1> HIDE DEF new
<1>3. ASSUME NEW i \in DOMAIN new PROVE i = 1 \/ (i - 1 \in DOMAIN list /\ new[i] = list[i - 1])
  <2>1. i # 1 => i - 1 \in DOMAIN list /\ (i - 1) + 1 = i
    BY <1>2
  <2> QED
    BY <1>1, <2>1
<1>4. ASSUME NEW d \in S, NEW j \in DOMAIN list, list[j] = d,
             \A i \in DOMAIN list : i < j => list[i] \notin P[d].older
      PROVE  /\ j + 1 \in DOMAIN new /\ new[j + 1] = d
             /\ \A i \in DOMAIN new : i < j + 1 => new[i] \notin P[d].older
  <2>1. j + 1 \in DOMAIN new /\ new[j + 1] = d
    BY <1>1, <1>2, <1>4
  <2>2. ASSUME NEW i \in DOMAIN new, i < j + 1 PROVE new[i] \notin P[d].older
    <3>1. CASE i = 1
      BY <1>1, <3>1
    <3>2. CASE i # 1
      <4>1. i - 1 \in DOMAIN list /\ new[i] = list[i - 1] /\ i - 1 < j
        BY <1>2, <1>3, <2>2, <3>2
      <4> QED
        BY <1>4, <4>1
    <3> QED
      BY <3>1, <3>2
  <2> QED
    BY <2>1, <2>2
<1>5. ASSUME NEW d \in S, \A i \in DOMAIN list : list[i] \notin P[d].older
      PROVE  \A i \in DOMAIN new : new[i] \notin P[d].older
  BY <1>1, <1>3, <1>5
<1>6. Len(list) >= MAX_COMMENTS => Len(new) >= MAX_COMMENTS
  BY <1>1, <1>2
<1>7. 1 \in DOMAIN new /\ \A i \in DOMAIN new : ~(i < 1)
  BY <1>2
<1> DEFINE In(d) == \E j \in DOMAIN new :
                      new[j] = d /\ \A i \in DOMAIN new : i < j => new[i] \notin P[d].older
           Out(d) == Len(new) >= MAX_COMMENTS /\ \A i \in DOMAIN new : new[i] \notin P[d].older
<1>8. ASSUME NEW d \in S PROVE In(d) \/ Out(d)
  <2>1. CASE \E j \in DOMAIN list :
               list[j] = d /\ \A i \in DOMAIN list : i < j => list[i] \notin P[d].older
    BY <1>4, <2>1
  <2>2. CASE Len(list) >= MAX_COMMENTS /\ \A i \in DOMAIN list : list[i] \notin P[d].older
    BY <1>5, <1>6, <2>2
  <2> QED
    BY <2>1, <2>2 DEF Kept
<1>9. In(c)
  BY <1>1, <1>7
<1>10. \A d \in S \cup {c} : In(d) \/ Out(d)
  BY <1>8, <1>9
<1> QED
  BY <1>10 DEF Kept, new

(* Trimming drops from the end.                                            *)
LEMMA TrimKept ==
  ASSUME MAX_COMMENTS \in Nat, NEW list \in Seq(Nat), NEW S, NEW P, Kept(list, S, P)
  PROVE  /\ Kept(newest_of(list), S, P)
         /\ newest_of(list) \in Seq(Nat) /\ Len(newest_of(list)) <= MAX_COMMENTS
<1> DEFINE new == newest_of(list)
<1>1. /\ new \in Seq(Nat)
      /\ Len(new) = IF Len(list) < MAX_COMMENTS THEN Len(list) ELSE MAX_COMMENTS
      /\ \A i \in DOMAIN new : i \in DOMAIN list /\ new[i] = list[i]
  BY Newest
<1>2. Len(list) \in Nat /\ DOMAIN list = 1..Len(list) /\ DOMAIN new = 1..Len(new) /\ Len(new) \in Nat
  BY <1>1, LenProperties
<1> HIDE DEF new
<1> DEFINE In(d) == \E j \in DOMAIN new :
                      new[j] = d /\ \A i \in DOMAIN new : i < j => new[i] \notin P[d].older
           Out(d) == Len(new) >= MAX_COMMENTS /\ \A i \in DOMAIN new : new[i] \notin P[d].older
<1>3. ASSUME NEW d \in S PROVE In(d) \/ Out(d)
  <2>1. CASE Len(list) >= MAX_COMMENTS /\ \A i \in DOMAIN list : list[i] \notin P[d].older
    BY <1>1, <1>2, <2>1
  <2>2. ASSUME NEW j \in DOMAIN list, list[j] = d,
               \A i \in DOMAIN list : i < j => list[i] \notin P[d].older
        PROVE  In(d) \/ Out(d)
    <3>1. CASE j \in DOMAIN new
      BY <1>1, <2>2, <3>1
    <3>2. CASE j \notin DOMAIN new
      <4>1. Len(new) >= MAX_COMMENTS /\ \A i \in DOMAIN new : i \in DOMAIN list /\ i < j
        BY <1>1, <1>2, <3>2
      <4> QED
        BY <1>1, <2>2, <4>1
    <3> QED
      BY <3>1, <3>2
  <2> QED
    BY <2>1, <2>2 DEF Kept
<1>4. Kept(new, S, P)
  BY <1>3 DEF Kept
<1>5. Len(new) <= MAX_COMMENTS
  BY <1>1, <1>2
<1> QED
  BY <1>1, <1>4, <1>5 DEF new

LEMMA SameKept ==
  ASSUME NEW list, NEW S, NEW P, NEW Q, Kept(list, S, P), \A c \in S : P[c] = Q[c]
  PROVE  Kept(list, S, Q)
  BY DEF Kept

LEMMA Member ==
  ASSUME NEW S, NEW list \in Seq(S), NEW x
  PROVE  Contains(list, x) <=> \E j \in DOMAIN list : list[j] = x
  BY LenProperties DEF Contains

LEMMA AppendMember ==
  ASSUME NEW S, NEW list \in Seq(S), NEW a \in S
  PROVE  /\ Append(list, a) \in Seq(S) /\ Contains(Append(list, a), a)
         /\ \A x : Contains(list, x) => Contains(Append(list, a), x)
<1>1. /\ Len(list) \in Nat /\ Append(list, a) \in Seq(S) /\ Len(Append(list, a)) = Len(list) + 1
      /\ \A i \in 1..Len(list) : Append(list, a)[i] = list[i]
      /\ Append(list, a)[Len(list) + 1] = a
  BY LenProperties
<1> QED
  BY <1>1 DEF Contains

LEMMA KeepsInit ==
  ASSUME MAX_COMMENTS \in Nat, Init
  PROVE  Keeps
<1>1. /\ file.comments = << >> /\ file.subscribers = << >> /\ taken = {} /\ acked = {}
      /\ clash = {} /\ (\A r \in Requests : req[r].pc = "idle") /\ \A e \in Spellings : news[e] = 0
  BY DEF Init, Idle
<1>2. << >> \in Seq(Nat) /\ << >> \in Seq(Addresses) /\ Parsed(<< >>) = << >>
  BY DEF Parsed
<1>3. CommentsIn
  BY <1>1, <1>2 DEF CommentsIn, Kept, Writing, Held, Sure
<1>4. SubscribersIn
  <2>1. (\A e \in Spellings : news[e] <= 1 /\ news[e] # 1) /\ \A r \in Requests : ~Writing(r, "subscribers")
    BY <1>1 DEF Writing
  <2> QED
    BY <1>1, <1>2, <2>1 DEF SubscribersIn, Held
<1>5. Clashes
  BY <1>1 DEF Clashes, Writing
<1> QED
  BY <1>3, <1>4, <1>5, BaseInit DEF Keeps

(* A step after which every list is what it was.                           *)
LEMMA KeepsFrame ==
  ASSUME Keeps, Base', UNCHANGED <<file, taken, acked, news>>,
         \A c \in DOMAIN posts : posts'[c] = posts[c],
         clash' = {r \in clash : req'[r].pc \in {"write", "fill"}},
         \A r \in Requests :
           /\ req'[r].pc \in {"write", "fill"} => req'[r] = req[r]
           /\ req[r].pc = "fill" => req'[r] = req[r]
  PROVE  Keeps'
<1>1. \A to : Whole(to)' => Whole(to)
  BY DEF Whole
<1>2. taken \subseteq DOMAIN posts /\ Sure \subseteq taken /\ Sure' = Sure
  BY DEF Keeps, Base, Typed, Sure
<1>3. \A r \in Requests : Writing(r, "comments") => req[r].item \in DOMAIN posts
  BY DEF Keeps, Base, Pending, Posting, Awaited, Writing
<1>4. \A r \in Requests, to \in {"comments", "subscribers"} :
        Writing(r, to)' => Writing(r, to) /\ req'[r] = req[r] /\ (r \in clash' <=> r \in clash)
  BY DEF Writing
<1>5. Held(file.comments)' = Held(file.comments) /\ Held(file.subscribers)' = Held(file.subscribers)
  BY DEF Held, Parsed
<1>6. CommentsIn'
  <2>1. Kept(Held(file.comments), Sure, posts) => Kept(Held(file.comments), Sure, posts')
    BY <1>2, SameKept
  <2>2. ASSUME NEW r \in Requests, Writing(r, "comments")'
        PROVE  /\ req'[r].list \in Seq(Nat)
               /\ r \notin clash' => Kept(req'[r].list, Sure' \cup {req'[r].item}, posts')
    <3>1. Writing(r, "comments") /\ req'[r] = req[r] /\ (r \in clash' <=> r \in clash)
      BY <1>4, <2>2
    <3>2. /\ req[r].list \in Seq(Nat)
          /\ r \notin clash => Kept(req[r].list, Sure \cup {req[r].item}, posts)
      BY <3>1 DEF Keeps, CommentsIn
    <3>3. Sure \cup {req[r].item} \subseteq DOMAIN posts
      BY <1>2, <1>3, <3>1
    <3>4. r \notin clash => Kept(req[r].list, Sure \cup {req[r].item}, posts')
      BY <3>2, <3>3, SameKept
    <3> QED
      BY <1>2, <3>1, <3>2, <3>4
  <2> QED
    BY <1>1, <1>2, <1>5, <2>1, <2>2 DEF Keeps, CommentsIn
<1>7. SubscribersIn'
  BY <1>1, <1>4, <1>5 DEF Keeps, SubscribersIn
<1>8. Clashes'
  BY <1>4 DEF Keeps, Clashes
<1> QED
  BY <1>6, <1>7, <1>8 DEF Keeps

(* A request that ends does not clash.                                     *)
LEMMA EndsClash ==
  ASSUME Keeps, NEW r \in Requests, Ends(r)
  PROVE  /\ req' = [req EXCEPT ![r] = Idle] /\ req'[r].pc = "idle"
         /\ \A s \in Requests \ {r} : req'[s] = req[s]
         /\ clash' = clash \ {r}
  BY IdleIsRequest DEF Ends, Keeps, Base, Typed

(* A comment on its way is newer than whatever was answered for.           *)
LEMMA Newer ==
  ASSUME Base, NEW r \in Requests, Posting(r), req[r].pc # "trim"
  PROVE  /\ req[r].item \in DOMAIN posts /\ req[r].item \in Nat /\ req[r].item \notin taken
         /\ \A d \in taken : d \in DOMAIN posts /\ req[r].item \notin posts[d].older
  BY Posters DEF Base, Typed, Pending, Awaited

LEMMA PushStays ==
  ASSUME Careful, Keeps, Base', NEW r \in Requests, RedisPush(r)
  PROVE  Keeps'
<1> DEFINE c == req[r].item
           list == <<c>> \o file.comments
<1>1. Base /\ Upstash /\ Posting(r) /\ req[r].pc = "start" /\ MAX_COMMENTS \in Nat
  BY DEF Keeps, RedisPush, Posting, Careful
<1>2. \A s \in Requests : req[s].pc \notin {"write", "fill"} /\ s \notin clash
  BY <1>1 DEF Base, Pending, Keeps, Clashes
<1>3. file' = [file EXCEPT !.comments = list] /\ taken' = taken \cup {c}
      /\ UNCHANGED <<posts, news, clash>> /\ req' = [req EXCEPT ![r].pc = "trim"]
  BY DEF RedisPush, Pushed
<1>4. file.comments \in Seq(Nat) /\ Kept(file.comments, taken, posts)
  BY <1>1, <1>2 DEF Keeps, CommentsIn, Whole, Held, Sure
<1>5. list \in Seq(Nat) /\ Kept(list, taken \cup {c}, posts)
  BY <1>1, <1>4, Newer, InFront, PushKept
<1> HIDE DEF list, c
<1>6. file'.comments = list /\ file'.subscribers = file.subscribers
  BY <1>1, <1>3 DEF Base, Typed
<1>7. \A s \in Requests : req'[s].pc \notin {"write", "fill"} /\ s \notin clash'
  BY <1>1, <1>2, <1>3 DEF Base, Typed, Request
<1>8. CommentsIn'
  BY <1>1, <1>3, <1>5, <1>6, <1>7 DEF CommentsIn, Writing, Held, Sure
<1>9. SubscribersIn'
  BY <1>1, <1>2, <1>3, <1>6, <1>7 DEF Keeps, SubscribersIn, Writing, Whole, Held
<1>10. Clashes'
  <2>1. clash' \subseteq Requests
    BY <1>3 DEF Keeps, Clashes
  <2> QED
    BY <1>7, <2>1 DEF Clashes, Writing
<1> QED
  BY <1>8, <1>9, <1>10 DEF Keeps

LEMMA TrimStays ==
  ASSUME Careful, Keeps, Base', NEW r \in Requests, RedisTrim(r)
  PROVE  Keeps'
<1> DEFINE list == newest_of(file.comments)
<1>1. Base /\ Upstash /\ Posting(r) /\ MAX_COMMENTS \in Nat
  BY DEF Keeps, RedisTrim, Base, Pending, Posting, Careful
<1>2. \A s \in Requests : req[s].pc \notin {"write", "fill"} /\ s \notin clash
  BY <1>1 DEF Base, Pending, Keeps, Clashes
<1>3. file' = [file EXCEPT !.comments = list] /\ UNCHANGED <<posts, news, taken>> /\ Ends(r)
  BY <1>1 DEF RedisTrim, Answer, AnswerComment, Posting
<1>4. file.comments \in Seq(Nat) /\ Kept(file.comments, taken, posts)
  BY <1>1, <1>2 DEF Keeps, CommentsIn, Whole, Held, Sure
<1>5. list \in Seq(Nat) /\ Kept(list, taken, posts)
  BY <1>1, <1>4, TrimKept
<1> HIDE DEF list
<1>6. file'.comments = list /\ file'.subscribers = file.subscribers
  BY <1>1, <1>3 DEF Base, Typed
<1>7. \A s \in Requests : req'[s].pc \notin {"write", "fill"} /\ s \notin clash'
  BY <1>1, <1>2, <1>3, EndsClash
<1>8. CommentsIn'
  BY <1>1, <1>3, <1>5, <1>6, <1>7 DEF CommentsIn, Writing, Held, Sure
<1>9. SubscribersIn'
  BY <1>1, <1>2, <1>3, <1>6, <1>7 DEF Keeps, SubscribersIn, Writing, Whole, Held
<1>10. Clashes'
  <2>1. clash' \subseteq Requests
    BY <1>3, EndsClash DEF Keeps, Clashes
  <2> QED
    BY <1>7, <2>1 DEF Clashes, Writing
<1> QED
  BY <1>8, <1>9, <1>10 DEF Keeps

(* What the answer says of every spelling of an address.                   *)
LEMMA NewsOf ==
  ASSUME Base, NEW e \in Spellings, AnswerNew(e),
         \A s \in Spellings : news[s] <= 1,
         \A s \in Spellings : address(s) = address(e) => news[s] = 0
  PROVE  \A s \in Spellings :
           news'[s] <= 1 /\ (news'[s] = 1 => news[s] = 1 \/ address(s) = address(e))
<1>1. \A s \in Spellings : news[s] \in Nat
  BY DEF Base, Typed
<1>2. \A s \in Spellings : news'[s] = news[s] + IF address(s) = address(e) THEN 1 ELSE 0
  BY DEF AnswerNew
<1> QED
  BY <1>1, <1>2

LEMMA AddStays ==
  ASSUME Careful, Keeps, Base', NEW r \in Requests, RedisAdd(r)
  PROVE  Keeps'
<1> DEFINE e == req[r].item
           list == Append(file.subscribers, address(e))
<1>1. /\ Base /\ Upstash /\ req[r].pc = "start" /\ req[r].to = "subscribers"
      /\ UNCHANGED <<posts, taken>> /\ Ends(r)
  BY DEF Keeps, RedisAdd
<1>2. e \in Spellings /\ address(e) \in Addresses
  BY <1>1 DEF Base, Pending, Addresses
<1>3. \A s \in Requests : /\ req[s].pc \notin {"write", "fill"} /\ s \notin clash
                          /\ req'[s].pc \notin {"write", "fill"} /\ s \notin clash'
  BY <1>1, EndsClash DEF Base, Pending, Keeps, Clashes
<1>4. /\ file.subscribers \in Seq(Addresses) /\ \A s \in Spellings : news[s] <= 1
      /\ \A s \in Spellings : news[s] = 1 => Contains(file.subscribers, address(s))
  BY <1>1, <1>3 DEF Keeps, SubscribersIn, Whole, Held, Listed
<1>5. Clashes'
  <2>1. clash' \subseteq Requests
    BY <1>1, EndsClash DEF Keeps, Clashes
  <2> QED
    BY <1>3, <2>1 DEF Clashes, Writing
<1>6. CommentsIn' \/ ~(file'.comments = file.comments)
  BY <1>1, <1>3 DEF Keeps, CommentsIn, Writing, Whole, Held, Sure
<1>7. ASSUME NEW new, file'.subscribers = new, file'.comments = file.comments,
             new \in Seq(Addresses), \A s \in Spellings : news'[s] <= 1,
             \A s \in Spellings : news'[s] = 1 => Contains(new, address(s))
      PROVE  Keeps'
  <2>1. SubscribersIn'
    BY <1>1, <1>3, <1>7 DEF SubscribersIn, Writing, Held, Listed
  <2> QED
    BY <1>5, <1>6, <1>7, <2>1 DEF Keeps
<1>8. CASE Contains(file.subscribers, address(e))
  <2>1. UNCHANGED <<file, news>>
    BY <1>1, <1>8 DEF RedisAdd
  <2> QED
    BY <1>4, <1>7, <2>1
<1>9. CASE ~Contains(file.subscribers, address(e))
  <2>1. file' = [file EXCEPT !.subscribers = list] /\ (AnswerNew(e) \/ UNCHANGED news)
    BY <1>1, <1>9 DEF RedisAdd, Answer
  <2>2. file'.subscribers = list /\ file'.comments = file.comments
    BY <1>1, <2>1 DEF Base, Typed
  <2>3. /\ list \in Seq(Addresses) /\ Contains(list, address(e))
        /\ \A x : Contains(file.subscribers, x) => Contains(list, x)
    BY <1>2, <1>4, AppendMember
  <2>4. \A s \in Spellings : address(s) = address(e) => news[s] = 0
    <3>1. \A s \in Spellings : news[s] \in Nat
      BY <1>1 DEF Base, Typed
    <3> QED
      BY <1>4, <1>9, <3>1
  <2>5. \A s \in Spellings :
          news'[s] <= 1 /\ (news'[s] = 1 => news[s] = 1 \/ address(s) = address(e))
    <3>1. CASE AnswerNew(e)
      BY <1>1, <1>2, <1>4, <2>4, <3>1, NewsOf
    <3>2. CASE UNCHANGED news
      BY <1>4, <3>2
    <3> QED
      BY <2>1, <3>1, <3>2
  <2> HIDE DEF e, list
  <2>6. \A s \in Spellings : news'[s] = 1 => Contains(list, address(s))
    BY <1>4, <2>3, <2>5
  <2> QED
    BY <1>7, <2>2, <2>3, <2>5, <2>6
<1> QED
  BY <1>8, <1>9

LEMMA NotTorn ==
  ASSUME NEW S, NEW list \in Seq(S), None \notin S
  PROVE  Parsed(list) = list
<1>1. list # Torn
  <2>1. SUFFICES ASSUME list = Torn PROVE FALSE
    OBVIOUS
  <2>2. Len(list) = 1 /\ list[1] = None
    BY <2>1 DEF Torn
  <2>3. list[1] \in S
    BY <2>2, ElementOfSeq
  <2> QED
    BY <2>2, <2>3
<1> QED
  BY <1>1 DEF Parsed

(* Who has read a file when another reads it.                              *)
LEMMA ReadClash ==
  ASSUME Keeps, NEW r \in Requests, req[r].pc = "start", NEW q, q.pc = "write", q.to = req[r].to,
         req' = [req EXCEPT ![r] = q],
         IF Others(r) = {} THEN UNCHANGED <<clash, acked, news>>
         ELSE clash' = clash \cup Others(r) \cup {r} /\ Void(req[r].to)
  PROVE  /\ Clashes'
         /\ r \notin clash' <=> Others(r) = {}
         /\ \A s \in Requests \ {r} : req'[s] = req[s]
         /\ \A s \in Requests \ {r} : s \notin clash' => s \notin clash
         /\ \A s \in Requests \ {r} : s \notin clash' /\ Writing(s, "comments")
                                      => acked' = acked
         /\ \A s \in Requests \ {r} : s \notin clash' /\ Writing(s, "subscribers")
                                      => news' = news
<1>1. /\ r \notin clash /\ req'[r] = q /\ req[r].to \in {"comments", "subscribers"}
      /\ \A s \in Requests \ {r} : req'[s] = req[s]
  BY DEF Keeps, Base, Typed, Request, Clashes
<1>2. \A s : s \in Others(r) <=> s \in Requests \ {r} /\ Writing(s, req[r].to)
  BY DEF Others, Writing
<1>3. \A s \in Requests \ {r}, to \in {"comments", "subscribers"} : Writing(s, to)' <=> Writing(s, to)
  BY <1>1 DEF Writing
<1>4. \A to \in {"comments", "subscribers"} : Writing(r, to)' <=> to = req[r].to
  BY <1>1 DEF Writing
<1>5. CASE Others(r) = {}
  <2>1. UNCHANGED <<clash, acked, news>>
    BY <1>5
  <2>2. Clashes'
    BY <1>1, <1>2, <1>3, <1>4, <1>5, <2>1 DEF Keeps, Clashes
  <2> QED
    BY <1>1, <1>5, <2>1, <2>2
<1>6. CASE Others(r) # {}
  <2>1. clash' = clash \cup Others(r) \cup {r} /\ Void(req[r].to)
    BY <1>6
  <2>2. /\ req[r].to = "comments" => acked' = {} /\ news' = news
        /\ req[r].to = "subscribers" => (\A e \in Spellings : news'[e] = 0) /\ acked' = acked
    BY <2>1 DEF Void
  <2>3. ASSUME NEW s \in Requests, NEW t \in Requests, NEW to \in {"comments", "subscribers"},
               Writing(s, to)', Writing(t, to)', s # t
        PROVE  s \in clash'
    BY <1>1, <1>2, <1>3, <1>4, <2>1, <2>3 DEF Keeps, Clashes
  <2>4. ASSUME NEW s \in Requests, s \in clash'
        PROVE  /\ req'[s].pc \in {"write", "fill"}
               /\ req'[s].to = "comments" => acked' = {}
               /\ req'[s].to = "subscribers" => \A e \in Spellings : news'[e] = 0
    BY <1>1, <1>2, <2>1, <2>2, <2>4 DEF Keeps, Clashes, Writing
  <2>5. Clashes'
    <3>1. clash' \subseteq Requests
      BY <2>1 DEF Keeps, Clashes, Others
    <3> QED
      BY <2>3, <2>4, <3>1 DEF Clashes
  <2>6. \A s \in Requests \ {r} : s \notin clash' => ~Writing(s, req[r].to)
    BY <1>2, <2>1
  <2> QED
    BY <1>1, <1>6, <2>1, <2>2, <2>5, <2>6
<1> QED
  BY <1>5, <1>6

LEMMA ReadStays ==
  ASSUME Careful, Keeps, Base', NEW r \in Requests, FileRead(r)
  PROVE  Keeps'
<1> DEFINE item == req[r].item
           list == new_list(r)
           q == [req[r] EXCEPT !.pc = "write", !.list = list]
<1>1. /\ Base /\ ~Upstash /\ req[r].pc = "start" /\ MAX_COMMENTS \in Nat /\ req[r] \in Request
  BY DEF Keeps, FileRead, Careful, Base, Typed
<1>2. UNCHANGED <<file, posts, taken>>
  BY DEF FileRead
<1>3. CASE Ends(r) /\ UNCHANGED <<acked, news>>
  <2>1. r \notin clash /\ clash \subseteq Requests /\ \A s \in clash : req[s].pc \in {"write", "fill"}
    BY <1>1 DEF Keeps, Clashes
  <2>2. clash' = {s \in clash : req'[s].pc \in {"write", "fill"}}
    BY <1>3, <2>1, EndsClash
  <2> QED
    BY <1>1, <1>2, <1>3, <2>2, EndsClash, KeepsFrame
<1>4. CASE ~(Ends(r) /\ UNCHANGED <<acked, news>>)
  <2>1. /\ req' = [req EXCEPT ![r].pc = "write", ![r].list = list]
        /\ ~(req[r].to = "subscribers" /\ Contains(Parsed(file.subscribers), address(item)))
        /\ IF Others(r) = {} THEN UNCHANGED <<clash, acked, news>>
           ELSE clash' = clash \cup Others(r) \cup {r} /\ Void(req[r].to)
    BY <1>4 DEF FileRead
  <2>2. /\ req' = [req EXCEPT ![r] = q] /\ q.pc = "write" /\ q.to = req[r].to /\ q.item = item
        /\ q.list = list
    BY <1>1, <2>1 DEF Base, Typed, Request
  <2> HIDE DEF q, list, item
  <2>3. /\ Clashes'
        /\ r \notin clash' <=> Others(r) = {}
        /\ \A s \in Requests \ {r} : req'[s] = req[s]
        /\ \A s \in Requests \ {r} : s \notin clash' => s \notin clash
        /\ \A s \in Requests \ {r} : s \notin clash' /\ Writing(s, "comments")
                                      => acked' = acked
        /\ \A s \in Requests \ {r} : s \notin clash' /\ Writing(s, "subscribers")
                                      => news' = news
    BY <1>1, <2>1, <2>2, ReadClash
  <2>4. req'[r] = q /\ \A to : Whole(to)' <=> Whole(to)
    BY <1>1, <2>2, <2>3 DEF Whole, Base, Typed
  <2>5. Others(r) = {} => Whole(req[r].to) /\ acked' = acked /\ news' = news
    BY <1>1, <2>1 DEF Whole, Others
  <2>6. acked' \in {{}, acked} /\ (news' = news \/ \A e \in Spellings : news'[e] = 0)
    BY <2>1 DEF Void
  <2>7. Held(file.comments)' = Held(file.comments) /\ Held(file.subscribers)' = Held(file.subscribers)
        /\ Parsed(file.comments) = Held(file.comments) /\ Parsed(file.subscribers) = Held(file.subscribers)
    BY <1>1, <1>2 DEF Held, Parsed
  <2>8. ASSUME req[r].to = "comments"
        PROVE  /\ list \in Seq(Nat)
               /\ Whole("comments") => Kept(list, Sure \cup {item}, posts)
    <3> DEFINE old == Held(file.comments)
               all == <<item>> \o old
    <3>1. old \in Seq(Nat) /\ (Whole("comments") => Kept(old, Sure, posts))
      BY DEF Keeps, CommentsIn
    <3>2. list = newest_of(all)
      BY <2>7, <2>8 DEF new_list, list, item
    <3>3. item \in Nat /\ Sure \subseteq taken /\ \A d \in Sure : item \notin posts[d].older
      BY <1>1, <2>8, Newer DEF Posting, Sure, Base, Typed, item
    <3> HIDE DEF old
    <3>4. all \in Seq(Nat) /\ (Whole("comments") => Kept(all, Sure \cup {item}, posts))
      BY <1>1, <3>1, <3>3, InFront, PushKept
    <3> HIDE DEF all
    <3>5. newest_of(all) \in Seq(Nat) /\ (Whole("comments") => Kept(newest_of(all), Sure \cup {item}, posts))
      BY <1>1, <3>4, Newest, TrimKept
    <3> QED
      BY <3>2, <3>5
  <2>9. ASSUME req[r].to = "subscribers"
        PROVE  /\ list \in Seq(Addresses)
               /\ Whole("subscribers") =>
                    \A e \in Spellings :
                      /\ news[e] = 1 \/ address(e) = address(item) => Listed(list, e)
                      /\ address(e) = address(item) => news[e] = 0
    <3> DEFINE old == Held(file.subscribers)
    <3>1. /\ old \in Seq(Addresses) /\ \A e \in Spellings : news[e] <= 1 /\ news[e] \in Nat
          /\ Whole("subscribers") => \A e \in Spellings : news[e] = 1 => Contains(old, address(e))
      BY <1>1 DEF Keeps, SubscribersIn, Base, Typed, Listed
    <3>2. list = Append(old, address(item)) /\ ~Contains(old, address(item))
      BY <2>1, <2>7, <2>9 DEF new_list, list, item
    <3>3. address(item) \in Addresses
      BY <1>1, <2>9 DEF Base, Pending, Addresses, item
    <3> HIDE DEF old
    <3>4. /\ list \in Seq(Addresses) /\ Contains(list, address(item))
          /\ \A x : Contains(old, x) => Contains(list, x)
      BY <3>1, <3>2, <3>3, AppendMember
    <3> QED
      BY <3>1, <3>2, <3>4 DEF Listed
  <2>10. CommentsIn'
    <3>1. Sure' \in {{}, Sure} /\ (acked' = acked => Sure' = Sure)
      BY <1>1, <2>6 DEF Sure
    <3>2. Whole("comments")' => Kept(Held(file.comments)', Sure', posts')
      BY <1>2, <2>4, <2>7, <3>1 DEF Keeps, CommentsIn, Kept
    <3>3. ASSUME NEW s \in Requests, Writing(s, "comments")'
          PROVE  /\ req'[s].list \in Seq(Nat)
                 /\ s \notin clash' => Kept(req'[s].list, Sure' \cup {req'[s].item}, posts')
      <4>1. CASE s = r
        BY <1>2, <2>2, <2>3, <2>4, <2>5, <2>8, <3>1, <3>3, <4>1 DEF Writing
      <4>2. CASE s # r
        <5>1. req'[s] = req[s] /\ Writing(s, "comments")
          BY <2>3, <3>3, <4>2 DEF Writing
        <5> QED
          BY <1>2, <2>3, <3>1, <4>2, <5>1 DEF Keeps, CommentsIn
      <4> QED
        BY <4>1, <4>2
    <3> QED
      BY <2>7, <3>2, <3>3 DEF Keeps, CommentsIn
  <2>11. SubscribersIn'
    <3>1. \A e \in Spellings : news'[e] <= 1 /\ (news'[e] = 1 => news[e] = 1)
      BY <2>6 DEF Keeps, SubscribersIn
    <3>2. Whole("subscribers")' => \A e \in Spellings : news'[e] = 1 => Listed(Held(file.subscribers)', e)
      BY <2>4, <2>7, <3>1 DEF Keeps, SubscribersIn
    <3>3. ASSUME NEW s \in Requests, Writing(s, "subscribers")'
          PROVE  /\ req'[s].list \in Seq(Addresses)
                 /\ s \notin clash' =>
                      \A e \in Spellings :
                        /\ news'[e] = 1 \/ address(e) = address(req'[s].item) => Listed(req'[s].list, e)
                        /\ address(e) = address(req'[s].item) => news'[e] = 0
      <4>1. CASE s = r
        BY <2>2, <2>3, <2>4, <2>5, <2>9, <3>3, <4>1 DEF Writing
      <4>2. CASE s # r
        <5>1. req'[s] = req[s] /\ Writing(s, "subscribers")
          BY <2>3, <3>3, <4>2 DEF Writing
        <5> QED
          BY <2>3, <4>2, <5>1 DEF Keeps, SubscribersIn
      <4> QED
        BY <4>1, <4>2
    <3>4. Held(file.subscribers)' \in Seq(Addresses)
      BY <2>7 DEF Keeps, SubscribersIn
    <3> QED
      BY <3>1, <3>2, <3>3, <3>4 DEF SubscribersIn
  <2> QED
    BY <2>3, <2>10, <2>11 DEF Keeps
<1> QED
  BY <1>3, <1>4

LEMMA TruncateStays ==
  ASSUME Careful, Keeps, Base', NEW r \in Requests, FileTruncated(r)
  PROVE  Keeps'
<1>1. /\ Base /\ req[r].pc = "write" /\ req[r] \in Request /\ ~Upstash
      /\ UNCHANGED <<posts, taken, acked, news, clash>>
      /\ file' = [file EXCEPT ![req[r].to] = Torn] /\ req' = [req EXCEPT ![r].pc = "fill"]
  BY DEF Keeps, FileTruncated, Base, Typed, Pending
<1>2. /\ req'[r].pc = "fill" /\ req'[r].to = req[r].to /\ req'[r].item = req[r].item
      /\ req'[r].list = req[r].list /\ \A s \in Requests \ {r} : req'[s] = req[s]
  BY <1>1 DEF Base, Typed, Request
<1>3. \A s \in Requests :
        /\ req'[s].to = req[s].to /\ req'[s].item = req[s].item /\ req'[s].list = req[s].list
        /\ req[s].pc \in {"write", "fill"} <=> req'[s].pc \in {"write", "fill"}
  BY <1>1, <1>2
<1>4. \A s \in Requests, to \in {"comments", "subscribers"} : Writing(s, to)' <=> Writing(s, to)
  BY <1>3 DEF Writing
<1>5. /\ req[r].to = "comments" => file'.subscribers = file.subscribers /\ file'.comments = Torn
      /\ req[r].to = "subscribers" => file'.comments = file.comments /\ file'.subscribers = Torn
      /\ req[r].to \in {"comments", "subscribers"}
  BY <1>1 DEF Base, Typed, Request
<1>6. ~Whole(req[r].to)' /\ \A to : Whole(to)' => Whole(to)
  BY <1>1, <1>2 DEF Whole
<1>7. Parsed(Torn) = << >> /\ << >> \in Seq(Nat) /\ << >> \in Seq(Addresses)
  BY DEF Parsed
<1>8. CommentsIn'
  <2>1. Held(file.comments)' \in Seq(Nat) /\ (Whole("comments")' => Held(file.comments)' = Held(file.comments))
    BY <1>1, <1>5, <1>6, <1>7 DEF Keeps, CommentsIn, Held, Parsed
  <2> QED
    BY <1>1, <1>3, <1>4, <1>6, <2>1 DEF Keeps, CommentsIn, Sure
<1>9. SubscribersIn'
  <2>1. Held(file.subscribers)' \in Seq(Addresses) /\ (Whole("subscribers")' => Held(file.subscribers)' = Held(file.subscribers))
    BY <1>1, <1>5, <1>6, <1>7 DEF Keeps, SubscribersIn, Held, Parsed
  <2> QED
    BY <1>1, <1>3, <1>4, <1>6, <2>1 DEF Keeps, SubscribersIn
<1>10. Clashes'
  BY <1>1, <1>3, <1>4 DEF Keeps, Clashes
<1> QED
  BY <1>8, <1>9, <1>10 DEF Keeps

(* A request that was writing a file ends: no other wrote it, or all that  *)
(* did clash and nothing is promised of it.                                *)
LEMMA LandStays ==
  ASSUME Keeps, Base', NEW r \in Requests, ~Upstash, req[r].pc = "fill", Ends(r), UNCHANGED posts,
         \/ /\ req[r].to = "comments" /\ UNCHANGED news /\ file'.subscribers = file.subscribers
            /\ Held(file.comments)' \in Seq(Nat) /\ Kept(Held(file.comments)', acked', posts)
            /\ r \in clash => acked' = {}
         \/ /\ req[r].to = "subscribers" /\ UNCHANGED acked /\ file'.comments = file.comments
            /\ Held(file.subscribers)' \in Seq(Addresses)
            /\ \A e \in Spellings :
                 news'[e] <= 1 /\ (news'[e] = 1 => Listed(Held(file.subscribers)', e))
            /\ r \in clash => \A e \in Spellings : news'[e] = 0
  PROVE  Keeps'
<1>1. /\ req'[r].pc = "idle" /\ clash' = clash \ {r}
      /\ \A s \in Requests \ {r} : req'[s] = req[s]
  BY EndsClash
<1>2. ASSUME NEW s \in Requests, NEW to \in {"comments", "subscribers"}, Writing(s, to)'
      PROVE  /\ s # r /\ Writing(s, to) /\ req'[s] = req[s] /\ (s \in clash' <=> s \in clash)
             /\ to = req[r].to => s \in clash /\ r \in clash
  BY <1>1, <1>2 DEF Keeps, Clashes, Writing
<1>3. \A to \in {"comments", "subscribers"} : to # req[r].to => (Whole(to)' <=> Whole(to))
  BY <1>1 DEF Whole
<1>4. Sure = acked /\ Sure' = acked'
  BY DEF Sure
<1>5. ASSUME NEW s \in Requests, s \in clash'
      PROVE  s # r /\ s \in clash /\ req'[s] = req[s] /\ req[s].pc \in {"write", "fill"}
             /\ (req[s].to = req[r].to => r \in clash)
             /\ (req[s].to = "comments" => acked = {})
             /\ (req[s].to = "subscribers" => \A e \in Spellings : news[e] = 0)
  <2>1. s # r /\ s \in clash /\ req'[s] = req[s] /\ req[s].pc \in {"write", "fill"}
             /\ (req[s].to = "comments" => acked = {})
             /\ (req[s].to = "subscribers" => \A e \in Spellings : news[e] = 0)
    BY <1>1, <1>5 DEF Keeps, Clashes
  <2>2. req[r].to \in {"comments", "subscribers"}
    OBVIOUS
  <2>3. req[s].to = req[r].to => r \in clash
    BY <2>1, <2>2 DEF Keeps, Clashes, Writing
  <2> QED
    BY <2>1, <2>3
<1>8. clash' \subseteq Requests
  BY <1>1 DEF Keeps, Clashes
<1>6. CASE req[r].to = "comments"
  <2>1. /\ UNCHANGED news /\ file'.subscribers = file.subscribers
        /\ Held(file.comments)' \in Seq(Nat) /\ Kept(Held(file.comments)', acked', posts)
        /\ r \in clash => acked' = {}
    BY <1>6
  <2>2. CommentsIn'
    BY <1>2, <1>4, <1>6, <2>1 DEF Keeps, CommentsIn
  <2>3. SubscribersIn'
    BY <1>2, <1>3, <1>6, <2>1 DEF Keeps, SubscribersIn, Held, Parsed
  <2>4. Clashes'
    <3>1. ASSUME NEW s \in Requests, NEW t \in Requests, NEW to \in {"comments", "subscribers"},
                 Writing(s, to)', Writing(t, to)', s # t
          PROVE  s \in clash'
      <4>1. Writing(s, to) /\ Writing(t, to) /\ (s \in clash' <=> s \in clash)
        BY <1>2, <3>1
      <4> QED
        BY <3>1, <4>1 DEF Keeps, Clashes
    <3>2. ASSUME NEW s \in Requests, s \in clash'
          PROVE  /\ req'[s].pc \in {"write", "fill"}
                 /\ req'[s].to = "comments" => acked' = {}
                 /\ req'[s].to = "subscribers" => \A e \in Spellings : news'[e] = 0
      BY <1>5, <1>6, <2>1, <3>2
    <3> QED
      BY <1>8, <3>1, <3>2 DEF Clashes
  <2> QED
    BY <2>2, <2>3, <2>4 DEF Keeps
<1>7. CASE req[r].to = "subscribers"
  <2>1. /\ UNCHANGED acked /\ file'.comments = file.comments
        /\ Held(file.subscribers)' \in Seq(Addresses)
        /\ \A e \in Spellings :
             news'[e] <= 1 /\ (news'[e] = 1 => Listed(Held(file.subscribers)', e))
        /\ r \in clash => \A e \in Spellings : news'[e] = 0
    BY <1>7
  <2>2. CommentsIn'
    BY <1>2, <1>3, <1>4, <1>7, <2>1 DEF Keeps, CommentsIn, Held, Parsed
  <2>3. SubscribersIn'
    BY <1>2, <1>7, <2>1 DEF Keeps, SubscribersIn
  <2>4. Clashes'
    <3>1. ASSUME NEW s \in Requests, NEW t \in Requests, NEW to \in {"comments", "subscribers"},
                 Writing(s, to)', Writing(t, to)', s # t
          PROVE  s \in clash'
      <4>1. Writing(s, to) /\ Writing(t, to) /\ (s \in clash' <=> s \in clash)
        BY <1>2, <3>1
      <4> QED
        BY <3>1, <4>1 DEF Keeps, Clashes
    <3>2. ASSUME NEW s \in Requests, s \in clash'
          PROVE  /\ req'[s].pc \in {"write", "fill"}
                 /\ req'[s].to = "comments" => acked' = {}
                 /\ req'[s].to = "subscribers" => \A e \in Spellings : news'[e] = 0
      BY <1>5, <1>7, <2>1, <3>2
    <3> QED
      BY <1>8, <3>1, <3>2 DEF Clashes
  <2> QED
    BY <2>2, <2>3, <2>4 DEF Keeps
<1> QED
  BY <1>6, <1>7

LEMMA WriteStays ==
  ASSUME Careful, Keeps, Base', NEW r \in Requests, FileWritten(r)
  PROVE  Keeps'
<1>1. /\ Base /\ req[r].pc = "fill" /\ req[r] \in Request /\ ~Upstash
      /\ req[r].to \in {"comments", "subscribers"} /\ UNCHANGED posts /\ Ends(r)
  BY DEF Keeps, FileWritten, Base, Typed, Pending, Request
<1>2. PICK data \in {req[r].list} \cup IF r \in clash THEN {Torn} ELSE {} :
        file' = [file EXCEPT ![req[r].to] = data]
  BY DEF FileWritten
<1>3. Parsed(Torn) = << >> /\ << >> \in Seq(Nat) /\ << >> \in Seq(Addresses)
  BY DEF Parsed
<1>4. CASE req[r].to = "comments"
  <2>1. /\ file'.comments = data /\ file'.subscribers = file.subscribers
        /\ news' = news /\ acked' = IF r \in clash THEN acked ELSE acked \cup {req[r].item}
    BY <1>1, <1>2, <1>4 DEF Base, Typed, FileWritten, Answer, AnswerComment, Unsure
  <2>2. /\ req[r].list \in Seq(Nat)
        /\ r \notin clash => Kept(req[r].list, acked \cup {req[r].item}, posts)
        /\ r \in clash => acked = {}
    BY <1>1, <1>4 DEF Keeps, CommentsIn, Writing, Sure, Clashes
  <2>3. Parsed(req[r].list) = req[r].list
    BY <2>2, NotTorn DEF Careful
  <2>4. Held(file.comments)' \in Seq(Nat) /\ (r \notin clash => Held(file.comments)' = req[r].list)
    BY <1>1, <1>2, <1>3, <2>1, <2>2, <2>3 DEF Held, Parsed
  <2>5. Kept(Held(file.comments)', acked', posts)
    <3>1. CASE r \in clash
      BY <2>1, <2>2, <3>1 DEF Kept
    <3>2. CASE r \notin clash
      BY <2>1, <2>2, <2>4, <3>2
    <3> QED
      BY <3>1, <3>2
  <2> QED
    BY <1>1, <1>4, <2>1, <2>2, <2>4, <2>5, LandStays
<1>5. CASE req[r].to = "subscribers"
  <2> DEFINE e == req[r].item
  <2>1. /\ file'.subscribers = data /\ file'.comments = file.comments
        /\ acked' = acked /\ IF r \in clash THEN news' = news ELSE AnswerNew(e)
    BY <1>1, <1>2, <1>5 DEF Base, Typed, FileWritten, Answer, AnswerNew, Unsure
  <2>2. e \in Spellings
    BY <1>1, <1>5 DEF Base, Pending
  <2>3. /\ req[r].list \in Seq(Addresses)
        /\ r \notin clash =>
             \A s \in Spellings :
               /\ news[s] = 1 \/ address(s) = address(e) => Listed(req[r].list, s)
               /\ address(s) = address(e) => news[s] = 0
        /\ r \in clash => \A s \in Spellings : news[s] = 0
        /\ \A s \in Spellings : news[s] <= 1
    BY <1>1, <1>5 DEF Keeps, SubscribersIn, Writing, Clashes
  <2>4. Parsed(req[r].list) = req[r].list
    BY <2>3, NotTorn DEF Careful
  <2>5. /\ Held(file.subscribers)' \in Seq(Addresses)
        /\ r \notin clash => Held(file.subscribers)' = req[r].list
    BY <1>1, <1>2, <1>3, <2>1, <2>3, <2>4 DEF Held, Parsed
  <2>6. \A s \in Spellings : news'[s] <= 1 /\ (news'[s] = 1 => Listed(Held(file.subscribers)', s))
    <3>1. CASE r \in clash
      BY <2>1, <2>3, <3>1
    <3>2. CASE r \notin clash
      <4>1. \A s \in Spellings :
              news'[s] <= 1 /\ (news'[s] = 1 => news[s] = 1 \/ address(s) = address(e))
        BY <1>1, <2>1, <2>2, <2>3, <3>2, NewsOf
      <4> QED
        BY <2>3, <2>5, <3>2, <4>1
    <3> QED
      BY <3>1, <3>2
  <2> QED
    BY <1>1, <1>5, <2>1, <2>3, <2>5, <2>6, LandStays
<1> QED
  BY <1>1, <1>4, <1>5

LEMMA FailStays ==
  ASSUME Careful, Keeps, Base', NEW r \in Requests, WriteFails(r)
  PROVE  Keeps'
<1>1. /\ Base /\ req[r].pc = "fill" /\ ~Upstash /\ Void(req[r].to)
      /\ req[r].to \in {"comments", "subscribers"} /\ UNCHANGED posts /\ Ends(r)
  BY DEF Keeps, WriteFails, Base, Typed, Pending, Request
<1>2. PICK data \in {file[req[r].to], Torn} : file' = [file EXCEPT ![req[r].to] = data]
  BY DEF WriteFails
<1>3. Parsed(Torn) = << >> /\ << >> \in Seq(Nat) /\ << >> \in Seq(Addresses)
  BY DEF Parsed
<1>4. CASE req[r].to = "comments"
  <2>1. /\ file'.comments \in {file.comments, Torn} /\ file'.subscribers = file.subscribers
        /\ news' = news /\ acked' = {}
    BY <1>1, <1>2, <1>4 DEF Base, Typed, Void
  <2>2. Held(file.comments)' \in Seq(Nat)
    BY <1>1, <1>3, <2>1 DEF Held, Parsed, Keeps, CommentsIn
  <2>3. Kept(Held(file.comments)', acked', posts)
    BY <2>1 DEF Kept
  <2> QED
    BY <1>1, <1>4, <2>1, <2>2, <2>3, LandStays
<1>5. CASE req[r].to = "subscribers"
  <2>1. /\ file'.subscribers \in {file.subscribers, Torn} /\ file'.comments = file.comments
        /\ acked' = acked /\ \A e \in Spellings : news'[e] = 0
    BY <1>1, <1>2, <1>5 DEF Base, Typed, Void
  <2>2. Held(file.subscribers)' \in Seq(Addresses)
    BY <1>1, <1>3, <2>1 DEF Held, Parsed, Keeps, SubscribersIn
  <2> QED
    BY <1>1, <1>5, <2>1, <2>2, LandStays
<1> QED
  BY <1>1, <1>4, <1>5

LEMMA PageStays ==
  ASSUME Careful, Keeps, Base', NEW u \in Users,
         Open(u) \/ getComments(u) \/ Loaded(u) \/ Link(u) \/ Answered(u)
  PROVE  Keeps'
<1>1. UNCHANGED <<file, req, clash, posts, taken, acked, news>>
  BY DEF Open, getComments, Loaded, Link, Answered
<1>2. clash' = {s \in clash : req'[s].pc \in {"write", "fill"}}
  BY <1>1 DEF Keeps, Clashes, Base, Typed
<1> QED
  BY <1>1, <1>2, KeepsFrame

LEMMA StartStays ==
  ASSUME Careful, Keeps, Base', NEW r \in Requests,
         (\E u \in Users : Post(u, r)) \/ (\E e \in Spellings : Subscribe(e, r))
  PROVE  Keeps'
<1>1. Base /\ UNCHANGED <<file, clash, taken, acked, news>> /\ req[r].pc = "idle"
  BY DEF Keeps, Post, Subscribe
<1>2. \A c \in DOMAIN posts : posts'[c] = posts[c]
  <2>1. UNCHANGED posts \/ \E p : posts' = Append(posts, p)
    BY DEF Post, Subscribe
  <2>2. posts \in Seq(Comment) /\ DOMAIN posts = 1..Len(posts)
    BY <1>1, LenProperties DEF Base, Typed
  <2> QED
    BY <2>1, <2>2
<1>3. PICK q : req' = [req EXCEPT ![r] = q] /\ q.pc = "start"
  <2>1. CASE \E u \in Users : Post(u, r)
    <3>1. req' = [req EXCEPT ![r] = [Idle EXCEPT !.pc = "start", !.item = Len(posts) + 1]]
      BY <2>1 DEF Post
    <3>2. [Idle EXCEPT !.pc = "start", !.item = Len(posts) + 1].pc = "start"
      BY DEF Idle
    <3> QED
      BY <3>1, <3>2
  <2>2. CASE \E e \in Spellings : Subscribe(e, r)
    <3>1. PICK e \in Spellings : Subscribe(e, r)
      BY <2>2
    <3>2. req' = [req EXCEPT ![r] = [Idle EXCEPT !.pc = "start", !.to = "subscribers", !.item = e]]
      BY <3>1 DEF Subscribe
    <3>3. [Idle EXCEPT !.pc = "start", !.to = "subscribers", !.item = e].pc = "start"
      BY DEF Idle
    <3> QED
      BY <3>2, <3>3
  <2> QED
    BY <2>1, <2>2
<1>4. req'[r] = q /\ \A s \in Requests \ {r} : req'[s] = req[s]
  BY <1>1, <1>3 DEF Base, Typed
<1>5. clash \subseteq Requests /\ \A s \in clash : s # r /\ req[s].pc \in {"write", "fill"}
  BY <1>1 DEF Keeps, Clashes, Base, Typed
<1>6. clash' = {s \in clash : req'[s].pc \in {"write", "fill"}}
  BY <1>1, <1>4, <1>5
<1> QED
  BY <1>1, <1>2, <1>3, <1>4, <1>6, KeepsFrame

LEMMA RefusedStays ==
  ASSUME Careful, Keeps, Base', NEW r \in Requests, StoreFails(r)
  PROVE  Keeps'
<1>1. /\ Base /\ UNCHANGED <<file, posts, taken, acked, news>> /\ Ends(r)
      /\ req[r].pc \in {"start", "write", "trim"}
  BY DEF Keeps, StoreFails
<1>2. clash \subseteq Requests /\ \A s \in clash : req[s].pc \in {"write", "fill"}
  BY <1>1 DEF Keeps, Clashes, Base, Typed
<1>3. clash' = {s \in clash : req'[s].pc \in {"write", "fill"}}
  BY <1>1, <1>2, EndsClash
<1> QED
  BY <1>1, <1>3, EndsClash, KeepsFrame

LEMMA KeepsStep ==
  ASSUME Careful, Keeps, [Next]_vars
  PROVE  Keeps'
<1>1. Base'
  BY BaseStep DEF Keeps, Careful
<1>2. CASE UNCHANGED vars
  <2>1. clash' = {s \in clash : req'[s].pc \in {"write", "fill"}}
    BY <1>2 DEF vars, Keeps, Clashes, Base, Typed
  <2> QED
    BY <1>1, <1>2, <2>1, KeepsFrame DEF vars
<1>3. CASE \E u \in Users : Open(u) \/ getComments(u) \/ Loaded(u) \/ Link(u) \/ Answered(u)
  BY <1>1, <1>3, PageStays
<1>4. CASE \E r \in Requests : (\E u \in Users : Post(u, r)) \/ (\E e \in Spellings : Subscribe(e, r))
  BY <1>1, <1>4, StartStays
<1>5. CASE \E r \in Requests : Serve(r)
  BY <1>1, <1>5, PushStays, TrimStays, AddStays, ReadStays, TruncateStays, WriteStays DEF Serve
<1>6. CASE \E r \in Requests : StoreFails(r) \/ WriteFails(r)
  BY <1>1, <1>6, RefusedStays, FailStays
<1> QED
  BY <1>2, <1>3, <1>4, <1>5, <1>6 DEF Next

LEMMA KeepsComments ==
  ASSUME Careful, Keeps
  PROVE  CommentsKept
<1> SUFFICES ASSUME Whole("comments"), NEW c \in acked
             PROVE  \/ Contains(file.comments, c)
                    \/ /\ Len(file.comments) >= MAX_COMMENTS
                       /\ \A k \in DOMAIN file.comments : file.comments[k] \notin posts[c].older
  BY DEF CommentsKept
<1> DEFINE list == Held(file.comments)
<1>1. list \in Seq(Nat) /\ Kept(list, Sure, posts) /\ c \in Sure
  BY DEF Keeps, CommentsIn, Base, Typed, Sure
<1>2. list = file.comments \/ list = << >>
  BY DEF Held, Parsed
<1> HIDE DEF list
<1>3. CASE list = << >>
  <2>1. Len(list) = 0 /\ DOMAIN list = {}
    BY <1>3
  <2> QED
    BY <1>1, <2>1 DEF Kept, Careful
<1>4. CASE list = file.comments
  BY <1>1, <1>4, Member DEF Kept
<1> QED
  BY <1>2, <1>3, <1>4

LEMMA KeepsSubscribers ==
  ASSUME Keeps
  PROVE  SubscribedOnce
<1> SUFFICES ASSUME Whole("subscribers"), NEW e \in Spellings
             PROVE  news[e] <= 1 /\ (news[e] = 1 => Contains(file.subscribers, e[1]))
  BY DEF SubscribedOnce
<1> DEFINE list == Held(file.subscribers)
<1>1. news[e] <= 1 /\ (news[e] = 1 => Contains(list, address(e)))
  BY DEF Keeps, SubscribersIn, Listed
<1>2. list = file.subscribers \/ list = << >>
  BY DEF Held, Parsed
<1>3. ~Contains(<< >>, address(e))
  BY DEF Contains
<1> HIDE DEF list
<1> QED
  BY <1>1, <1>2, <1>3 DEF address

(* The store remembers: a comment that was answered for stays until        *)
(* MAX_COMMENTS that are not older have come, and an address, however it   *)
(* is spelled, is new once and then stays on the list; whatever overlaps   *)
(* and whichever call fails, except that writes of the file that clash or  *)
(* stop half way take back what was answered before.                       *)
THEOREM StoreRemembers ==
  ASSUME Careful
  PROVE  Spec => [](CommentsKept /\ SubscribedOnce)
<1>1. Init => Keeps
  BY KeepsInit DEF Careful
<1>2. Keeps /\ [Next]_vars => Keeps'
  BY KeepsStep
<1>3. Keeps => CommentsKept /\ SubscribedOnce
  BY KeepsComments, KeepsSubscribers
<1> QED
  BY <1>1, <1>2, <1>3, PTL DEF Spec
=============================================================================
