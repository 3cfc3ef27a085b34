---------------------- MODULE CommunityTranslation_proofs ----------------------
(***************************************************************************)
(* Theorems about CommunityTranslation, for any posts, comments, runs,     *)
(* texts, limits and bounds that satisfy the assumptions; and about the    *)
(* cached snapshot of the arcades (Candidates), for any arcades, looks,    *)
(* readers, writers and bounds that satisfy theirs.                        *)
(***************************************************************************)
EXTENDS CommunityTranslation, Candidates, FiniteSetTheorems, TLAPS

USE ItemsAssumption, LimitsAssumption DEF ItemsAssumption, LimitsAssumption

(* A rewritten text starts in one of the four translation states.          *)
LEMMA InitialStatusType ==
    \A s : InitialStatus(s) \in {"pending", "processing", "failed", "ready"}
  BY DEF InitialStatus

(* What each row update of the handlers yields is a row.                   *)
LEMMA FreshType ==
    ASSUME clock \in Nat, NEW s \in Sources
    PROVE  Fresh(s) \in Row
  <1>1. 0 \in 0..MaxAttempts /\ clock + EditWindow \in Nat
    OBVIOUS
  <1> QED
    BY <1>1, InitialStatusType, Zenon DEF Row, Fresh, NoRow

LEMMA RewrittenType ==
    ASSUME NEW r \in Row, NEW s \in Sources
    PROVE  Rewritten(r, s) \in Row
  <1>1. 0 \in 0..MaxAttempts
    OBVIOUS
  <1> QED
    BY <1>1, InitialStatusType, Zenon DEF Row, Rewritten

LEMMA ErasedType ==
    ASSUME NEW r \in Row
    PROVE  /\ Erased(r) \in Row
           /\ [r EXCEPT !.status = "deleted", !.started = NoTime, !.cached = NoText] \in Row
  BY Zenon DEF Row, Erased

LEMMA ClaimedType ==
    ASSUME NEW r \in Row, NEW n \in Nat, r.attempts < MaxAttempts
    PROVE  Claimed(r, n) \in Row /\ r.attempts + 1 \in 1..MaxAttempts
  <1>1. r.attempts + 1 \in 0..MaxAttempts /\ r.attempts + 1 \in 1..MaxAttempts
    BY DEF Row
  <1> QED
    BY <1>1, Zenon DEF Row, Claimed

LEMMA CompletedType ==
    ASSUME NEW r \in Row, NEW j \in Job
    PROVE  Completed(r, j) \in Row
  <1>1. 0 \in 0..MaxAttempts
    OBVIOUS
  <1> QED
    BY <1>1, Zenon DEF Row, Completed, Requeued, Job

LEMMA FailedType ==
    ASSUME NEW r \in Row, NEW j \in Job, NEW n \in Nat
    PROVE  Failed(r, j, n) \in Row
  <1>1. j.attempt \in 1..MaxAttempts /\ RetryDelay[j.attempt] \in Nat
    BY DEF Job
  <1>2. r.after \in Nat /\ n + RetryDelay[j.attempt] \in Nat
    BY <1>1 DEF Row
  <1>3. (IF j.attempt < MaxAttempts THEN n + RetryDelay[j.attempt] ELSE r.after) \in Nat
    BY <1>2
  <1> QED
    BY <1>3, Zenon DEF Row, Failed

(* So do the two updates of a run.                                         *)
LEMMA RunType ==
    ASSUME NEW r \in Run, NEW B \in SUBSET Items
    PROVE  /\ [r EXCEPT !.phase = "comments", !.todo = B] \in Run
           /\ [r EXCEPT !.todo = B] \in Run
  BY Zenon DEF Run

-------------------------------------------------------------------------------
(* Every variable keeps its type: in particular no row is ever claimed     *)
(* more than MaxAttempts times without its attempts being reset.           *)
THEOREM Typing == Spec => []TypeOK
  <1>1. Init => TypeOK
    <2>1. NoRow \in Row
      <3>1. 0 \in 0..MaxAttempts /\ 0 \in Nat
        OBVIOUS
      <3> QED
        BY <3>1, Zenon DEF NoRow, Row
    <2>2. IdleRun \in Run
      BY DEF IdleRun, Run
    <2> QED
      BY <2>1, <2>2 DEF Init, TypeOK
  <1>2. TypeOK /\ [Next]_vars => TypeOK'
    <2> SUFFICES ASSUME TypeOK, [Next]_vars PROVE TypeOK'
      OBVIOUS
    <2> USE DEF TypeOK
    <2>1. ASSUME NEW p \in Posts, NEW s \in Sources, CreatePost(p, s) PROVE TypeOK'
      BY <2>1, FreshType DEF CreatePost
    <2>2. ASSUME NEW p \in Posts, NEW s \in Sources, BeginUpdatePost(p, s) PROVE TypeOK'
      <3>1. [post |-> p, at |-> clock, src |-> s] \in Request
        BY DEF Request
      <3> QED
        BY <2>2, <3>1 DEF BeginUpdatePost
    <2>3. ASSUME NEW q \in pending, UpdatePost(q) PROVE TypeOK'
      <3>1. q.post \in Items /\ q.src \in Sources
        BY DEF Request, Items
      <3>2. Rewritten(row[q.post], q.src) \in Row
        BY <3>1, RewrittenType
      <3>3. row' \in [Items -> Row] /\ calls' \in [Items -> Nat]
        <4>1. CASE row[q.post].status = "active" /\ q.at < row[q.post].editable
          <5>1. /\ row' = [row EXCEPT ![q.post] = Rewritten(@, q.src)]
                /\ calls' = [calls EXCEPT ![q.post] = 0]
            BY <2>3, <4>1 DEF UpdatePost
          <5> QED
            BY <3>2, <5>1
        <4>2. CASE ~(row[q.post].status = "active" /\ q.at < row[q.post].editable)
          BY <2>3, <4>2 DEF UpdatePost
        <4> QED
          BY <4>1, <4>2
      <3> QED
        BY <2>3, <3>3 DEF UpdatePost
    <2>4. ASSUME NEW p \in Posts, DeletePost(p) PROVE TypeOK'
      BY <2>4, ErasedType DEF DeletePost
    <2>5. ASSUME NEW c \in Comments, NEW s \in Sources, CreateComment(c, s) PROVE TypeOK'
      BY <2>5, FreshType DEF CreateComment
    <2>6. ASSUME NEW c \in Comments, NEW s \in Sources, UpdateComment(c, s) PROVE TypeOK'
      BY <2>6, RewrittenType DEF UpdateComment, Items
    <2>7. ASSUME NEW c \in Comments, DeleteComment(c) PROVE TypeOK'
      BY <2>7, ErasedType DEF DeleteComment, Items
    <2>8. ASSUME NEW w \in Runs, StartRun(w) PROVE TypeOK'
      <3>1. PICK B \in Listings(Posts, clock) :
              run' = [run EXCEPT ![w] = [phase |-> "posts", now |-> clock, todo |-> B]]
        BY <2>8 DEF StartRun
      <3>2. B \in SUBSET Items
        BY DEF Listings, Items
      <3>3. [phase |-> "posts", now |-> clock, todo |-> B] \in Run
        BY <3>2 DEF Run
      <3>4. run' \in [Runs -> Run]
        BY <3>1, <3>3
      <3> QED
        BY <2>8, <3>4 DEF StartRun
    <2>9. ASSUME NEW w \in Runs, ListComments(w) PROVE TypeOK'
      <3>1. PICK B \in Listings(Comments, run[w].now) :
              run' = [run EXCEPT ![w].phase = "comments", ![w].todo = B]
        BY <2>9 DEF ListComments
      <3>2. B \in SUBSET Items
        BY DEF Listings, Items
      <3>3. [run[w] EXCEPT !.phase = "comments", !.todo = B] \in Run
        <4>1. run[w] \in Run
          OBVIOUS
        <4> QED
          BY ONLY <3>2, <4>1, RunType
      <3>4. run' \in [Runs -> Run]
        BY <3>1, <3>3
      <3> QED
        BY <2>9, <3>4 DEF ListComments
    <2>10. ASSUME NEW w \in Runs, EndRun(w) PROVE TypeOK'
      <3>1. IdleRun \in Run
        BY DEF IdleRun, Run
      <3>2. run' \in [Runs -> Run]
        BY <2>10, <3>1 DEF EndRun
      <3> QED
        BY <2>10, <3>2 DEF EndRun
    <2>11. ASSUME NEW w \in Runs, NEW i \in Items, Claim(w, i) PROVE TypeOK'
      <3>1. run' \in [Runs -> Run]
        <4>1. [run[w] EXCEPT !.todo = @ \ {i}] \in Run
          <5>1. run[w] \in Run /\ run[w].todo \ {i} \in SUBSET Items
            BY DEF Run
          <5> QED
            BY ONLY <5>1, RunType
        <4> QED
          BY <2>11, <4>1 DEF Claim
      <3>2. CASE Claimable(i, run[w].now)
        <4>1. run[w].now \in Nat /\ row[i].attempts < MaxAttempts
          BY <3>2 DEF Claimable, Run
        <4>2. Claimed(row[i], run[w].now) \in Row /\ row[i].attempts + 1 \in 1..MaxAttempts
          BY <4>1, ClaimedType
        <4>3. row[i].src \in Sources
          BY DEF Row
        <4>4. [item |-> i, src |-> row[i].src, attempt |-> row[i].attempts + 1] \in Job
          BY <4>2, <4>3, Zenon DEF Job
        <4>5. row' \in [Items -> Row]
          BY <2>11, <3>2, <4>2 DEF Claim
        <4>6. job' \in [Runs -> Job \cup {NoJob}]
          BY <2>11, <3>2, <4>4 DEF Claim
        <4>7. calls' \in [Items -> Nat]
          <5>1. calls' = [calls EXCEPT ![i] = @ + 1] /\ calls[i] + 1 \in Nat
            BY <2>11, <3>2 DEF Claim
          <5> QED
            BY <5>1
        <4> QED
          BY <2>11, <3>1, <4>5, <4>6, <4>7 DEF Claim
      <3>3. CASE ~Claimable(i, run[w].now)
        BY <2>11, <3>1, <3>3 DEF Claim
      <3> QED
        BY <3>2, <3>3
    <2>12. ASSUME NEW w \in Runs, CompleteTranslation(w) PROVE TypeOK'
      <3>1. job[w] \in Job /\ job[w].item \in Items
        BY <2>12 DEF CompleteTranslation, Job
      <3>2. Completed(row[job[w].item], job[w]) \in Row
        BY <3>1, CompletedType
      <3> QED
        BY <2>12, <3>1, <3>2 DEF CompleteTranslation
    <2>13. ASSUME NEW w \in Runs, FailTranslation(w) PROVE TypeOK'
      <3>1. job[w] \in Job /\ job[w].item \in Items /\ run[w].now \in Nat
        BY <2>13 DEF FailTranslation, Job, Run
      <3>2. Failed(row[job[w].item], job[w], run[w].now) \in Row
        BY <3>1, FailedType
      <3> QED
        BY <2>13, <3>1, <3>2 DEF FailTranslation
    <2>14. CASE Crash
      <3>1. IdleRun \in Run
        BY DEF IdleRun, Run
      <3> QED
        BY <2>14, <3>1 DEF Crash
    <2>15. CASE Tick
      BY <2>15 DEF Tick
    <2>16. CASE UNCHANGED vars
      BY <2>16 DEF vars
    <2> QED
      BY <2>1, <2>2, <2>3, <2>4, <2>5, <2>6, <2>7, <2>8, <2>9, <2>10, <2>11, <2>12, <2>13,
         <2>14, <2>15, <2>16 DEF Next, Author, Worker
  <1> QED
    BY <1>1, <1>2, PTL DEF Spec
-------------------------------------------------------------------------------
(* What the row updates do to the fields the invariants read.              *)
LEMMA FreshFields ==
    ASSUME NEW s \in Sources
    PROVE  LET f == Fresh(s) IN
           /\ f.status = "active" /\ f.src = s /\ f.hash = s /\ f.cached = NoText
           /\ f.tstatus = InitialStatus(s) /\ f.attempts = 0 /\ f.after = f.editable
  BY DEF Fresh, NoRow
LEMMA RewrittenFields ==
    ASSUME NEW r \in Row, NEW s \in Sources
    PROVE  LET f == Rewritten(r, s) IN
           /\ f.status = r.status /\ f.src = s /\ f.hash = s /\ f.cached = NoText
           /\ f.tstatus = InitialStatus(s) /\ f.attempts = 0
           /\ f.editable = r.editable /\ f.after = r.after
  BY DEF Row, Rewritten
LEMMA ErasedFields ==
    ASSUME NEW r \in Row
    PROVE  /\ Erased(r).status = "deleted" /\ Erased(r).cached = NoText
           /\ Erased(r).editable = r.editable /\ Erased(r).after = r.after
  BY DEF Row, Erased
LEMMA ClaimedFields ==
    ASSUME NEW r \in Row, NEW n \in Nat
    PROVE  LET f == Claimed(r, n) IN
           /\ f.status = r.status /\ f.src = r.src /\ f.hash = r.src /\ f.cached = r.cached
           /\ f.tstatus = "processing" /\ f.attempts = r.attempts + 1
           /\ f.editable = r.editable /\ f.after = r.after
  BY DEF Row, Claimed
LEMMA CompletedFields ==
    ASSUME NEW r \in Row, NEW j \in Job
    PROVE  LET f == Completed(r, j) IN
           /\ f.status = r.status /\ f.src = r.src /\ f.hash = r.hash
           /\ f.editable = r.editable /\ f.after = r.after
           /\ \/ /\ r.src = j.src /\ r.hash = j.src 
                 /\ f.cached = j.src /\ f.tstatus = "ready" /\ f.attempts = r.attempts
              \/ /\ r.src # j.src \/ r.hash # j.src 
                 /\ f.cached = r.cached /\ f.tstatus = "pending"
  BY DEF Row, Completed, Requeued
LEMMA FailedFields ==
    ASSUME NEW r \in Row, NEW j \in Job, NEW n \in Nat
    PROVE  LET f == Failed(r, j, n) IN
           /\ f.status = r.status /\ f.src = r.src /\ f.hash = r.hash /\ f.cached = r.cached
           /\ f.editable = r.editable /\ f.tstatus = "failed" /\ f.attempts = r.attempts
           /\ f.after = r.after \/ f.after >= n
    <1>1. j.attempt \in 1..MaxAttempts /\ RetryDelay[j.attempt] \in Nat
      BY DEF Job
    <1> QED
      BY <1>1 DEF Row, Failed

-------------------------------------------------------------------------------
(* The parent of an item is a post, and a post is its own parent.          *)
LEMMA Parents ==
    /\ \A i \in Items : Parent(i) \in Posts
    /\ \A p \in Posts : Parent(p) = p
    /\ \A c \in Comments : Parent(c) = PostOf[c]
  BY DEF Parent, Items

ReadersSafe == CommentsFollowPost /\ CachedIsCurrent /\ ReadyIsCached

(* Whatever is cached translates the text the row has now, and an active   *)
(* row says ready exactly when it can be served: no interleaving of edits, *)
(* deletions, overlapping runs, late answers and restarts breaks that.     *)
THEOREM TranslationsAreCurrent ==
    Spec => [](CommentsFollowPost /\ CachedIsCurrent /\ ReadyIsCached)
  <1> USE DEF ReadersSafe
  <1>1. Init => ReadersSafe
    BY Parents DEF Init, CommentsFollowPost, CachedIsCurrent, ReadyIsCached, NoRow, Active, Items
  <1>2. TypeOK /\ ReadersSafe /\ [Next]_vars => ReadersSafe'
    <2> SUFFICES ASSUME TypeOK, ReadersSafe, [Next]_vars PROVE ReadersSafe'
      OBVIOUS
    <2>0. /\ row \in [Items -> Row]
          /\ \A p \in Posts : p \in Items
          /\ \A c \in Comments : c \in Items /\ PostOf[c] \in Posts /\ c \notin Posts
          /\ \A w \in Runs : job[w] # NoJob => job[w] \in Job /\ job[w].item \in Items
          /\ \A w \in Runs : run[w].now \in Nat
      BY DEF TypeOK, Items, Job, Run
    (* Any step that rewrites one row and keeps its status.                *)
    <2> DEFINE Keeps(i, r) ==
          /\ r.status = row[i].status
          /\ \/ r.cached = NoText /\ (r.tstatus = "ready" => r.src = Blank)
             \/ r.cached = r.src /\ r.tstatus = "ready" /\ Active(i)
    <2>1. ASSUME NEW i \in Items, NEW r \in Row, row' = [row EXCEPT ![i] = r], Keeps(i, r)
          PROVE  ReadersSafe'
      <3>1. \A k \in Items : row'[k].status = row[k].status
        BY <2>0, <2>1
      <3>2. \A k \in Items : Active(k)' <=> Active(k)
        BY <3>1, Parents DEF Active, Items
      <3>3. CommentsFollowPost'
        BY <2>0, <3>1 DEF CommentsFollowPost
      <3>4. CachedIsCurrent' /\ ReadyIsCached'
        BY <2>0, <2>1, <3>2 DEF CachedIsCurrent, ReadyIsCached
      <3> QED
        BY <3>3, <3>4
    <2>2. ASSUME UNCHANGED row PROVE ReadersSafe'
      BY <2>2 DEF CommentsFollowPost, CachedIsCurrent, ReadyIsCached, Active
    <2> HIDE DEF Keeps
    <2>3. ASSUME NEW p \in Posts, NEW s \in Sources, CreatePost(p, s) PROVE ReadersSafe'
      <3>1. /\ row' = [row EXCEPT ![p] = Fresh(s)] /\ row[p].status = "absent" /\ s # Blank
        BY <2>3 DEF CreatePost
      <3>2. \A k \in Items : k # p => row'[k] = row[k]
        BY <2>0, <3>1
      <3>3. row'[p] = Fresh(s) /\ Fresh(s).status = "active" /\ Fresh(s).cached = NoText
            /\ Fresh(s).tstatus = "pending"
        BY <2>0, <3>1, FreshFields DEF InitialStatus
      <3>4. \A k \in Items : k # p => (Active(k)' <=> Active(k))
        BY <2>0, <3>1, <3>2, Parents DEF Active, Items, CommentsFollowPost
      <3> QED
        BY <2>0, <3>1, <3>2, <3>3, <3>4, Parents
        DEF CommentsFollowPost, CachedIsCurrent, ReadyIsCached
    <2>4. ASSUME NEW q \in pending, UpdatePost(q) PROVE ReadersSafe'
      <3>1. q.post \in Items /\ q.src \in Sources
        BY DEF TypeOK, Request, Items
      <3>2. CASE UNCHANGED row
        BY <2>2, <3>2
      <3>3. CASE row' = [row EXCEPT ![q.post] = Rewritten(@, q.src)]
        <4>1. Rewritten(row[q.post], q.src) \in Row
          BY <2>0, <3>1, RewrittenType
        <4>2. Keeps(q.post, Rewritten(row[q.post], q.src))
          BY <2>0, <3>1, RewrittenFields DEF Keeps, InitialStatus
        <4> QED
          BY <2>1, <3>1, <3>3, <4>1, <4>2
      <3> QED
        BY <2>4, <3>2, <3>3 DEF UpdatePost
    <2>5. ASSUME NEW p \in Posts, DeletePost(p) PROVE ReadersSafe'
      <3> DEFINE kept(i) == i # p /\ (Parent(i) # p \/ row[i].status = "absent")
      <3>1. \A i \in Items : kept(i) => row'[i] = row[i]
        BY <2>5, <2>0 DEF DeletePost
      <3>2. \A i \in Items : ~kept(i) => row'[i].status = "deleted" /\ row'[i].cached = NoText
        <4> SUFFICES ASSUME NEW i \in Items, ~kept(i)
                     PROVE  row'[i].status = "deleted" /\ row'[i].cached = NoText
          OBVIOUS
        <4>1. CASE i = p
          BY <2>5, <2>0, <4>1 DEF DeletePost, Row
        <4>2. CASE i # p
          BY <2>5, <2>0, <4>2, ErasedFields DEF DeletePost
        <4> QED
          BY <4>1, <4>2
      <3>3. \A i \in Items : kept(i) /\ row[i].status # "absent" => (Active(i)' <=> Active(i))
        <4> SUFFICES ASSUME NEW i \in Items, kept(i), row[i].status # "absent"
                     PROVE  Active(i)' <=> Active(i)
          OBVIOUS
        <4>1. Parent(i) \in Posts /\ Parent(i) # p /\ Parent(Parent(i)) = Parent(i)
          BY Parents
        <4>2. row'[i] = row[i] /\ row'[Parent(i)] = row[Parent(i)]
          BY <2>0, <3>1, <4>1
        <4> QED
          BY <4>2 DEF Active
      <3>4. CommentsFollowPost'
        BY <2>0, <3>1, <3>2, Parents DEF CommentsFollowPost
      <3>5. CachedIsCurrent'
        BY <2>0, <3>1, <3>2, <3>3 DEF CachedIsCurrent, Active
      <3>6. ReadyIsCached'
        BY <2>0, <3>1, <3>2, <3>3 DEF ReadyIsCached, Active
      <3> QED
        BY <3>4, <3>5, <3>6
    <2>6. ASSUME NEW c \in Comments, NEW s \in Sources, CreateComment(c, s) PROVE ReadersSafe'
      <3>1. /\ row' = [row EXCEPT ![c] = Fresh(s)]
            /\ row[c].status = "absent" /\ row[PostOf[c]].status = "active"
        BY <2>6 DEF CreateComment
      <3>2. \A k \in Items : k # c => row'[k] = row[k]
        BY <2>0, <3>1
      <3>3. row'[c] = Fresh(s) /\ Fresh(s).status = "active" /\ Fresh(s).cached = NoText
            /\ (Fresh(s).tstatus = "ready" => Fresh(s).src = Blank)
        BY <2>0, <3>1, FreshFields DEF InitialStatus
      <3>4. \A k \in Items : k # c => (Active(k)' <=> Active(k))
        BY <2>0, <3>2, Parents DEF Active
      <3> QED
        BY <2>0, <3>1, <3>2, <3>3, <3>4 DEF CommentsFollowPost, CachedIsCurrent, ReadyIsCached
    <2>7. ASSUME NEW c \in Comments, NEW s \in Sources, UpdateComment(c, s) PROVE ReadersSafe'
      <3>1. row' = [row EXCEPT ![c] = Rewritten(@, s)] /\ c \in Items
        BY <2>0, <2>7 DEF UpdateComment
      <3>2. Rewritten(row[c], s) \in Row
        BY <2>0, RewrittenType
      <3>3. Keeps(c, Rewritten(row[c], s))
        BY <2>0, RewrittenFields DEF Keeps, InitialStatus
      <3> QED
        BY <2>1, <3>1, <3>2, <3>3
    <2>8. ASSUME NEW c \in Comments, DeleteComment(c) PROVE ReadersSafe'
      <3>1. row' = [row EXCEPT ![c] = Erased(@)] /\ c \in Items
        BY <2>0, <2>8 DEF DeleteComment
      <3>2. \A k \in Items : k # c => row'[k] = row[k]
        BY <2>0, <3>1
      <3>3. row'[c].status = "deleted" /\ row'[c].cached = NoText
        BY <2>0, <3>1, ErasedFields
      <3>4. \A k \in Items : k # c => (Active(k)' <=> Active(k))
        BY <2>0, <3>2, Parents DEF Active
      <3> QED
        BY <2>0, <3>2, <3>3, <3>4 DEF CommentsFollowPost, CachedIsCurrent, ReadyIsCached, Active
    <2>9. ASSUME NEW w \in Runs, NEW i \in Items, Claim(w, i) PROVE ReadersSafe'
      <3>1. CASE UNCHANGED row
        BY <2>2, <3>1
      <3>2. CASE Claimable(i, run[w].now) /\ row' = [row EXCEPT ![i] = Claimed(@, run[w].now)]
        <4>1. row[i].tstatus # "ready" /\ row[i].attempts < MaxAttempts
          BY <3>2 DEF Claimable
        <4>2. row[i].cached = NoText
          BY <4>1 DEF CachedIsCurrent
        <4>3. Claimed(row[i], run[w].now) \in Row
          BY <2>0, <4>1, ClaimedType
        <4>4. Keeps(i, Claimed(row[i], run[w].now))
          BY <2>0, <4>2, ClaimedFields DEF Keeps
        <4> QED
          BY <2>1, <3>2, <4>3, <4>4
      <3> QED
        BY <2>9, <3>1, <3>2 DEF Claim
    <2>10. ASSUME NEW w \in Runs, CompleteTranslation(w) PROVE ReadersSafe'
      <3>1. job[w] \in Job /\ job[w].item \in Items
        BY <2>0, <2>10 DEF CompleteTranslation
      <3>2. CASE UNCHANGED row
        BY <2>2, <3>2
      <3>3. CASE Holds(w) /\ row' = [row EXCEPT ![job[w].item] = Completed(@, job[w])]
        <4> DEFINE i == job[w].item
        <4>1. Active(i) /\ row[i].cached = NoText
          BY <3>1, <3>3 DEF Holds, CachedIsCurrent
        <4>2. Completed(row[i], job[w]) \in Row
          BY <2>0, <3>1, CompletedType
        <4>3. Keeps(i, Completed(row[i], job[w]))
          BY <2>0, <3>1, <4>1, CompletedFields DEF Keeps
        <4> QED
          BY <2>1, <3>1, <3>3, <4>2, <4>3
      <3> QED
        BY <2>10, <3>2, <3>3 DEF CompleteTranslation
    <2>11. ASSUME NEW w \in Runs, FailTranslation(w) PROVE ReadersSafe'
      <3>1. job[w] \in Job /\ job[w].item \in Items
        BY <2>0, <2>11 DEF FailTranslation
      <3>2. CASE UNCHANGED row
        BY <2>2, <3>2
      <3>3. CASE Holds(w) /\ row' = [row EXCEPT ![job[w].item] = Failed(@, job[w], run[w].now)]
        <4> DEFINE i == job[w].item
        <4>1. row[i].cached = NoText
          BY <3>1, <3>3 DEF Holds, CachedIsCurrent
        <4>2. Failed(row[i], job[w], run[w].now) \in Row
          BY <2>0, <3>1, FailedType
        <4>3. Keeps(i, Failed(row[i], job[w], run[w].now))
          BY <2>0, <3>1, <4>1, FailedFields DEF Keeps
        <4> QED
          BY <2>1, <3>1, <3>3, <4>2, <4>3
      <3> QED
        BY <2>11, <3>2, <3>3 DEF FailTranslation
    <2>12. ASSUME \/ \E p \in Posts, s \in Sources : BeginUpdatePost(p, s)
                  \/ \E w \in Runs : StartRun(w) \/ ListComments(w) \/ EndRun(w)
                  \/ Crash \/ Tick \/ UNCHANGED vars
           PROVE  ReadersSafe'
      BY <2>2, <2>12 DEF BeginUpdatePost, StartRun, ListComments, EndRun, Crash, Tick, vars
    <2> QED
      BY <2>3, <2>4, <2>5, <2>6, <2>7, <2>8, <2>9, <2>10, <2>11, <2>12 DEF Next, Author, Worker
  <1> QED
    BY <1>1, <1>2, Typing, PTL DEF Spec
-------------------------------------------------------------------------------
(* The reader's view of one row.                                           *)
LEMMA TextOfRow ==
    ASSUME NEW r \in Row
    PROVE  /\ r.status = "active" => TextOf(r) = r.src /\ TextOf(r) \in Sources
           /\ TextOf(r) \in Sources => r.status = "active"
           /\ r.status = "absent" <=> TextOf(r) = "absent"
           /\ r.status = "deleted" => TextOf(r) = "removed"
  BY DEF TextOf, Row

(* A step that changes one row changes the reader's view there at most.    *)
LEMMA ViewOfStep ==
    ASSUME row \in [Items -> Row], NEW i \in Items, NEW r \in Row,
           row' = [row EXCEPT ![i] = r]
    PROVE  /\ ReaderText' = [ReaderText EXCEPT ![i] = TextOf(r)]
           /\ ReaderOffered' = [ReaderOffered EXCEPT ![i] = r.cached]
           /\ TextOf(r) = TextOf(row[i]) => ReaderText' = ReaderText
           /\ r.cached = row[i].cached => ReaderOffered' = ReaderOffered
  BY DEF ReaderText, ReaderOffered

(* Requests, worker runs, crashes and time together implement the          *)
(* published community: what readers are offered is always the translation *)
(* of the text they see, and what was removed stays removed.               *)
THEOREM ImplementsPublished == Spec => PublishedSpec
  <1> DEFINE Skip == UNCHANGED <<ReaderText, ReaderOffered>>
  <1>1. Init => Published!PInit
    <2> SUFFICES ASSUME Init PROVE Published!PInit
      OBVIOUS
    <2>1. \A i \in Items : TextOf(row[i]) = "absent" /\ row[i].cached = NoText
      BY DEF Init, NoRow, TextOf
    <2> QED
      BY <2>1 DEF Published!PInit, ReaderText, ReaderOffered
  <1>2. TypeOK /\ ReadersSafe /\ [Next]_vars => [Published!PNext]_Published!pvars
    <2> SUFFICES ASSUME TypeOK, ReadersSafe, [Next]_vars PROVE Published!PNext \/ Skip
      BY DEF Published!pvars
    <2>0. /\ row \in [Items -> Row]
          /\ \A p \in Posts : p \in Items
          /\ \A c \in Comments : c \in Items
          /\ \A w \in Runs : job[w] # NoJob => job[w] \in Job /\ job[w].item \in Items
          /\ \A w \in Runs : run[w].now \in Nat
      BY DEF TypeOK, Items, Job, Run
    <2>1. \A i \in Items : ReaderText[i] = TextOf(row[i]) /\ ReaderOffered[i] = row[i].cached
      BY DEF ReaderText, ReaderOffered
    <2>2. ASSUME NEW i \in Items, NEW s \in Sources, row[i].status = "absent", clock \in Nat,
                 row' = [row EXCEPT ![i] = Fresh(s)]
          PROVE  Published!PNext
      <3>1. Fresh(s) \in Row /\ Fresh(s).cached = NoText /\ TextOf(Fresh(s)) = s
        BY <2>2, FreshType, FreshFields, TextOfRow
      <3>2. row[i].cached = NoText
        BY <2>2 DEF ReadersSafe, CachedIsCurrent, Active
      <3>3. /\ ReaderText' = [ReaderText EXCEPT ![i] = s]
            /\ ReaderOffered' = ReaderOffered
            /\ ReaderText[i] = "absent"
        <4>1. /\ ReaderText' = [ReaderText EXCEPT ![i] = TextOf(Fresh(s))]
              /\ Fresh(s).cached = row[i].cached => ReaderOffered' = ReaderOffered
          BY <2>0, <2>2, <3>1, ViewOfStep
        <4>2. ReaderText[i] = "absent"
          BY <2>1, <2>2 DEF TextOf
        <4> QED
          BY <3>1, <3>2, <4>1, <4>2
      <3>4. Published!Publish(i, s)
        BY <3>3 DEF Published!Publish
      <3> QED
        BY <3>4 DEF Published!PNext
    <2>3. ASSUME NEW i \in Items, NEW s \in Sources, row[i].status = "active",
                 row' = [row EXCEPT ![i] = Rewritten(@, s)]
          PROVE  Published!PNext
      <3> DEFINE r == Rewritten(row[i], s)
      <3>1. row[i] \in Row /\ r \in Row
        BY <2>0, RewrittenType
      <3>2. r.cached = NoText /\ r.status = "active" /\ r.src = s
        BY <2>3, <3>1, RewrittenFields
      <3> HIDE DEF r
      <3>3. TextOf(r) = s /\ TextOf(row[i]) \in Sources
        BY <2>3, <3>1, <3>2, TextOfRow
      <3>4. row' = [row EXCEPT ![i] = r]
        BY <2>3 DEF r
      <3>5. /\ ReaderText' = [ReaderText EXCEPT ![i] = s]
            /\ ReaderOffered' = [ReaderOffered EXCEPT ![i] = NoText]
            /\ ReaderText[i] \in Sources
        <4>1. /\ ReaderText' = [ReaderText EXCEPT ![i] = TextOf(r)]
              /\ ReaderOffered' = [ReaderOffered EXCEPT ![i] = r.cached]
          BY <2>0, <3>1, <3>4, ViewOfStep
        <4> QED
          BY <2>1, <3>2, <3>3, <4>1
      <3>6. Published!Revise(i, s)
        BY <3>5 DEF Published!Revise
      <3> QED
        BY <3>6 DEF Published!PNext
    <2>4. ASSUME NEW S \in SUBSET Items, \A i \in S : row[i].status = "active",
                 row' \in [Items -> Row],
                 \A i \in S : row'[i].status = "deleted" /\ row'[i].cached = NoText,
                 \A i \in Items \ S : TextOf(row'[i]) = TextOf(row[i])
                                        /\ row'[i].cached = row[i].cached
          PROVE  Published!PNext
      <3>1. \A i \in S : ReaderText[i] \in Sources
        BY <2>0, <2>1, <2>4, TextOfRow
      <3>2. ReaderText' = [i \in Items |-> IF i \in S THEN "removed" ELSE ReaderText[i]]
        BY <2>1, <2>4, TextOfRow DEF ReaderText
      <3>3. ReaderOffered' = [i \in Items |-> IF i \in S THEN NoText ELSE ReaderOffered[i]]
        BY <2>1, <2>4 DEF ReaderOffered
      <3>4. Published!Remove(S)
        BY <3>1, <3>2, <3>3 DEF Published!Remove
      <3> QED
        BY <3>4 DEF Published!PNext
    <2>5. ASSUME NEW p \in Posts, NEW s \in Sources, CreatePost(p, s) PROVE Published!PNext
      BY <2>0, <2>2, <2>5 DEF CreatePost, TypeOK
    <2>6. ASSUME NEW c \in Comments, NEW s \in Sources, CreateComment(c, s) PROVE Published!PNext
      BY <2>0, <2>2, <2>6 DEF CreateComment, TypeOK
    <2>7. ASSUME NEW q \in pending, UpdatePost(q) PROVE Published!PNext \/ Skip
      <3>1. q.post \in Items /\ q.src \in Sources
        BY DEF TypeOK, Request, Items
      <3>2. CASE row[q.post].status = "active" /\ q.at < row[q.post].editable
        BY <2>3, <2>7, <3>1, <3>2 DEF UpdatePost
      <3>3. CASE UNCHANGED row
        BY <3>3 DEF ReaderText, ReaderOffered
      <3> QED
        BY <2>7, <3>2, <3>3 DEF UpdatePost
    <2>8. ASSUME NEW c \in Comments, NEW s \in Sources, UpdateComment(c, s) PROVE Published!PNext
      BY <2>0, <2>3, <2>8 DEF UpdateComment, Active
    <2>9. ASSUME NEW p \in Posts, DeletePost(p) PROVE Published!PNext
      <3> DEFINE S == {i \in Items : row[i].status = "active" /\ (i = p \/ Parent(i) = p)}
      <3>1. row' \in [Items -> Row]
        BY <2>0, <2>9, ErasedType DEF DeletePost
      <3>2. \A i \in S : row'[i].status = "deleted" /\ row'[i].cached = NoText
        <4> SUFFICES ASSUME NEW i \in S
                     PROVE  row'[i].status = "deleted" /\ row'[i].cached = NoText
          OBVIOUS
        <4>1. CASE i = p
          BY <2>0, <2>9, <4>1, ZenonT(30) DEF DeletePost, Row
        <4>2. CASE i # p
          BY <2>0, <2>9, <4>2, ErasedFields DEF DeletePost
        <4> QED
          BY <4>1, <4>2
      <3>3. \A i \in Items \ S : TextOf(row'[i]) = TextOf(row[i]) /\ row'[i].cached = row[i].cached
        <4> SUFFICES ASSUME NEW i \in Items \ S
                     PROVE  TextOf(row'[i]) = TextOf(row[i]) /\ row'[i].cached = row[i].cached
          OBVIOUS
        <4>1. i # p
          BY <2>9 DEF DeletePost
        <4>2. CASE Parent(i) = p /\ row[i].status # "absent"
          <5>1. row[i].status = "deleted" /\ row[i].cached = NoText
            BY <2>0, <4>2 DEF Row, ReadersSafe, CachedIsCurrent, Active
          <5>2. row'[i] = Erased(row[i])
            BY <2>9, <4>1, <4>2 DEF DeletePost
          <5> QED
            BY <2>0, <5>1, <5>2, ErasedFields DEF TextOf
        <4>3. CASE ~(Parent(i) = p /\ row[i].status # "absent")
          BY <2>0, <2>9, <4>1, <4>3 DEF DeletePost
        <4> QED
          BY <4>2, <4>3
      <3> HIDE DEF S
      <3>4. S \in SUBSET Items /\ \A i \in S : row[i].status = "active"
        BY DEF S
      <3> QED
        BY <2>4, <3>1, <3>2, <3>3, <3>4
    <2>10. ASSUME NEW c \in Comments, DeleteComment(c) PROVE Published!PNext \/ Skip
      <3> DEFINE r == Erased(row[c])
      <3>1. row' = [row EXCEPT ![c] = r] /\ c \in Items /\ row[c] \in Row
        BY <2>0, <2>10 DEF DeleteComment
      <3>a. r \in Row /\ r.status = "deleted" /\ r.cached = NoText
        BY <3>1, ErasedType, ErasedFields
      <3> HIDE DEF r
      <3>2. CASE row[c].status = "active"
        <4>1. /\ {c} \in SUBSET Items /\ row' \in [Items -> Row]
              /\ row'[c] = r /\ \A i \in Items \ {c} : row'[i] = row[i]
          BY <2>0, <3>1, <3>a
        <4> QED
          BY <2>4, <3>2, <3>a, <4>1
      <3>3. CASE row[c].status # "active"
        <4>1. row[c].status = "deleted" /\ row[c].cached = NoText
          BY <2>0, <2>10, <3>3 DEF DeleteComment, Row, ReadersSafe, CachedIsCurrent, Active
        <4> QED
          <5>1. TextOf(r) = TextOf(row[c]) /\ r.cached = row[c].cached
            BY <3>1, <3>a, <4>1, TextOfRow
          <5>2. /\ TextOf(r) = TextOf(row[c]) => ReaderText' = ReaderText
                /\ r.cached = row[c].cached => ReaderOffered' = ReaderOffered
            BY <2>0, <3>1, <3>a, ViewOfStep
          <5> QED
            BY <5>1, <5>2
      <3> QED
        BY <3>2, <3>3
    <2>11. ASSUME NEW w \in Runs, NEW i \in Items, Claim(w, i) PROVE Skip
      <3>1. CASE UNCHANGED row
        BY <3>1 DEF ReaderText, ReaderOffered
      <3>2. CASE Claimable(i, run[w].now) /\ row' = [row EXCEPT ![i] = Claimed(@, run[w].now)]
        <4> DEFINE r == Claimed(row[i], run[w].now)
        <4>1. r \in Row /\ r.status = row[i].status /\ r.src = row[i].src
              /\ r.cached = row[i].cached
          BY <2>0, <3>2, ClaimedType, ClaimedFields DEF Claimable
        <4>2. TextOf(r) = TextOf(row[i])
          BY <4>1 DEF TextOf
        <4> QED
          BY <2>0, <3>2, <4>1, <4>2, ViewOfStep
      <3> QED
        BY <2>11, <3>1, <3>2 DEF Claim
    <2>12. ASSUME NEW w \in Runs, CompleteTranslation(w) PROVE Published!PNext \/ Skip
      <3> DEFINE i == job[w].item
                 r == Completed(row[i], job[w])
      <3>1. job[w] \in Job /\ i \in Items
        BY <2>0, <2>12 DEF CompleteTranslation
      <3>2. CASE UNCHANGED row
        BY <3>2 DEF ReaderText, ReaderOffered
      <3>3. CASE Holds(w) /\ row' = [row EXCEPT ![i] = r]
        <4>1. row[i].status = "active" /\ r \in Row /\ r.status = row[i].status
              /\ r.src = row[i].src /\ (r.cached = row[i].cached \/ r.cached = row[i].src)
          BY <2>0, <3>1, <3>3, CompletedType, CompletedFields DEF Holds, Active
        <4>2. TextOf(r) = TextOf(row[i]) /\ TextOf(r) = row[i].src
              /\ TextOf(row[i]) \in Sources
          BY <2>0, <3>1, <4>1, TextOfRow
        <4>3. CASE r.cached = row[i].cached
          BY <2>0, <3>1, <3>3, <4>1, <4>2, <4>3, ViewOfStep
        <4>4. CASE r.cached = row[i].src
          <5> HIDE DEF i, r
          <5>1. /\ ReaderText' = ReaderText
                /\ ReaderOffered' = [ReaderOffered EXCEPT ![i] = ReaderText[i]]
                /\ ReaderText[i] \in Sources
            <6>1. /\ TextOf(r) = TextOf(row[i]) => ReaderText' = ReaderText
                  /\ ReaderOffered' = [ReaderOffered EXCEPT ![i] = r.cached]
              BY <2>0, <3>1, <3>3, <4>1, ViewOfStep
            <6> QED
              BY <2>1, <3>1, <4>2, <4>4, <6>1
          <5>2. Published!Offer(i)
            BY <5>1 DEF Published!Offer
          <5> QED
            BY <3>1, <5>2 DEF Published!PNext
        <4> QED
          BY <4>1, <4>3, <4>4
      <3> QED
        BY <2>12, <3>2, <3>3 DEF CompleteTranslation
    <2>13. ASSUME NEW w \in Runs, FailTranslation(w) PROVE Skip
      <3> DEFINE i == job[w].item
                 r == Failed(row[i], job[w], run[w].now)
      <3>1. job[w] \in Job /\ i \in Items
        BY <2>0, <2>13 DEF FailTranslation
      <3>2. CASE UNCHANGED row
        BY <3>2 DEF ReaderText, ReaderOffered
      <3>3. CASE row' = [row EXCEPT ![i] = r]
        <4>1. r \in Row /\ r.status = row[i].status /\ r.src = row[i].src
              /\ r.cached = row[i].cached
          <5>1. row[i] \in Row /\ run[w].now \in Nat
            BY <2>0, <3>1
          <5> QED
            BY ONLY <3>1, <5>1, FailedType, FailedFields
        <4>2. TextOf(r) = TextOf(row[i])
          BY <4>1 DEF TextOf
        <4> QED
          BY <2>0, <3>1, <3>3, <4>1, <4>2, ViewOfStep
      <3> QED
        BY <2>13, <3>2, <3>3 DEF FailTranslation
    <2>14. ASSUME \/ \E p \in Posts, s \in Sources : BeginUpdatePost(p, s)
                  \/ \E w \in Runs : StartRun(w) \/ ListComments(w) \/ EndRun(w)
                  \/ Crash \/ Tick \/ UNCHANGED vars
           PROVE  Skip
      <3>1. UNCHANGED row
        BY <2>14 DEF BeginUpdatePost, StartRun, ListComments, EndRun, Crash, Tick, vars
      <3> QED
        BY <3>1 DEF ReaderText, ReaderOffered
    <2> QED
      BY <2>5, <2>6, <2>7, <2>8, <2>9, <2>10, <2>11, <2>12, <2>13, <2>14 DEF Next, Author, Worker
  <1> QED
    BY <1>1, <1>2, Typing, TranslationsAreCurrent, PTL
    DEF Spec, ReadersSafe, PublishedSpec, Published!PSpec
-------------------------------------------------------------------------------
(* Runs hold claims only while they work, and never on a row whose edit    *)
(* window was open when the run started.                                   *)
THEOREM ClaimsOrdered == Spec => []ClaimsInOrder
  <1> USE DEF ClaimsInOrder
  <1>1. Init => ClaimsInOrder
    BY DEF Init, NoRow, IdleRun
  <1>2. TypeOK /\ ClaimsInOrder /\ [Next]_vars => ClaimsInOrder'
    <2> SUFFICES ASSUME TypeOK, ClaimsInOrder, [Next]_vars PROVE ClaimsInOrder'
      OBVIOUS
    <2>0. /\ row \in [Items -> Row] /\ run \in [Runs -> Run] /\ clock \in Nat
          /\ job \in [Runs -> Job \cup {NoJob}]
          /\ \A p \in Posts : p \in Items
          /\ \A c \in Comments : c \in Items
          /\ \A w \in Runs : job[w] # NoJob => job[w] \in Job /\ job[w].item \in Items
          /\ \A w \in Runs : run[w].now \in Nat
          /\ \A i \in Items : row[i].editable \in Nat /\ row[i].after \in Nat
      BY DEF TypeOK, Items, Job, Run, Row
    (* Rows that stay published keep their deadline.                       *)
    <2> DEFINE Steady(i, r) ==
          /\ r.status = "absent" => row[i].status = "absent"
          /\ r.editable <= r.after
          /\ row[i].status # "absent" => r.editable = row[i].editable
    <2>1. ASSUME NEW i \in Items, NEW r \in Row, row' = [row EXCEPT ![i] = r], Steady(i, r),
                 UNCHANGED <<clock, run>>, \A w \in Runs : job'[w] = job[w] \/ job'[w] = NoJob
          PROVE  ClaimsInOrder'
      <3>1. \A k \in Items : k # i => row'[k] = row[k]
        BY <2>0, <2>1
      <3>2. row'[i] = r
        BY <2>0, <2>1
      <3>3. \A w \in Runs : job'[w] # NoJob => row'[job'[w].item].status # "absent"
                                             /\ row'[job'[w].item].editable <= run[w].now
        BY <2>0, <2>1, <3>1, <3>2
      <3> QED
        BY <2>0, <2>1, <3>1, <3>2, <3>3
    <2> HIDE DEF Steady
    <2>2. ASSUME UNCHANGED <<clock, row, run>>,
                 \A w \in Runs : job'[w] = job[w] \/ job'[w] = NoJob
          PROVE  ClaimsInOrder'
      BY <2>2
    <2>3. ASSUME NEW i \in Items, NEW s \in Sources, row[i].status = "absent",
                 row' = [row EXCEPT ![i] = Fresh(s)], UNCHANGED <<clock, run, job>>
          PROVE  ClaimsInOrder'
      <3>1. Fresh(s) \in Row /\ Steady(i, Fresh(s))
        <4>1. Fresh(s) \in Row
          BY <2>0, FreshType
        <4>2. Fresh(s).editable \in Nat
          BY <4>1 DEF Row
        <4> QED
          BY <2>3, <4>1, <4>2, FreshFields DEF Steady
      <3> QED
        BY <2>1, <2>3, <3>1
    <2>4. ASSUME NEW i \in Items, NEW s \in Sources,
                 row' = [row EXCEPT ![i] = Rewritten(@, s)], UNCHANGED <<clock, run, job>>
          PROVE  ClaimsInOrder'
      <3>1. Rewritten(row[i], s) \in Row /\ Steady(i, Rewritten(row[i], s))
        BY <2>0, RewrittenType, RewrittenFields DEF Steady
      <3> QED
        BY <2>1, <2>4, <3>1
    <2>5. ASSUME NEW p \in Posts, DeletePost(p) \/ \E s \in Sources : CreatePost(p, s)
          PROVE  ClaimsInOrder'
      <3>1. CASE DeletePost(p)
        <4>1. \A i \in Items : row'[i].editable = row[i].editable /\ row'[i].after = row[i].after
                               /\ (row'[i].status = "absent" => row[i].status = "absent")
          <5> SUFFICES ASSUME NEW i \in Items
                       PROVE  row'[i].editable = row[i].editable /\ row'[i].after = row[i].after
                              /\ (row'[i].status = "absent" => row[i].status = "absent")
            OBVIOUS
          <5>1. CASE i = p
            <6>1. row'[p] = [row[p] EXCEPT !.status = "deleted", !.started = NoTime,
                                           !.cached = NoText]
              BY <2>0, <3>1 DEF DeletePost
            <6> QED
              BY <2>0, <5>1, <6>1 DEF Row
          <5>2. CASE i # p /\ Parent(i) = p /\ row[i].status # "absent"
            BY <2>0, <3>1, <5>2, ErasedFields DEF DeletePost
          <5>3. CASE i # p /\ ~(Parent(i) = p /\ row[i].status # "absent")
            BY <2>0, <3>1, <5>3 DEF DeletePost
          <5> QED
            BY <5>1, <5>2, <5>3
        <4> QED
          BY <2>0, <3>1, <4>1 DEF DeletePost
      <3>2. ASSUME NEW s \in Sources, CreatePost(p, s) PROVE ClaimsInOrder'
        BY <2>0, <2>3, <3>2 DEF CreatePost
      <3> QED
        BY <2>5, <3>1, <3>2
    <2>6. ASSUME NEW q \in pending, UpdatePost(q) PROVE ClaimsInOrder'
      <3>1. q.post \in Items /\ q.src \in Sources
        BY DEF TypeOK, Request, Items
      <3> QED
        BY <2>2, <2>4, <2>6, <3>1 DEF UpdatePost
    <2>7. ASSUME NEW c \in Comments, NEW s \in Sources, CreateComment(c, s) \/ UpdateComment(c, s)
          PROVE  ClaimsInOrder'
      BY <2>0, <2>3, <2>4, <2>7 DEF CreateComment, UpdateComment
    <2>8. ASSUME NEW c \in Comments, DeleteComment(c) PROVE ClaimsInOrder'
      <3>1. Erased(row[c]) \in Row /\ Steady(c, Erased(row[c]))
        BY <2>0, ErasedType, ErasedFields DEF Steady
      <3> QED
        BY <2>0, <2>1, <2>8, <3>1 DEF DeleteComment
    <2>9. ASSUME NEW w \in Runs, StartRun(w) PROVE ClaimsInOrder'
      <3>1. PICK B : run' = [run EXCEPT ![w] = [phase |-> "posts", now |-> clock, todo |-> B]]
        BY <2>9 DEF StartRun
      <3>2. job[w] = NoJob /\ UNCHANGED <<clock, row, job>>
        BY <2>9 DEF StartRun
      <3>3. \A v \in Runs : v # w => run'[v] = run[v]
        BY <2>0, <3>1
      <3>4. run'[w].now = clock /\ run'[w].phase = "posts"
        BY <2>0, <3>1
      <3>5. \A v \in Runs : /\ run'[v].now <= clock'
                            /\ run'[v].phase = "idle" => run'[v].todo = {} /\ job'[v] = NoJob
        BY <2>0, <3>2, <3>3, <3>4
      <3>6. \A v \in Runs : job'[v] # NoJob => v # w /\ run'[v] = run[v]
        BY <3>2, <3>3
      <3> QED
        BY <2>0, <3>2, <3>5, <3>6
    <2>10. ASSUME NEW w \in Runs, ListComments(w) PROVE ClaimsInOrder'
      <3>1. PICK B : run' = [run EXCEPT ![w].phase = "comments", ![w].todo = B]
        BY <2>10 DEF ListComments
      <3>2. UNCHANGED <<clock, row, job>>
        BY <2>10 DEF ListComments
      <3>3. \A v \in Runs : v # w => run'[v] = run[v]
        BY <2>0, <3>1
      <3>4. run'[w].now = run[w].now /\ run'[w].phase = "comments"
        BY <2>0, <3>1 DEF Run
      <3> QED
        BY <2>0, <3>2, <3>3, <3>4
    <2>11. ASSUME NEW w \in Runs, EndRun(w) PROVE ClaimsInOrder'
      <3>1. job[w] = NoJob /\ UNCHANGED <<clock, row, job>> /\ run' = [run EXCEPT ![w] = IdleRun]
        BY <2>11 DEF EndRun
      <3>2. \A v \in Runs : v # w => run'[v] = run[v]
        BY <2>0, <3>1
      <3>3. run'[w].now = 0 /\ run'[w].todo = {}
        BY <2>0, <3>1 DEF IdleRun
      <3> QED
        BY <2>0, <3>1, <3>2, <3>3
    <2>12. ASSUME NEW w \in Runs, NEW i \in Items, Claim(w, i) PROVE ClaimsInOrder'
      <3>1. /\ \A v \in Runs : run'[v].now = run[v].now /\ run'[v].phase = run[v].phase
            /\ \A v \in Runs : run'[v].phase = "idle" => v # w /\ run'[v] = run[v]
        BY <2>0, <2>12 DEF Claim, Run
      <3>2. CASE UNCHANGED <<job, row>>
        BY <2>0, <2>12, <3>1, <3>2 DEF Claim
      <3>3. CASE /\ Claimable(i, run[w].now)
                 /\ row' = [row EXCEPT ![i] = Claimed(@, run[w].now)]
                 /\ job' = [job EXCEPT ![w] = [item |-> i, src |-> row[i].src,
                                              attempt |-> row[i].attempts + 1]]
        <4>1. /\ row[i].status = "active" /\ row[i].after <= run[w].now
              /\ row[i].editable <= run[w].now
          BY <2>0, <3>3 DEF Claimable, Active
        <4>2. \A k \in Items : /\ row'[k].status = row[k].status
                               /\ row'[k].editable = row[k].editable /\ row'[k].after = row[k].after
          BY <2>0, <3>3, ClaimedFields
        <4>3. \A v \in Runs : v # w => job'[v] = job[v]
          BY <2>0, <3>3
        <4>4. job'[w].item = i
          BY <2>0, <3>3
        <4>5. UNCHANGED clock /\ \A v \in Runs : run'[v].now <= clock'
          BY <2>0, <2>12, <3>1 DEF Claim
        <4>6. ASSUME NEW v \in Runs, run'[v].phase = "idle"
              PROVE  run'[v].todo = {} /\ job'[v] = NoJob
          <5>1. v # w /\ run'[v] = run[v] /\ job'[v] = job[v]
            BY <3>1, <4>3, <4>6
          <5> QED
            BY <4>6, <5>1
        <4>7. \A k \in Items : row'[k].editable <= row'[k].after
          BY <2>0, <4>2
        <4>8. ASSUME NEW v \in Runs, job'[v] # NoJob
              PROVE  /\ row'[job'[v].item].status # "absent"
                     /\ row'[job'[v].item].editable <= run'[v].now
          <5>1. CASE v = w
            <6>1. job'[v].item = i /\ i \in Items /\ run'[v].now = run[w].now
              BY <3>1, <4>4, <5>1
            <6> QED
              BY <4>1, <4>2, <6>1
          <5>2. CASE v # w
            <6>1. job'[v] = job[v] /\ job[v] \in Job /\ job[v].item \in Items
              BY <2>0, <4>3, <4>8, <5>2 DEF Job
            <6>2. /\ row[job[v].item].status # "absent"
                  /\ row[job[v].item].editable <= run[v].now
              BY <4>8, <6>1
            <6>3. run'[v].now = run[v].now
              BY <3>1, SMTT(30)
            <6> QED
              BY <4>2, <6>1, <6>2, <6>3
          <5> QED
            BY <5>1, <5>2
        <4> QED
          BY ONLY <4>5, <4>6, <4>7, <4>8 DEF ClaimsInOrder
      <3> QED
        BY <2>12, <3>2, <3>3 DEF Claim
    <2>13. ASSUME NEW w \in Runs, CompleteTranslation(w) PROVE ClaimsInOrder'
      <3> DEFINE i == job[w].item
                 r == Completed(row[i], job[w])
      <3>1. /\ job[w] \in Job /\ i \in Items /\ row[i] \in Row /\ UNCHANGED <<clock, run>>
            /\ \A v \in Runs : job'[v] = job[v] \/ job'[v] = NoJob
        BY <2>0, <2>13 DEF CompleteTranslation
      <3>2. r \in Row /\ Steady(i, r)
        BY <2>0, <3>1, CompletedType, CompletedFields DEF Steady
      <3> QED
        BY <2>1, <2>2, <2>13, <3>1, <3>2 DEF CompleteTranslation
    <2>14. ASSUME NEW w \in Runs, FailTranslation(w) PROVE ClaimsInOrder'
      <3> DEFINE i == job[w].item
                 r == Failed(row[i], job[w], run[w].now)
      <3>1. /\ job[w] \in Job /\ i \in Items /\ row[i] \in Row /\ UNCHANGED <<clock, run>>
            /\ \A v \in Runs : job'[v] = job[v] \/ job'[v] = NoJob
            /\ row[i].editable <= run[w].now
        BY <2>0, <2>14 DEF FailTranslation
      <3>2. r \in Row
        BY <2>0, <3>1, FailedType
      <3>3. Steady(i, r)
        <4>1. r.after \in Nat
          BY <3>2 DEF Row
        <4>2. r.status = row[i].status /\ r.editable = row[i].editable
              /\ (r.after = row[i].after \/ r.after >= run[w].now)
          BY <2>0, <3>1, FailedFields
        <4> QED
          BY <2>0, <3>1, <4>1, <4>2 DEF Steady
      <3> HIDE DEF i, r
      <3>4. row' = [row EXCEPT ![i] = r] \/ row' = row
        BY <2>14 DEF FailTranslation, i, r
      <3> QED
        BY <2>1, <2>2, <3>1, <3>2, <3>3, <3>4
    <2>15. CASE Crash
      BY <2>0, <2>15 DEF Crash, IdleRun
    <2>16. CASE Tick
      BY <2>0, <2>16 DEF Tick
    <2>17. ASSUME NEW p \in Posts, NEW s \in Sources, BeginUpdatePost(p, s) PROVE ClaimsInOrder'
      BY <2>2, <2>17 DEF BeginUpdatePost
    <2>18. CASE UNCHANGED vars
      BY <2>2, <2>18 DEF vars
    <2> QED
      BY <2>5, <2>6, <2>7, <2>8, <2>9, <2>10, <2>11, <2>12, <2>13, <2>14, <2>15, <2>16, <2>17,
         <2>18 DEF Next, Author, Worker
  <1> QED
    BY <1>1, <1>2, Typing, PTL DEF Spec

(* The attempts of a comment count the provider calls about its text, and  *)
(* every claim on it is on that text.                                      *)
THEOREM CommentClaimsHold == Spec => []CommentClaims
  <1> DEFINE Good(c, r, n) ==
        /\ r.status = "absent" => n = 0
        /\ r.status = "active" => r.hash = r.src /\ n = r.attempts
        /\ n <= MaxAttempts
  <1>1. Init => CommentClaims
    BY DEF Init, CommentClaims, NoRow, Items
  <1>2. TypeOK /\ ClaimsInOrder /\ CommentClaims /\ [Next]_vars => CommentClaims'
    <2> SUFFICES ASSUME TypeOK, ClaimsInOrder, CommentClaims, [Next]_vars PROVE CommentClaims'
      OBVIOUS
    <2>0. /\ row \in [Items -> Row] /\ run \in [Runs -> Run] /\ clock \in Nat
          /\ job \in [Runs -> Job \cup {NoJob}] /\ calls \in [Items -> Nat]
          /\ \A p \in Posts : p \in Items /\ p \notin Comments
          /\ \A c \in Comments : c \in Items
          /\ \A w \in Runs : job[w] # NoJob => job[w] \in Job /\ job[w].item \in Items
          /\ \A w \in Runs : run[w].now \in Nat
          /\ \A i \in Items : row[i].attempts \in Nat /\ row[i].editable \in Nat
      BY DEF TypeOK, Items, Job, Run, Row
    (* A step that adds no claim and leaves the texts of the claimed alone. *)
    <2>1. ASSUME \A w \in Runs : job'[w] = job[w] \/ job'[w] = NoJob,
                 \A c \in Comments :
                    \/ /\ row'[c] = row[c] /\ calls'[c] = calls[c]
                    \/ /\ Good(c, row'[c], calls'[c])
                       /\ \/ row'[c].status # "active"
                          \/ row'[c].src = row[c].src /\ row[c].status = "active"
                          \/ \A w \in Runs : job[w] # NoJob => job[w].item # c
          PROVE  CommentClaims'
      <3> SUFFICES ASSUME NEW c \in Comments
                   PROVE  /\ Good(c, row'[c], calls'[c])
                          /\ row'[c].status = "active" =>
                               \A w \in Runs : job'[w] # NoJob /\ job'[w].item = c
                                               => job'[w].src = row'[c].src
        BY DEF CommentClaims
      <3>1. CASE row'[c] = row[c] /\ calls'[c] = calls[c]
        BY <2>1, <3>1 DEF CommentClaims
      <3>2. CASE ~(row'[c] = row[c] /\ calls'[c] = calls[c])
        BY <2>1, <3>2 DEF CommentClaims
      <3> QED
        BY <3>1, <3>2
    <2>2. ASSUME UNCHANGED <<row, calls>>, \A w \in Runs : job'[w] = job[w] \/ job'[w] = NoJob
          PROVE  CommentClaims'
      BY <2>1, <2>2
    <2> HIDE DEF Good
    <2>3. ASSUME NEW p \in Posts, NEW s \in Sources, CreatePost(p, s) PROVE CommentClaims'
      BY <2>0, <2>1, <2>3 DEF CreatePost
    <2>4. ASSUME NEW q \in pending, UpdatePost(q) PROVE CommentClaims'
      <3>1. q.post \in Posts
        BY DEF TypeOK, Request
      <3>2. \A c \in Comments : row'[c] = row[c] /\ calls'[c] = calls[c]
        BY <2>0, <2>4, <3>1 DEF UpdatePost
      <3> QED
        BY <2>1, <2>4, <3>2 DEF UpdatePost
    <2>5. ASSUME NEW p \in Posts, DeletePost(p) PROVE CommentClaims'
      <3>1. UNCHANGED <<job, calls>>
        BY <2>5 DEF DeletePost
      <3>2. ASSUME NEW c \in Comments
            PROVE  row'[c] = row[c] \/ row'[c].status = "deleted"
        <4>1. c \in Items /\ c # p /\ row[c] \in Row
          BY <2>0
        <4> QED
          BY <2>0, <2>5, <4>1, ErasedFields DEF DeletePost
      <3>3. \A c \in Comments : calls[c] <= MaxAttempts
        BY DEF CommentClaims
      <3> QED
        BY <2>1, <3>1, <3>2, <3>3 DEF Good
    <2>6. ASSUME NEW c \in Comments, NEW s \in Sources, CreateComment(c, s) PROVE CommentClaims'
      <3>1. /\ row' = [row EXCEPT ![c] = Fresh(s)] /\ row[c].status = "absent" /\ c \in Items
            /\ UNCHANGED <<job, calls>>
        BY <2>0, <2>6 DEF CreateComment
      <3>2. calls[c] = 0 /\ \A w \in Runs : job[w] # NoJob => job[w].item # c
        BY <3>1 DEF CommentClaims, ClaimsInOrder
      <3>3. row'[c] = Fresh(s) /\ \A k \in Comments : k # c => row'[k] = row[k]
        BY <2>0, <3>1
      <3>4. Good(c, row'[c], calls'[c])
        BY <3>1, <3>2, <3>3, FreshFields DEF Good
      <3> QED
        BY <2>1, <3>1, <3>2, <3>3, <3>4
    <2>7. ASSUME NEW c \in Comments, NEW s \in Sources, UpdateComment(c, s) PROVE CommentClaims'
      <3>1. /\ row' = [row EXCEPT ![c] = Rewritten(@, s)] /\ clock < row[c].editable
            /\ c \in Items /\ calls' = [calls EXCEPT ![c] = 0] /\ UNCHANGED job
            /\ row[c].status = "active"
        BY <2>0, <2>7 DEF UpdateComment, Active
      <3>2. \A w \in Runs : job[w] # NoJob => job[w].item # c
        BY <2>0, <3>1 DEF ClaimsInOrder
      <3>3. row'[c] = Rewritten(row[c], s) /\ calls'[c] = 0
            /\ \A k \in Comments : k # c => row'[k] = row[k] /\ calls'[k] = calls[k]
        BY <2>0, <3>1
      <3>4. Good(c, row'[c], calls'[c])
        BY <2>0, <3>1, <3>3, RewrittenFields DEF Good
      <3> QED
        BY <2>1, <3>1, <3>2, <3>3, <3>4
    <2>8. ASSUME NEW c \in Comments, DeleteComment(c) PROVE CommentClaims'
      <3>1. /\ row' = [row EXCEPT ![c] = Erased(@)] /\ c \in Items /\ UNCHANGED <<job, calls>>
        BY <2>0, <2>8 DEF DeleteComment
      <3>2. row'[c].status = "deleted" /\ \A k \in Comments : k # c => row'[k] = row[k]
        BY <2>0, <3>1, ErasedFields
      <3>3. Good(c, row'[c], calls'[c])
        BY <3>1, <3>2 DEF Good, CommentClaims
      <3> QED
        BY <2>1, <3>1, <3>2, <3>3
    <2>9. ASSUME NEW w \in Runs, NEW i \in Items, Claim(w, i) PROVE CommentClaims'
      <3>1. CASE UNCHANGED <<job, row, calls>>
        BY <2>2, <3>1
      <3>2. CASE /\ Claimable(i, run[w].now)
                 /\ row' = [row EXCEPT ![i] = Claimed(@, run[w].now)]
                 /\ job' = [job EXCEPT ![w] = [item |-> i, src |-> row[i].src,
                                              attempt |-> row[i].attempts + 1]]
                 /\ calls' = [calls EXCEPT ![i] = @ + 1]
        <4> SUFFICES ASSUME NEW c \in Comments
                     PROVE  /\ Good(c, row'[c], calls'[c])
                            /\ row'[c].status = "active" =>
                                 \A v \in Runs : job'[v] # NoJob /\ job'[v].item = c
                                                 => job'[v].src = row'[c].src
          BY DEF CommentClaims, Good
        <4>1. /\ job'[w].item = i /\ job'[w].src = row[i].src
              /\ \A v \in Runs : v # w => job'[v] = job[v]
          BY <2>0, <3>2
        <4>2. CASE c # i
          <5>1. row'[c] = row[c] /\ calls'[c] = calls[c]
            BY <2>0, <3>2, <4>2
          <5> QED
            BY <4>1, <4>2, <5>1 DEF Good, CommentClaims
        <4>3. CASE c = i
          <5>1. row'[c] = Claimed(row[c], run[w].now) /\ calls'[c] = calls[c] + 1
            BY <2>0, <3>2, <4>3
          <5>2. /\ row'[c].status = "active" /\ row'[c].src = row[c].src
                /\ row'[c].hash = row[c].src /\ row'[c].attempts = row[c].attempts + 1
                /\ row[c].attempts < MaxAttempts /\ row[c].status = "active"
            BY <2>0, <3>2, <4>3, <5>1, ClaimedFields, SMTT(30) DEF Claimable, Active
          <5>3. Good(c, row'[c], calls'[c])
            BY <2>0, <5>1, <5>2 DEF Good, CommentClaims
          <5> QED
            BY <4>1, <4>3, <5>2, <5>3 DEF CommentClaims
        <4> QED
          BY <4>2, <4>3
      <3> QED
        BY <2>9, <3>1, <3>2 DEF Claim
    (* An answer about a comment meets the text it was asked for.          *)
    <2>10. ASSUME NEW w \in Runs, NEW r \in Row, job[w] # NoJob, UNCHANGED calls,
                  row' = [row EXCEPT ![job[w].item] = r], job' = [job EXCEPT ![w] = NoJob],
                  r.status = row[job[w].item].status, r.src = row[job[w].item].src,
                  r.hash = row[job[w].item].hash,
                  job[w].item \in Comments /\ r.status = "active"
                     => r.attempts = row[job[w].item].attempts
           PROVE  CommentClaims'
      <3> DEFINE i == job[w].item
      <3>1. /\ i \in Items /\ row'[i] = r /\ \A v \in Runs : job'[v] = job[v] \/ job'[v] = NoJob
            /\ \A c \in Comments : c # i => row'[c] = row[c]
        BY <2>0, <2>10
      <3>2. i \in Comments => Good(i, r, calls[i])
        BY <2>0, <2>10 DEF Good, CommentClaims
      <3>3. i \in Comments => \/ row'[i].status # "active"
                              \/ row'[i].src = row[i].src /\ row[i].status = "active"
        BY <2>10, <3>1
      <3> QED
        BY <2>1, <2>10, <3>1, <3>2, <3>3
    <2>11. ASSUME NEW w \in Runs, CompleteTranslation(w) PROVE CommentClaims'
      <3> DEFINE i == job[w].item
                 r == Completed(row[i], job[w])
      <3>1. /\ job[w] \in Job /\ i \in Items /\ row[i] \in Row /\ job[w] # NoJob /\ UNCHANGED calls
            /\ job' = [job EXCEPT ![w] = NoJob]
        BY <2>0, <2>11 DEF CompleteTranslation
      <3>2. /\ r \in Row /\ r.status = row[i].status /\ r.src = row[i].src /\ r.hash = row[i].hash
        BY <3>1, CompletedType, CompletedFields
      <3>3. i \in Comments /\ r.status = "active" => r.attempts = row[i].attempts
        <4>1. i \in Comments /\ r.status = "active"
                => row[i].src = job[w].src /\ row[i].hash = job[w].src
          BY <3>1, <3>2 DEF CommentClaims
        <4> QED
          BY <3>1, <4>1, CompletedFields
      <3> HIDE DEF r
      <3>4. row' = [row EXCEPT ![i] = r] \/ row' = row
        BY <2>11 DEF CompleteTranslation, r
      <3>5. CASE row' = row
        BY <2>0, <2>2, <3>1, <3>5
      <3> QED
        BY <2>10, <3>1, <3>2, <3>3, <3>4, <3>5
    <2>12. ASSUME NEW w \in Runs, FailTranslation(w) PROVE CommentClaims'
      <3> DEFINE i == job[w].item
                 r == Failed(row[i], job[w], run[w].now)
      <3>1. /\ job[w] \in Job /\ i \in Items /\ row[i] \in Row /\ job[w] # NoJob /\ UNCHANGED calls
            /\ job' = [job EXCEPT ![w] = NoJob] /\ run[w].now \in Nat
        BY <2>0, <2>12 DEF FailTranslation
      <3>2. /\ r \in Row /\ r.status = row[i].status /\ r.src = row[i].src /\ r.hash = row[i].hash
            /\ r.attempts = row[i].attempts
        BY ONLY <3>1, FailedType, FailedFields
      <3> HIDE DEF r
      <3>4. row' = [row EXCEPT ![i] = r] \/ row' = row
        BY <2>12 DEF FailTranslation, r
      <3>5. CASE row' = row
        BY <2>0, <2>2, <3>1, <3>5
      <3> QED
        BY <2>10, <3>1, <3>2, <3>4, <3>5
    <2>13. ASSUME \/ \E p \in Posts, s \in Sources : BeginUpdatePost(p, s)
                  \/ \E w \in Runs : StartRun(w) \/ ListComments(w) \/ EndRun(w)
                  \/ Tick \/ UNCHANGED vars
           PROVE  CommentClaims'
      BY <2>2, <2>13 DEF BeginUpdatePost, StartRun, ListComments, EndRun, Tick, vars
    <2>14. CASE Crash
      BY <2>2, <2>14 DEF Crash
    <2> QED
      BY <2>3, <2>4, <2>5, <2>6, <2>7, <2>8, <2>9, <2>11, <2>12, <2>13, <2>14
      DEF Next, Author, Worker
  <1> QED
    BY <1>1, <1>2, Typing, ClaimsOrdered, PTL DEF Spec

(* The provider is asked at most MaxAttempts times about one text of a     *)
(* comment, however runs overlap, answers come late or the process stops.  *)
THEOREM CommentCalls == Spec => []CommentCallsBounded
  <1>1. CommentClaims => CommentCallsBounded
    BY DEF CommentClaims, CommentCallsBounded
  <1> QED
    BY <1>1, CommentClaimsHold, PTL
-------------------------------------------------------------------------------
(* A row in processing has a lease: who claimed it last says since when.   *)
Leased(r, t) ==
    r.status = "active" /\ r.tstatus = "processing" =>
        r.started # NoTime /\ r.started <= t /\ r.attempts > 0

(* No update but a claim leaves a row in processing.                       *)
LEMMA UnclaimedRows ==
    ASSUME NEW t \in Nat
    PROVE  /\ \A s \in Sources : Leased(Fresh(s), t)
           /\ \A r \in Row :
                /\ \A s \in Sources : Leased(Rewritten(r, s), t)
                /\ Leased(Erased(r), t)
                /\ Leased([r EXCEPT !.status = "deleted", !.started = NoTime, !.cached = NoText], t)
                /\ \A j \in Job : Leased(Completed(r, j), t)
                /\ \A j \in Job, n \in Nat : Leased(Failed(r, j, n), t)
  <1>1. \A s \in Sources : InitialStatus(s) # "processing"
    BY DEF InitialStatus
  <1>2. \A s \in Sources : Leased(Fresh(s), t)
    BY <1>1, FreshFields DEF Leased
  <1>3. ASSUME NEW r \in Row
        PROVE  /\ \A s \in Sources : Leased(Rewritten(r, s), t)
               /\ Leased(Erased(r), t)
               /\ \A j \in Job, n \in Nat : Leased(Failed(r, j, n), t)
    BY <1>1, RewrittenFields, ErasedFields, FailedFields DEF Leased
  <1>4. ASSUME NEW r \in Row, NEW j \in Job PROVE Leased(Completed(r, j), t)
    BY CompletedFields DEF Leased
  <1>5. ASSUME NEW r \in Row
        PROVE  Leased([r EXCEPT !.status = "deleted", !.started = NoTime, !.cached = NoText], t)
    BY DEF Leased, Row
  <1> QED
    BY <1>2, <1>3, <1>4, <1>5

LEMMA ClaimedRow ==
    ASSUME NEW r \in Row, NEW n \in Nat, NEW t \in Nat, n <= t
    PROVE  Leased(Claimed(r, n), t)
  <1>1. /\ Claimed(r, n).started = n /\ Claimed(r, n).attempts = r.attempts + 1
        /\ r.attempts \in Nat
    BY DEF Claimed, Row
  <1> QED
    BY <1>1 DEF Leased, NoTime

AllLeased == \A i \in Items : Leased(row[i], clock)

LEMMA LeasesHold == Spec => []AllLeased
  <1>1. Init => AllLeased
    BY DEF Init, NoRow, Leased, AllLeased
  <1>2. TypeOK /\ ClaimsInOrder /\ AllLeased /\ [Next]_vars => AllLeased'
    <2> SUFFICES ASSUME TypeOK, ClaimsInOrder, AllLeased, [Next]_vars PROVE AllLeased'
      OBVIOUS
    <2>0. /\ row \in [Items -> Row] /\ clock \in Nat
          /\ \A p \in Posts : p \in Items
          /\ \A c \in Comments : c \in Items
          /\ \A q \in pending : q.post \in Items /\ q.src \in Sources
          /\ \A w \in Runs : job[w] # NoJob => job[w] \in Job /\ job[w].item \in Items
          /\ \A w \in Runs : run[w].now \in Nat /\ run[w].now <= clock /\ run[w].todo \subseteq Items
      BY DEF TypeOK, Items, Job, Run, Request, ClaimsInOrder
    <2>1. ASSUME NEW i \in Items, NEW r, Leased(r, clock), row' = [row EXCEPT ![i] = r], UNCHANGED clock
          PROVE  AllLeased'
      BY <2>0, <2>1 DEF AllLeased
    <2>2. ASSUME UNCHANGED row, clock' \in Nat, clock <= clock' PROVE AllLeased'
      <3>1. ASSUME NEW i \in Items PROVE row[i].started \in Int
        BY <2>0 DEF Row, NoTime
      <3> QED
        BY <2>0, <2>2, <3>1 DEF AllLeased, Leased
    <2>3. ASSUME NEW p \in Posts, NEW s \in Sources, CreatePost(p, s) PROVE AllLeased'
      BY <2>0, <2>1, <2>3, UnclaimedRows DEF CreatePost
    <2>4. ASSUME NEW q \in pending, UpdatePost(q) PROVE AllLeased'
      <3>1. CASE UNCHANGED row
        BY <2>0, <2>2, <2>4, <3>1 DEF UpdatePost
      <3>2. CASE row' = [row EXCEPT ![q.post] = Rewritten(row[q.post], q.src)]
        BY <2>0, <2>1, <2>4, <3>2, UnclaimedRows DEF UpdatePost
      <3> QED
        BY <2>4, <3>1, <3>2 DEF UpdatePost
    <2>5. ASSUME NEW p \in Posts, DeletePost(p) PROVE AllLeased'
      <3> SUFFICES ASSUME NEW i \in Items PROVE Leased(row'[i], clock)
        BY <2>5 DEF AllLeased, DeletePost
      <3>1. UNCHANGED clock /\ row[i] \in Row /\ Leased(row[i], clock)
        BY <2>0, <2>5 DEF DeletePost, AllLeased
      <3>2. \/ row'[i] = [row[i] EXCEPT !.status = "deleted", !.started = NoTime, !.cached = NoText]
            \/ row'[i] = Erased(row[i])
            \/ row'[i] = row[i]
        BY <2>5 DEF DeletePost
      <3> QED
        <4>1. CASE row'[i] = row[i]
          BY <3>1, <4>1
        <4>2. Leased(Erased(row[i]), clock)
              /\ Leased([row[i] EXCEPT !.status = "deleted", !.started = NoTime, !.cached = NoText], clock)
          BY <2>0, <3>1, UnclaimedRows
        <4> QED
          BY <3>2, <4>1, <4>2
    <2>6. ASSUME NEW c \in Comments, NEW s \in Sources, CreateComment(c, s) PROVE AllLeased'
      BY <2>0, <2>1, <2>6, UnclaimedRows DEF CreateComment
    <2>7. ASSUME NEW c \in Comments, NEW s \in Sources, UpdateComment(c, s) PROVE AllLeased'
      BY <2>0, <2>1, <2>7, UnclaimedRows DEF UpdateComment
    <2>8. ASSUME NEW c \in Comments, DeleteComment(c) PROVE AllLeased'
      BY <2>0, <2>1, <2>8, UnclaimedRows DEF DeleteComment
    <2>9. ASSUME NEW w \in Runs, NEW i \in Items, Claim(w, i) PROVE AllLeased'
      <3>1. CASE UNCHANGED row
        BY <2>0, <2>2, <2>9, <3>1 DEF Claim
      <3>2. CASE row' = [row EXCEPT ![i] = Claimed(row[i], run[w].now)]
        BY <2>0, <2>1, <2>9, <3>2, ClaimedRow DEF Claim
      <3> QED
        BY <2>9, <3>1, <3>2 DEF Claim
    <2>10. ASSUME NEW w \in Runs, CompleteTranslation(w) \/ FailTranslation(w) PROVE AllLeased'
      <3> DEFINE i == job[w].item
      <3>1. job[w] \in Job /\ i \in Items /\ row[i] \in Row /\ run[w].now \in Nat /\ UNCHANGED clock
        BY <2>0, <2>10 DEF CompleteTranslation, FailTranslation
      <3>2. Leased(Completed(row[i], job[w]), clock) /\ Leased(Failed(row[i], job[w], run[w].now), clock)
        BY <3>1, <2>0, UnclaimedRows
      <3>3. \/ row' = row
            \/ row' = [row EXCEPT ![i] = Completed(row[i], job[w])]
            \/ row' = [row EXCEPT ![i] = Failed(row[i], job[w], run[w].now)]
        BY <2>10 DEF CompleteTranslation, FailTranslation
      <3> HIDE DEF i
      <3>4. CASE row' = row
        BY <2>0, <2>2, <3>1, <3>4
      <3> QED
        BY <2>1, <3>1, <3>2, <3>3, <3>4
    <2>11. ASSUME \/ \E p \in Posts, s \in Sources : BeginUpdatePost(p, s)
                  \/ \E w \in Runs : StartRun(w) \/ ListComments(w) \/ EndRun(w)
                  \/ Crash \/ Tick \/ UNCHANGED vars
           PROVE  AllLeased'
      <3>1. row' = row /\ clock' \in {clock, clock + 1}
        BY <2>11 DEF BeginUpdatePost, StartRun, ListComments, EndRun, Crash, Tick, vars
      <3> QED
        BY <2>0, <2>2, <3>1
    <2> QED
      BY <2>3, <2>4, <2>5, <2>6, <2>7, <2>8, <2>9, <2>10, <2>11 DEF Next, Author, Worker
  <1> QED
    BY <1>1, <1>2, Typing, ClaimsOrdered, PTL DEF Spec

(* The columns of a row agree with each other, with the post's and with    *)
(* the clock: types, no comment without its post, a ready row has what it  *)
(* serves, and a claim nobody works on can be taken back.                  *)
THEOREM RowsStayInAgreement == Spec => []RowsAgree
  <1>1. AllLeased => ProcessingHasLease
    BY DEF AllLeased, Leased, ProcessingHasLease, Active
  <1> QED
    BY <1>1, Typing, TranslationsAreCurrent, LeasesHold, PTL DEF RowsAgree
-------------------------------------------------------------------------------
(* What a step does to one row: nothing, or one of these.  Only a post is  *)
(* rewritten by a request that was pending; only a comment still editable  *)
(* is rewritten at once; only a claimable row is claimed; only a row in    *)
(* processing is completed or failed.                                      *)
Changes(i) ==
    \/ row'[i] = row[i]
    \/ row[i].status = "absent"
    \/ \E q \in pending : i = q.post /\ pending' = pending \ {q}
                          /\ row'[i] = Rewritten(row[i], q.src)
    \/ row'[i] = [row[i] EXCEPT !.status = "deleted", !.started = NoTime, !.cached = NoText]
    \/ row'[i] = Erased(row[i])
    \/ \E s \in Sources : clock < row[i].editable /\ s # row[i].src
                          /\ row'[i] = Rewritten(row[i], s)
    \/ \E n \in Nat : row[i].tstatus # "ready" /\ row'[i] = Claimed(row[i], n)
    \/ /\ row[i].tstatus = "processing"
       /\ \E j \in Job : \/ row'[i] = Completed(row[i], j)
                         \/ \E n \in Nat : row'[i] = Failed(row[i], j, n)

LEMMA RowSteps ==
    ASSUME TypeOK, [Next]_vars, NEW i \in Items
    PROVE  Changes(i)
  <1>0. /\ row \in [Items -> Row]
        /\ \A p \in Posts : p \in Items
        /\ \A c \in Comments : c \in Items
        /\ \A q \in pending : q.post \in Items /\ q.src \in Sources
        /\ \A w \in Runs : job[w] # NoJob => job[w] \in Job /\ job[w].item \in Items
        /\ \A w \in Runs : run[w].now \in Nat /\ run[w].todo \subseteq Items
    BY DEF TypeOK, Items, Job, Run, Request
  <1>1. ASSUME NEW p \in Posts, NEW s \in Sources, CreatePost(p, s) PROVE Changes(i)
    BY <1>0, <1>1 DEF CreatePost, Changes
  <1>2. ASSUME NEW q \in pending, UpdatePost(q) PROVE Changes(i)
    BY <1>0, <1>2 DEF UpdatePost, Changes
  <1>3. ASSUME NEW p \in Posts, DeletePost(p) PROVE Changes(i)
    BY <1>0, <1>3 DEF DeletePost, Changes
  <1>4. ASSUME NEW c \in Comments, NEW s \in Sources, CreateComment(c, s) PROVE Changes(i)
    BY <1>0, <1>4 DEF CreateComment, Changes
  <1>5. ASSUME NEW c \in Comments, NEW s \in Sources, UpdateComment(c, s) PROVE Changes(i)
    BY <1>0, <1>5 DEF UpdateComment, Changes
  <1>6. ASSUME NEW c \in Comments, DeleteComment(c) PROVE Changes(i)
    BY <1>0, <1>6 DEF DeleteComment, Changes
  <1>7. ASSUME NEW w \in Runs, NEW k \in Items, Claim(w, k) PROVE Changes(i)
    <2>1. row'[i] = row[i] \/ (Claimable(i, run[w].now) /\ row'[i] = Claimed(row[i], run[w].now))
      BY <1>0, <1>7 DEF Claim
    <2> QED
      BY <1>0, <2>1 DEF Claimable, Changes
  <1>8. ASSUME NEW w \in Runs, CompleteTranslation(w) PROVE Changes(i)
    <2>1. \/ row'[i] = row[i]
          \/ i = job[w].item /\ Holds(w) /\ row'[i] = Completed(row[i], job[w])
      BY <1>0, <1>8 DEF CompleteTranslation
    <2>2. job[w] \in Job
      BY <1>0, <1>8 DEF CompleteTranslation
    <2> QED
      BY <2>1, <2>2 DEF Holds, Changes
  <1>9. ASSUME NEW w \in Runs, FailTranslation(w) PROVE Changes(i)
    <2>1. \/ row'[i] = row[i]
          \/ i = job[w].item /\ Holds(w) /\ row'[i] = Failed(row[i], job[w], run[w].now)
      BY <1>0, <1>9 DEF FailTranslation
    <2>2. job[w] \in Job /\ run[w].now \in Nat
      BY <1>0, <1>9 DEF FailTranslation
    <2> QED
      BY <2>1, <2>2 DEF Holds, Changes
  <1>10. ASSUME \/ \E p \in Posts, s \in Sources : BeginUpdatePost(p, s)
                \/ \E w \in Runs : StartRun(w) \/ ListComments(w) \/ EndRun(w)
                \/ Crash \/ Tick \/ UNCHANGED vars
         PROVE  Changes(i)
    BY <1>10 DEF BeginUpdatePost, StartRun, ListComments, EndRun, Crash, Tick, vars, Changes
  <1> QED
    BY <1>1, <1>2, <1>3, <1>4, <1>5, <1>6, <1>7, <1>8, <1>9, <1>10 DEF Next, Author, Worker

(* What is settled stays settled: a comment somebody claimed keeps its text*)
(* while it is there, and only its author takes a ready row back.          *)
THEOREM LateAnswers == Spec => LateAnswersChangeNothing
  <1>1. TypeOK /\ ClaimsInOrder /\ [Next]_vars =>
          \A c \in Comments :
             /\ \E w \in Runs : job[w] # NoJob /\ job[w].item = c
             /\ row'[c].status = "active"
             => row'[c].src = row[c].src
    <2> SUFFICES ASSUME TypeOK, ClaimsInOrder, [Next]_vars, NEW c \in Comments, NEW w \in Runs,
                        job[w] # NoJob, job[w].item = c, row'[c].status = "active"
                 PROVE  row'[c].src = row[c].src
      OBVIOUS
    <2>1. /\ c \in Items /\ c \notin Posts /\ row[c] \in Row /\ clock \in Nat /\ run[w].now \in Nat
          /\ \A q \in pending : q.post # c
      BY DEF TypeOK, Items, Run, Request
    <2>2. row[c].status # "absent" /\ row[c].editable <= clock /\ row[c].editable \in Nat
      BY <2>1 DEF ClaimsInOrder, Row
    <2>3. Changes(c)
      BY <2>1, RowSteps
    <2>4. CASE row'[c] = row[c]
      BY <2>4
    <2>5. CASE row'[c] = [row[c] EXCEPT !.status = "deleted", !.started = NoTime, !.cached = NoText]
      BY <2>1, <2>5 DEF Row
    <2>6. CASE row'[c] = Erased(row[c])
      BY <2>1, <2>6, ErasedFields
    <2>7. CASE \E n \in Nat : row'[c] = Claimed(row[c], n)
      BY <2>1, <2>7, ClaimedFields
    <2>8. CASE \E j \in Job : row'[c] = Completed(row[c], j) \/ \E n \in Nat : row'[c] = Failed(row[c], j, n)
      BY <2>1, <2>8, CompletedFields, FailedFields
    <2> QED
      BY <2>1, <2>2, <2>3, <2>4, <2>5, <2>6, <2>7, <2>8 DEF Changes
  <1>2. TypeOK /\ [Next]_vars =>
          \A i \in Items :
             /\ row[i].status = "active" /\ row[i].tstatus = "ready"
             /\ row'[i].tstatus # "ready"
             => row'[i].src # row[i].src \/ (pending' # pending /\ i \in Posts)
    <2> SUFFICES ASSUME TypeOK, [Next]_vars, NEW i \in Items,
                        row[i].status = "active", row[i].tstatus = "ready", row'[i].tstatus # "ready"
                 PROVE  row'[i].src # row[i].src \/ (pending' # pending /\ i \in Posts)
      OBVIOUS
    <2>1. row[i] \in Row /\ \A q \in pending : q.post \in Posts
      BY DEF TypeOK, Request
    <2>2. Changes(i)
      BY RowSteps
    <2>3. row'[i] # [row[i] EXCEPT !.status = "deleted", !.started = NoTime, !.cached = NoText]
      BY <2>1 DEF Row
    <2>4. row'[i] # Erased(row[i])
      BY <2>1 DEF Row, Erased
    <2>5. ASSUME NEW s \in Sources, s # row[i].src, row'[i] = Rewritten(row[i], s)
          PROVE  row'[i].src # row[i].src
      BY <2>1, <2>5, RewrittenFields
    <2> QED
      BY <2>1, <2>2, <2>3, <2>4, <2>5 DEF Changes
  <1> QED
    BY <1>1, <1>2, Typing, ClaimsOrdered, PTL
    DEF Spec, LateAnswersChangeNothing, CommentTextFinal, ReadyIsStable

-------------------------------------------------------------------------------
(* The snapshot of the arcades.                                            *)

HIDE ItemsAssumption DEF ItemsAssumption
HIDE LimitsAssumption DEF LimitsAssumption
USE CandidatesAssumption DEF CandidatesAssumption

(* The commits whose hooks raised the generation are finitely many.        *)
LEMMA RaisedFinite ==
    ASSUME writes \in 0..MaxWrites
    PROVE  IsFiniteSet(Raised) /\ Cardinality(Raised) \in 0..writes
  <1>1. IsFiniteSet(1..writes) /\ Cardinality(1..writes) = writes
    BY FS_Interval
  <1>2. Raised \subseteq 1..writes
    BY DEF Raised
  <1>3. IsFiniteSet(Raised) /\ Cardinality(Raised) <= Cardinality(1..writes)
    BY <1>1, <1>2, FS_Subset
  <1>4. Cardinality(Raised) \in Nat
    BY <1>3, FS_CardinalityType
  <1> QED
    BY <1>1, <1>3, <1>4

(* At first nothing was committed.                                         *)
LEMMA CandidatesInitially ==
    CandidatesInit => CandidatesInv
  <1> SUFFICES ASSUME CandidatesInit PROVE CandidatesInv
    OBVIOUS
  <1>1. Raised = {}
    BY DEF CandidatesInit, Raised
  <1>2. Cardinality(Raised) = 0
    BY <1>1, FS_EmptySet
  <1>3. NoRequest \in Requests /\ NoRequest.gen = 0 /\ NoRequest.got = Nothing /\ NoRequest.pc = "idle"
    BY DEF NoRequest, Requests, Gens
  <1>4. writes \in 0..MaxWrites /\ gen \in Gens
    BY DEF CandidatesInit, Gens
  <1> QED
    BY <1>1, <1>2, <1>3, <1>4 DEF CandidatesInit, CandidatesInv, CommitsCounted, HooksApart, CacheSound, BuildsSound, RequestsSound

(* What a commit does to the hooks: its own has still to raise the         *)
(* generation, the others are where they were.                             *)
LEMMA CommitRaises ==
    ASSUME CandidatesInv, NEW w \in Writers, NEW h \in Halls, NEW look \in Looks, Commit(w, h, look)
    PROVE  Raised' = Raised
  <1>1. \A v \in Writers : hook'[v] = IF v = w THEN [commit |-> writes + 1, pc |-> "raise"] ELSE hook[v]
    BY DEF CandidatesInv, CommitsCounted, HooksApart, Commit
  <1>2. writes \in Nat /\ writes' = writes + 1 /\ hook[w] = Nothing
    BY DEF CandidatesInv, CommitsCounted, HooksApart, Commit
  <1>3. ASSUME NEW c \in 1..writes PROVE c \in Raised' <=> c \in Raised
    <2>1. c \in 1..writes' /\ c # writes + 1 /\ c \in 1..MaxWrites
      BY <1>2 DEF CandidatesInv, CommitsCounted, HooksApart
    <2>2. hook'[w] # [commit |-> c, pc |-> "raise"]
      BY <1>1, <2>1
    <2>3. [commit |-> c, pc |-> "raise"] \in Hooks
      BY <2>1 DEF Hooks
    <2>4. hook[w] # [commit |-> c, pc |-> "raise"]
      BY <1>2, <2>3
    <2> QED
      BY <1>1, <2>1, <2>2, <2>4 DEF Raised
  <1>4. writes + 1 \notin Raised'
    BY <1>1 DEF Raised
  <1>5. Raised \subseteq 1..writes /\ Raised' \subseteq 1..(writes + 1)
    BY <1>2 DEF Raised
  <1>6. Raised' \subseteq 1..writes
    <2>1. \A c \in 1..(writes + 1) : c # writes + 1 => c \in 1..writes
      BY <1>2
    <2> QED
      BY <1>4, <1>5, <2>1
  <1> QED
    BY <1>3, <1>5, <1>6

(* A hook that raises the generation adds its commit, and no other.        *)
LEMMA RaiseRaises ==
    ASSUME CandidatesInv, NEW w \in Writers, Raise(w)
    PROVE  /\ hook[w].commit \in 1..writes /\ hook[w].commit \notin Raised
           /\ Raised' = Raised \cup {hook[w].commit}
  <1> DEFINE c == hook[w].commit
  <1>1. hook[w] \in Hooks /\ c \in 1..writes /\ hook[w] = [commit |-> c, pc |-> "raise"]
    BY DEF CandidatesInv, CommitsCounted, HooksApart, Raise, Hooks
  <1>2. c \notin Raised
    BY <1>1 DEF Raised
  <1>3. \A v \in Writers : hook'[v] = IF v = w THEN [commit |-> c, pc |-> "drop"] ELSE hook[v]
    BY <1>1 DEF CandidatesInv, CommitsCounted, HooksApart, Raise
  <1>4. writes' = writes
    BY DEF Raise
  <1>5. ASSUME NEW v \in Writers PROVE hook'[v] # [commit |-> c, pc |-> "raise"]
    <2>1. CASE v = w
      BY <1>3, <2>1
    <2>2. CASE v # w
      <3>1. hook[v] # Nothing => hook[v].commit # c
        BY <2>2, <1>1 DEF CandidatesInv, CommitsCounted, HooksApart
      <3>2. [commit |-> c, pc |-> "raise"] # Nothing
        BY <1>1
      <3> QED
        BY <1>3, <2>2, <3>1, <3>2
    <2> QED
      BY <2>1, <2>2
  <1>6. c \in Raised'
    BY <1>1, <1>4, <1>5 DEF Raised
  <1>7. ASSUME NEW d \in 1..writes, d # c PROVE d \in Raised' <=> d \in Raised
    <2>1. hook[w] # [commit |-> d, pc |-> "raise"] /\ hook'[w] # [commit |-> d, pc |-> "raise"]
      BY <1>1, <1>3, <1>7
    <2> QED
      BY <1>3, <1>4, <2>1 DEF Raised
  <1>8. Raised \subseteq 1..writes /\ Raised' \subseteq 1..writes
    BY <1>4 DEF Raised
  <1> QED
    BY <1>1, <1>2, <1>6, <1>7, <1>8

(* A hook that drops the entry has raised the generation.                  *)
LEMMA DropRaises ==
    ASSUME CandidatesInv, NEW w \in Writers, Drop(w)
    PROVE  Raised' = Raised /\ hook[w].commit \in Raised
  <1> DEFINE c == hook[w].commit
  <1>1. hook[w] \in Hooks /\ c \in 1..writes /\ hook[w].pc = "drop" /\ hook[w] # Nothing
    BY DEF CandidatesInv, CommitsCounted, HooksApart, Drop, Hooks
  <1>2. \A v \in Writers : hook'[v] = IF v = w THEN Nothing ELSE hook[v]
    BY DEF CandidatesInv, CommitsCounted, HooksApart, Drop
  <1>3. writes' = writes
    BY DEF Drop
  <1>4. ASSUME NEW d \in 1..writes PROVE d \in Raised' <=> d \in Raised
    <2>1. [commit |-> d, pc |-> "raise"] \in Hooks
      BY DEF Hooks, CandidatesInv, CommitsCounted
    <2>2. hook[w] # [commit |-> d, pc |-> "raise"] /\ hook'[w] # [commit |-> d, pc |-> "raise"]
      BY <1>1, <1>2, <2>1
    <2> QED
      BY <1>2, <1>3, <2>2 DEF Raised
  <1>5. Raised \subseteq 1..writes /\ Raised' \subseteq 1..writes
    BY <1>3 DEF Raised
  <1>6. ASSUME NEW v \in Writers PROVE hook[v] # [commit |-> c, pc |-> "raise"]
    <2>1. CASE v = w
      BY <1>1, <2>1
    <2>2. CASE v # w
      <3>1. hook[v] # Nothing => hook[v].commit # c
        BY <2>2, <1>1 DEF CandidatesInv, CommitsCounted, HooksApart
      <3>2. [commit |-> c, pc |-> "raise"] \in Hooks
        BY <1>1 DEF Hooks
      <3> QED
        BY <3>1, <3>2
    <2> QED
      BY <2>1, <2>2
  <1> QED
    BY <1>1, <1>4, <1>5, <1>6 DEF Raised

(* The present state as an entry of the next one finds it.                 *)
Kept(e) ==
    /\ e.gen <= gen' /\ e.commit <= writes'
    /\ e.commit = writes' => e.db = live'
    /\ e.gen = gen' => \A c \in Raised' : c <= e.commit

Serving ==
    \/ \E g \in Gens : BuildStep(g) \/ FailBuild(g)
    \/ \E r \in Readers : Ask(r) \/ ReaderStep(r) \/ Answer(r)
    \/ Age

(* What a request has after a build delivered.                             *)
Delivered(r, g) ==
    IF r \in Waiting(g) THEN [reader[r] EXCEPT !.pc = "check", !.got = flight[g].got] ELSE reader[r]

(* A build that ends, well or not, leaves all but the requests.            *)
LEMMA LandingLeaves ==
    ASSUME NEW g, Deliver(g) \/ FailBuild(g)
    PROVE  UNCHANGED <<live, writes, hook, done, gen, cache>> /\ flight' = [flight EXCEPT ![g] = Nothing]
  <1>1. CASE Deliver(g)
    BY <1>1, Zenon DEF Deliver
  <1>2. CASE FailBuild(g)
    BY <1>2, Zenon DEF FailBuild
  <1> QED
    BY <1>1, <1>2

(* Builds and requests leave the arcades, the generation and the hooks.    *)
LEMMA ServingReads ==
    Serving \/ UNCHANGED candidateVars => UNCHANGED <<live, writes, hook, done, gen>> /\ Raised' = Raised
  <1>1. ASSUME Serving \/ UNCHANGED candidateVars PROVE UNCHANGED <<live, writes, hook, done, gen>>
    <2>1. ASSUME NEW g \in Gens, BuildStep(g) \/ FailBuild(g) PROVE UNCHANGED <<live, writes, hook, done, gen>>
      <3>1. ReadArcades(g) \/ ReadRows(g) \/ Store(g) => UNCHANGED <<live, writes, hook, done, gen>>
        BY DEF ReadArcades, ReadRows, Store
      <3>2. Deliver(g) \/ FailBuild(g) => UNCHANGED <<live, writes, hook, done, gen>>
        BY LandingLeaves
      <3> QED
        BY <2>1, <3>1, <3>2 DEF BuildStep
    <2>2. ASSUME NEW r \in Readers, Ask(r) \/ ReaderStep(r) \/ Answer(r)
          PROVE  UNCHANGED <<live, writes, hook, done, gen>>
      BY <2>2 DEF ReaderStep, Ask, Answer, Load, LookUp, Join, Check
    <2>3. Age => UNCHANGED <<live, writes, hook, done, gen>>
      BY DEF Age
    <2>4. UNCHANGED candidateVars => UNCHANGED <<live, writes, hook, done, gen>>
      BY DEF candidateVars
    <2> QED
      BY <1>1, <2>1, <2>2, <2>3, <2>4 DEF Serving
  <1>2. UNCHANGED <<live, writes, hook, done, gen>> => Raised' = Raised
    BY DEF Raised
  <1> QED
    BY <1>1, <1>2

(* A step is a writer's or serves the requests.                            *)
LEMMA StepsOfCandidates ==
    [CandidatesNext]_candidateVars <=>
        \/ \E w \in Writers : Raise(w) \/ Drop(w) \/ \E h \in Halls, look \in Looks : Commit(w, h, look)
        \/ Serving \/ UNCHANGED candidateVars
  BY DEF CandidatesNext, Serving

(* What was sound stays so: a commit is newer than every entry, and what   *)
(* raises the generation leaves every entry behind.                        *)
LEMMA SoundStays ==
    ASSUME CandidatesInv, [CandidatesNext]_candidateVars, NEW e \in Entries, Sound(e)
    PROVE  Kept(e)
  <1>1. writes \in Nat /\ gen \in Nat /\ e.gen \in Nat /\ e.commit \in Nat
    BY DEF CandidatesInv, CommitsCounted, Entries, Gens
  <1>2. ASSUME NEW w \in Writers, NEW h \in Halls, NEW look \in Looks, Commit(w, h, look) PROVE Kept(e)
    <2>1. Raised' = Raised
      BY <1>2, CommitRaises
    <2>2. gen' = gen /\ writes' = writes + 1
      BY <1>2 DEF Commit
    <2> QED
      BY <1>1, <2>1, <2>2 DEF Sound, Kept
  <1>3. ASSUME NEW w \in Writers, Raise(w) PROVE Kept(e)
    <2>1. gen' = gen + 1 /\ writes' = writes /\ live' = live
      BY <1>3 DEF Raise
    <2> QED
      BY <1>1, <2>1 DEF Sound, Kept
  <1>4. ASSUME NEW w \in Writers, Drop(w) PROVE Kept(e)
    <2>1. gen' = gen /\ writes' = writes /\ live' = live /\ Raised' = Raised
      BY <1>4, DropRaises DEF Drop
    <2> QED
      BY <2>1 DEF Sound, Kept
  <1>5. Serving \/ UNCHANGED candidateVars => Kept(e)
    BY ServingReads DEF Sound, Kept
  <1> QED
    BY <1>2, <1>3, <1>4, <1>5, StepsOfCandidates

(* The generation counts the hooks that raised it, and who was answered    *)
(* had his hook do so.                                                     *)
LEMMA CommitsCountedStep ==
    ASSUME CandidatesInv, [CandidatesNext]_candidateVars
    PROVE  CommitsCounted' /\ gen <= gen'
  <1>1. /\ live \in [Halls -> Looks] /\ writes \in 0..MaxWrites /\ gen \in Gens
        /\ gen = Cardinality(Raised) /\ done \subseteq Raised /\ gen \in Nat
    BY DEF CandidatesInv, CommitsCounted, Gens
  <1>2. ASSUME NEW w \in Writers, NEW h \in Halls, NEW look \in Looks, Commit(w, h, look)
        PROVE  CommitsCounted' /\ gen <= gen'
    <2>1. Raised' = Raised
      BY <1>2, CommitRaises
    <2>2. live' \in [Halls -> Looks] /\ writes' \in 0..MaxWrites /\ gen' = gen /\ done' = done
      BY <1>1, <1>2 DEF Commit
    <2> QED
      BY <1>1, <2>1, <2>2 DEF CommitsCounted
  <1>3. ASSUME NEW w \in Writers, Raise(w) PROVE CommitsCounted' /\ gen <= gen'
    <2>1. Raised' = Raised \cup {hook[w].commit} /\ hook[w].commit \notin Raised
      BY <1>3, RaiseRaises
    <2>2. gen' = gen + 1 /\ writes' = writes /\ live' = live /\ done' = done
      BY <1>3 DEF Raise
    <2>3. Cardinality(Raised') = Cardinality(Raised) + 1
      BY <1>1, <2>1, RaisedFinite, FS_AddElement
    <2>4. Cardinality(Raised') \in 0..writes'
      <3>1. writes' \in 0..MaxWrites
        BY <1>1, <2>2
      <3>2. IsFiniteSet(1..writes') /\ Cardinality(1..writes') = writes'
        BY <3>1, FS_Interval
      <3>3. Raised' \subseteq 1..writes'
        BY DEF Raised
      <3>4. IsFiniteSet(Raised') /\ Cardinality(Raised') <= Cardinality(1..writes')
        BY <3>2, <3>3, FS_Subset
      <3>5. Cardinality(Raised') \in Nat
        BY <3>4, FS_CardinalityType
      <3> QED
        BY <3>1, <3>2, <3>4, <3>5
    <2>5. gen' \in Gens
      BY <1>1, <2>2, <2>3, <2>4 DEF Gens
    <2> QED
      BY <1>1, <2>1, <2>2, <2>3, <2>5 DEF CommitsCounted
  <1>4. ASSUME NEW w \in Writers, Drop(w) PROVE CommitsCounted' /\ gen <= gen'
    <2>1. Raised' = Raised /\ hook[w].commit \in Raised
      BY <1>4, DropRaises
    <2>2. UNCHANGED <<live, writes, gen>> /\ done' = done \cup {hook[w].commit}
      BY <1>4 DEF Drop
    <2> QED
      BY <1>1, <2>1, <2>2 DEF CommitsCounted
  <1>5. Serving \/ UNCHANGED candidateVars => CommitsCounted' /\ gen <= gen'
    BY <1>1, ServingReads DEF CommitsCounted
  <1> QED
    BY <1>2, <1>3, <1>4, <1>5, StepsOfCandidates

(* A hook is of one commit, and of no other writer's.                      *)
LEMMA HooksApartStep ==
    ASSUME CandidatesInv, [CandidatesNext]_candidateVars
    PROVE  HooksApart'
  <1>1. writes \in 0..MaxWrites /\ HooksApart
    BY DEF CandidatesInv, CommitsCounted
  <1>2. ASSUME NEW w \in Writers, NEW h \in Halls, NEW look \in Looks, Commit(w, h, look)
        PROVE  HooksApart'
    <2>1. writes' = writes + 1 /\ writes + 1 \in 1..MaxWrites
      BY <1>1, <1>2 DEF Commit
    <2>2. hook' = [hook EXCEPT ![w] = [commit |-> writes + 1, pc |-> "raise"]]
      BY <1>2 DEF Commit
    <2>3. [commit |-> writes + 1, pc |-> "raise"] \in Hooks
      BY <2>1 DEF Hooks
    <2>4. hook' \in [Writers -> Hooks \cup {Nothing}]
      BY <1>1, <2>2, <2>3 DEF HooksApart
    <2>5. \A v \in Writers : hook'[v] = IF v = w THEN [commit |-> writes + 1, pc |-> "raise"] ELSE hook[v]
      BY <1>1, <2>2 DEF HooksApart
    <2>6. \A v \in Writers : hook[v] # Nothing => hook[v].commit \in 1..writes
      BY <1>1 DEF HooksApart, Hooks
    <2>7. ASSUME NEW v \in Writers, hook'[v] # Nothing
          PROVE  /\ hook'[v].commit <= writes'
                 /\ \A u \in Writers \ {v} : hook'[u] # Nothing => hook'[u].commit # hook'[v].commit
      BY <1>1, <2>1, <2>5, <2>6, <2>7 DEF HooksApart
    <2> QED
      BY <2>4, <2>7 DEF HooksApart
  <1>3. ASSUME NEW w \in Writers, Raise(w) PROVE HooksApart'
    <2>1. hook[w] \in Hooks /\ hook[w] # Nothing
      BY <1>1, <1>3 DEF HooksApart, Raise
    <2>2. [hook[w] EXCEPT !.pc = "drop"] \in Hooks
      BY <2>1 DEF Hooks
    <2>3. \A v \in Writers : hook'[v] = IF v = w THEN [hook[w] EXCEPT !.pc = "drop"] ELSE hook[v]
      BY <1>1, <1>3 DEF HooksApart, Raise
    <2>4. hook' \in [Writers -> Hooks \cup {Nothing}] /\ writes' = writes
      BY <1>1, <1>3, <2>2 DEF HooksApart, Raise
    <2>5. \A v \in Writers : (hook'[v] # Nothing => hook[v] # Nothing /\ hook'[v].commit = hook[v].commit)
      BY <2>1, <2>3 DEF Hooks
    <2> QED
      BY <1>1, <2>4, <2>5 DEF HooksApart
  <1>4. ASSUME NEW w \in Writers, Drop(w) PROVE HooksApart'
    <2>1. \A v \in Writers : hook'[v] = IF v = w THEN Nothing ELSE hook[v]
      BY <1>1, <1>4 DEF HooksApart, Drop
    <2>2. hook' \in [Writers -> Hooks \cup {Nothing}] /\ writes' = writes
      BY <1>1, <1>4 DEF HooksApart, Drop
    <2> QED
      BY <1>1, <2>1, <2>2 DEF HooksApart
  <1>5. Serving \/ UNCHANGED candidateVars => HooksApart'
    BY <1>1, ServingReads DEF HooksApart
  <1> QED
    BY <1>2, <1>3, <1>4, <1>5, StepsOfCandidates

(* The stored entry is sound: it is dropped, or is the old one, or what a  *)
(* build made.                                                             *)
LEMMA CacheSoundStep ==
    ASSUME CandidatesInv, [CandidatesNext]_candidateVars
    PROVE  CacheSound'
  <1>1. CacheSound /\ BuildsSound
    BY DEF CandidatesInv
  <1>2. cache # Nothing => Kept(cache)
    BY <1>1, SoundStays DEF CacheSound
  <1>3. cache' = cache => CacheSound'
    BY <1>1, <1>2 DEF CacheSound, Kept, Sound
  <1>4. cache' = Nothing => CacheSound'
    BY DEF CacheSound
  <1>5. ASSUME NEW g \in Gens, Store(g) PROVE CacheSound'
    <2>1. flight[g] \in Builds /\ flight[g].pc = "store" /\ cache' = flight[g].got
      BY <1>1, <1>5 DEF BuildsSound, Store
    <2>2. flight[g].got \in Entries
      BY <2>1 DEF Builds
    <2>3. Sound(flight[g].got)
      BY <1>1, <1>5, <2>1 DEF BuildsSound, Store
    <2>4. Kept(flight[g].got)
      BY <2>2, <2>3, SoundStays
    <2> QED
      BY <2>1, <2>2, <2>4 DEF CacheSound, Kept, Sound
  <1>6. ASSUME Age PROVE CacheSound'
    <2>1. cache \in Entries /\ cache # Nothing /\ cache' = [cache EXCEPT !.fresh = FALSE]
      BY <1>1, <1>6 DEF CacheSound, Age
    <2>2. /\ cache' \in Entries
          /\ cache'.gen = cache.gen /\ cache'.commit = cache.commit /\ cache'.db = cache.db
      BY <2>1 DEF Entries
    <2> QED
      BY <1>2, <2>1, <2>2 DEF CacheSound, Kept, Sound
  <1>7. ASSUME NEW w \in Writers, Raise(w) \/ Drop(w) \/ \E h \in Halls, look \in Looks : Commit(w, h, look)
        PROVE  CacheSound'
    BY <1>3, <1>4, <1>7 DEF Raise, Drop, Commit
  <1>8. ASSUME NEW g \in Gens, BuildStep(g) \/ FailBuild(g) PROVE CacheSound'
    <2>1. ReadArcades(g) \/ ReadRows(g) => cache' = cache
      BY DEF ReadArcades, ReadRows
    <2>2. Deliver(g) \/ FailBuild(g) => cache' = cache
      BY LandingLeaves
    <2> QED
      BY <1>3, <1>5, <1>8, <2>1, <2>2 DEF BuildStep
  <1>9. ASSUME NEW r \in Readers, Ask(r) \/ ReaderStep(r) \/ Answer(r) PROVE CacheSound'
    <2>1. cache' = cache
      BY <1>9 DEF ReaderStep, Ask, Answer, Load, LookUp, Join, Check
    <2> QED
      BY <1>3, <2>1
  <1>10. UNCHANGED candidateVars => CacheSound'
    BY <1>3 DEF candidateVars
  <1> QED
    BY <1>6, <1>7, <1>8, <1>9, <1>10 DEF CandidatesNext

(* What a build has in hand is sound, from the moment it has read the      *)
(* arcades: it then holds every commit.                                    *)
BuildSound(b, g) ==
    /\ b \in Builds \cup {Nothing}
    /\ b # Nothing =>
         /\ g <= gen'
         /\ b.pc = "rows" => Kept(Entry(g, b.got))
         /\ b.pc \in {"store", "deliver"} => Kept(b.got)

LEMMA BuildsSoundIf ==
    ASSUME DOMAIN flight' = Gens, flight' = [g \in Gens |-> flight'[g]],
           \A g \in Gens : BuildSound(flight'[g], g)
    PROVE  BuildsSound'
  <1>1. flight' \in [Gens -> Builds \cup {Nothing}]
    BY DEF BuildSound
  <1>2. ASSUME NEW g \in Gens, flight'[g] # Nothing
        PROVE  /\ g <= gen'
               /\ flight'[g].pc = "rows" => Sound(Entry(g, flight[g].got))'
               /\ flight'[g].pc \in {"store", "deliver"} => Sound(flight[g].got)'
    BY <1>2 DEF BuildSound, Kept, Sound, Entry
  <1> QED
    BY <1>1, <1>2 DEF BuildsSound, Sound, Entry

LEMMA EntryType ==
    ASSUME NEW g \in Gens, NEW got \in Snapshots
    PROVE  /\ Entry(g, got) \in Entries
           /\ Entry(g, got).gen = g /\ Entry(g, got).commit = got.commit /\ Entry(g, got).db = got.db
  BY DEF Entry, Entries, Snapshots

LEMMA BuildsSoundStep ==
    ASSUME CandidatesInv, [CandidatesNext]_candidateVars
    PROVE  BuildsSound'
  <1>1. /\ BuildsSound /\ gen \in Nat /\ gen' \in Nat /\ gen <= gen' /\ writes \in 0..MaxWrites
        /\ live \in [Halls -> Looks] /\ \A r \in Readers : reader[r].gen <= gen /\ reader[r].gen \in Gens
    BY CommitsCountedStep DEF CandidatesInv, CommitsCounted, Gens, RequestsSound, Requests
  <1>2. ASSUME NEW g \in Gens PROVE BuildSound(flight[g], g)
    <2>1. flight[g] \in Builds \cup {Nothing} /\ g \in Int
      BY <1>1 DEF BuildsSound, Gens
    <2>2. ASSUME flight[g] # Nothing, flight[g].pc = "rows" PROVE Kept(Entry(g, flight[g].got))
      <3>1. flight[g].got \in Snapshots /\ Sound(Entry(g, flight[g].got))
        BY <1>1, <2>1, <2>2 DEF BuildsSound, Builds
      <3> QED
        BY <3>1, EntryType, SoundStays
    <2>3. ASSUME flight[g] # Nothing, flight[g].pc \in {"store", "deliver"} PROVE Kept(flight[g].got)
      <3>1. flight[g].got \in Entries /\ Sound(flight[g].got)
        BY <1>1, <2>1, <2>3 DEF BuildsSound, Builds
      <3> QED
        BY <3>1, SoundStays
    <2>4. flight[g] # Nothing => g <= gen
      BY <1>1 DEF BuildsSound
    <2> QED
      BY <1>1, <2>1, <2>2, <2>3, <2>4 DEF BuildSound
  <1>3. flight' = flight => BuildsSound'
    <2> SUFFICES ASSUME flight' = flight PROVE BuildsSound'
      OBVIOUS
    <2>1. DOMAIN flight' = Gens /\ flight' = [g \in Gens |-> flight'[g]]
      BY <1>1 DEF BuildsSound
    <2> QED
      BY <1>2, <2>1, BuildsSoundIf
  <1>4. ASSUME NEW g \in Gens, NEW b, BuildSound(b, g), flight' = [flight EXCEPT ![g] = b]
        PROVE  BuildsSound'
    <2>1. DOMAIN flight' = Gens /\ flight' = [k \in Gens |-> flight'[k]]
      BY <1>1, <1>4 DEF BuildsSound
    <2>2. \A k \in Gens : flight'[k] = IF k = g THEN b ELSE flight[k]
      BY <1>1, <1>4 DEF BuildsSound
    <2>3. \A k \in Gens : BuildSound(flight'[k], k)
      BY <1>2, <1>4, <2>2
    <2> QED
      BY <2>1, <2>3, BuildsSoundIf
  <1>5. ASSUME NEW g \in Gens PROVE BuildSound(Nothing, g)
    BY DEF BuildSound
  <1>6. ASSUME NEW r \in Readers, Join(r) PROVE BuildsSound'
    <2> DEFINE g == reader[r].gen
               b == [pc |-> "arcades", got |-> Nothing]
    <2>1. g \in Gens /\ g <= gen'
      BY <1>1, <1>6 DEF Join, Gens
    <2>2. BuildSound(b, g)
      BY <2>1 DEF BuildSound, Builds
    <2>3. flight' = flight \/ flight' = [flight EXCEPT ![g] = b]
      BY <1>6 DEF Join
    <2> QED
      BY <1>3, <1>4, <2>1, <2>2, <2>3
  <1>7. ASSUME NEW g \in Gens, ReadArcades(g) PROVE BuildsSound'
    <2> DEFINE got == [commit |-> writes, db |-> live]
               b == [pc |-> "rows", got |-> got]
    <2>1. got \in Snapshots /\ b \in Builds
      BY <1>1 DEF Snapshots, Builds
    <2>2. g <= gen
      BY <1>1, <1>7 DEF BuildsSound, ReadArcades
    <2>3. Sound(Entry(g, got))
      <3>1. \A c \in Raised : c <= writes
        BY DEF Raised
      <3> QED
        BY <1>1, <2>2, <3>1 DEF Sound, Entry
    <2>4. Kept(Entry(g, got))
      BY <2>1, <2>3, EntryType, SoundStays
    <2>5. BuildSound(b, g)
      BY <1>1, <2>1, <2>2, <2>4 DEF BuildSound, Gens
    <2>6. flight' = [flight EXCEPT ![g] = b]
      BY <1>7 DEF ReadArcades
    <2> QED
      BY <1>4, <2>5, <2>6
  <1>8. ASSUME NEW g \in Gens, ReadRows(g) PROVE BuildsSound'
    <2> DEFINE b == [pc |-> IF gen = g THEN "store" ELSE "deliver", got |-> Entry(g, flight[g].got)]
    <2>1. flight[g] \in Builds /\ flight[g].pc = "rows" /\ flight[g] # Nothing
      BY <1>1, <1>8 DEF BuildsSound, ReadRows
    <2>2. flight[g].got \in Snapshots
      BY <2>1 DEF Builds
    <2>3. Entry(g, flight[g].got) \in Entries
      BY <2>2, EntryType
    <2>4. Kept(Entry(g, flight[g].got)) /\ g <= gen'
      BY <1>2, <2>1 DEF BuildSound
    <2>5. b \in Builds
      BY <2>3 DEF Builds
    <2>6. BuildSound(b, g)
      BY <2>4, <2>5 DEF BuildSound
    <2>7. flight' = [flight EXCEPT ![g] = b]
      BY <1>8 DEF ReadRows
    <2> QED
      BY <1>4, <2>6, <2>7
  <1>9. ASSUME NEW g \in Gens, Store(g) PROVE BuildsSound'
    <2> DEFINE b == [flight[g] EXCEPT !.pc = "deliver"]
    <2>1. flight[g] \in Builds /\ flight[g].pc = "store" /\ flight[g] # Nothing
      BY <1>1, <1>9 DEF BuildsSound, Store
    <2>2. b \in Builds /\ b.pc = "deliver" /\ b.got = flight[g].got
      BY <2>1 DEF Builds
    <2>3. Kept(flight[g].got) /\ g <= gen'
      BY <1>2, <2>1 DEF BuildSound
    <2>4. BuildSound(b, g)
      BY <2>2, <2>3 DEF BuildSound
    <2>5. flight' = [flight EXCEPT ![g] = b]
      BY <1>9 DEF Store
    <2> QED
      BY <1>4, <2>4, <2>5
  <1>10. ASSUME NEW g \in Gens, Deliver(g) \/ FailBuild(g) PROVE BuildsSound'
    <2>1. flight' = [flight EXCEPT ![g] = Nothing]
      BY <1>10, LandingLeaves
    <2> QED
      BY <1>4, <1>5, <2>1
  <1>11. ASSUME NEW w \in Writers, Raise(w) \/ Drop(w) \/ \E h \in Halls, look \in Looks : Commit(w, h, look)
         PROVE  BuildsSound'
    BY <1>3, <1>11 DEF Raise, Drop, Commit
  <1>12. ASSUME NEW r \in Readers, Ask(r) \/ ReaderStep(r) \/ Answer(r) PROVE BuildsSound'
    <2>1. Ask(r) \/ Load(r) \/ LookUp(r) \/ Check(r) \/ Answer(r) => flight' = flight
      BY DEF Ask, Load, LookUp, Check, Answer
    <2> QED
      BY <1>3, <1>6, <1>12, <2>1 DEF ReaderStep
  <1>13. Age \/ UNCHANGED candidateVars => BuildsSound'
    BY <1>3 DEF Age, candidateVars
  <1>14. ASSUME NEW g \in Gens, BuildStep(g) \/ FailBuild(g) PROVE BuildsSound'
    BY <1>7, <1>8, <1>9, <1>10, <1>14 DEF BuildStep
  <1> QED
    BY <1>11, <1>12, <1>13, <1>14 DEF CandidatesNext

(* What a request has in hand is sound: the entry it found, or what its    *)
(* build delivered.                                                        *)
RequestSound(q) ==
    /\ q \in Requests /\ q.gen <= gen'
    /\ q.got # Nothing => Kept(q.got)
    /\ q.pc \in {"check", "done"} => q.got # Nothing

LEMMA RequestsSoundIf ==
    ASSUME DOMAIN reader' = Readers, reader' = [r \in Readers |-> reader'[r]],
           \A r \in Readers : RequestSound(reader'[r])
    PROVE  RequestsSound'
  <1>1. reader' \in [Readers -> Requests]
    BY DEF RequestSound
  <1> QED
    BY <1>1 DEF RequestSound, RequestsSound, Kept, Sound

LEMMA RequestsSoundStep ==
    ASSUME CandidatesInv, [CandidatesNext]_candidateVars
    PROVE  RequestsSound'
  <1>1. /\ RequestsSound /\ BuildsSound /\ CacheSound
        /\ gen \in Nat /\ gen \in Gens /\ gen' \in Nat /\ gen <= gen'
    BY CommitsCountedStep DEF CandidatesInv, CommitsCounted, Gens
  <1>2. ASSUME NEW r \in Readers
        PROVE  /\ RequestSound(reader[r]) /\ reader[r] \in Requests /\ reader[r].gen <= gen
               /\ reader[r].got # Nothing => Kept(reader[r].got)
               /\ reader[r].pc \in {"check", "done"} => reader[r].got # Nothing
    <2>1. reader[r] \in Requests /\ reader[r].gen \in Int /\ reader[r].gen <= gen
      BY <1>1 DEF RequestsSound, Requests, Gens
    <2>2. reader[r].got # Nothing => reader[r].got \in Entries /\ Sound(reader[r].got)
      BY <1>1, <2>1 DEF RequestsSound, Requests
    <2>3. reader[r].got # Nothing => Kept(reader[r].got)
      BY <2>2, SoundStays
    <2>4. reader[r].pc \in {"check", "done"} => reader[r].got # Nothing
      BY <1>1 DEF RequestsSound
    <2> QED
      BY <1>1, <2>1, <2>3, <2>4 DEF RequestSound
  <1>3. reader' = reader => RequestsSound'
    <2> SUFFICES ASSUME reader' = reader PROVE RequestsSound'
      OBVIOUS
    <2>1. DOMAIN reader' = Readers /\ reader' = [r \in Readers |-> reader'[r]]
      BY <1>1 DEF RequestsSound
    <2> QED
      BY <1>2, <2>1, RequestsSoundIf
  <1>4. ASSUME NEW r \in Readers, NEW q, RequestSound(q), reader' = [reader EXCEPT ![r] = q]
        PROVE  RequestsSound'
    <2>1. DOMAIN reader' = Readers /\ reader' = [s \in Readers |-> reader'[s]]
      BY <1>1, <1>4 DEF RequestsSound
    <2>2. \A s \in Readers : reader'[s] = IF s = r THEN q ELSE reader[s]
      BY <1>1, <1>4 DEF RequestsSound
    <2>3. \A s \in Readers : RequestSound(reader'[s])
      BY <1>2, <1>4, <2>2
    <2> QED
      BY <2>1, <2>3, RequestsSoundIf
  <1>5. RequestSound(NoRequest)
    <2>1. NoRequest \in Requests
      BY DEF NoRequest, Requests, Gens
    <2> QED
      BY <1>1, <2>1 DEF RequestSound, NoRequest
  <1>6. ASSUME NEW r \in Readers, Ask(r) PROVE RequestsSound'
    <2> DEFINE q == [reader[r] EXCEPT !.pc = "load"]
    <2>1. q \in Requests /\ q.gen = reader[r].gen /\ q.got = reader[r].got /\ q.pc = "load"
      BY <1>2 DEF Requests
    <2>2. RequestSound(q)
      BY <1>2, <2>1 DEF RequestSound
    <2>3. reader' = [reader EXCEPT ![r] = q]
      BY <1>6 DEF Ask
    <2> QED
      BY <1>4, <2>2, <2>3
  <1>7. ASSUME NEW r \in Readers, Load(r) PROVE RequestsSound'
    <2> DEFINE q == [reader[r] EXCEPT !.gen = gen, !.pc = "look"]
    <2>1. q \in Requests /\ q.gen = gen /\ q.got = reader[r].got /\ q.pc = "look"
      BY <1>1, <1>2 DEF Requests
    <2>2. RequestSound(q)
      BY <1>1, <1>2, <2>1 DEF RequestSound
    <2>3. reader' = [reader EXCEPT ![r] = q]
      BY <1>7 DEF Load
    <2> QED
      BY <1>4, <2>2, <2>3
  <1>8. ASSUME NEW r \in Readers, LookUp(r) PROVE RequestsSound'
    <2>1. CASE Usable(r)
      <3> DEFINE q == [reader[r] EXCEPT !.pc = "check", !.got = cache]
      <3>1. cache \in Entries /\ cache # Nothing /\ Sound(cache)
        BY <1>1, <2>1 DEF Usable, CacheSound
      <3>2. Kept(cache)
        BY <3>1, SoundStays
      <3>3. q \in Requests /\ q.gen = reader[r].gen /\ q.got = cache /\ q.pc = "check"
        BY <1>2, <3>1 DEF Requests
      <3>4. RequestSound(q)
        BY <1>2, <3>1, <3>2, <3>3 DEF RequestSound
      <3>5. reader' = [reader EXCEPT ![r] = q]
        BY <1>8, <2>1 DEF LookUp
      <3> QED
        BY <1>4, <3>4, <3>5
    <2>2. CASE ~Usable(r)
      <3> DEFINE q == [reader[r] EXCEPT !.pc = "join"]
      <3>1. q \in Requests /\ q.gen = reader[r].gen /\ q.got = reader[r].got /\ q.pc = "join"
        BY <1>2 DEF Requests
      <3>2. RequestSound(q)
        BY <1>2, <3>1 DEF RequestSound
      <3>3. reader' = [reader EXCEPT ![r] = q]
        BY <1>8, <2>2 DEF LookUp
      <3> QED
        BY <1>4, <3>2, <3>3
    <2> QED
      BY <2>1, <2>2
  <1>9. ASSUME NEW r \in Readers, Join(r) PROVE RequestsSound'
    <2> DEFINE q == [reader[r] EXCEPT !.pc = "wait"]
    <2>1. q \in Requests /\ q.gen = reader[r].gen /\ q.got = reader[r].got /\ q.pc = "wait"
      BY <1>2 DEF Requests
    <2>2. RequestSound(q)
      BY <1>2, <2>1 DEF RequestSound
    <2>3. reader' = [reader EXCEPT ![r] = q]
      BY <1>9 DEF Join
    <2> QED
      BY <1>4, <2>2, <2>3
  <1>10. ASSUME NEW r \in Readers, Check(r) PROVE RequestsSound'
    <2>1. reader[r].pc = "check"
      BY <1>10 DEF Check
    <2>2. CASE StillCurrent(r)
      <3> DEFINE q == [reader[r] EXCEPT !.pc = "done"]
      <3>1. q \in Requests /\ q.gen = reader[r].gen /\ q.got = reader[r].got /\ q.pc = "done"
        BY <1>2 DEF Requests
      <3>2. RequestSound(q)
        BY <1>2, <2>1, <3>1 DEF RequestSound
      <3>3. reader' = [reader EXCEPT ![r] = q]
        BY <1>10, <2>2 DEF Check
      <3> QED
        BY <1>4, <3>2, <3>3
    <2>3. CASE ~StillCurrent(r)
      <3> DEFINE q == [reader[r] EXCEPT !.pc = "load", !.got = Nothing]
      <3>1. q \in Requests /\ q.gen = reader[r].gen /\ q.got = Nothing /\ q.pc = "load"
        BY <1>2 DEF Requests
      <3>2. RequestSound(q)
        BY <1>2, <3>1 DEF RequestSound
      <3>3. reader' = [reader EXCEPT ![r] = q]
        BY <1>10, <2>3 DEF Check
      <3> QED
        BY <1>4, <3>2, <3>3
    <2> QED
      BY <2>2, <2>3
  <1>11. ASSUME NEW r \in Readers, Answer(r) PROVE RequestsSound'
    BY <1>4, <1>5, <1>11 DEF Answer
  <1>12. ASSUME NEW g \in Gens, Deliver(g) PROVE RequestsSound'
    <2> DEFINE got == flight[g].got
    <2>1. flight[g] # Nothing /\ flight[g].pc = "deliver"
      BY <1>12, Zenon DEF Deliver
    <2>2. flight[g] \in Builds /\ Sound(got)
      BY <1>1, <2>1 DEF BuildsSound
    <2>3. got \in Entries /\ got # Nothing
      BY <2>1, <2>2 DEF Builds
    <2>4. Kept(got)
      BY <2>2, <2>3, SoundStays
    <2>5. reader' = [r \in Readers |-> Delivered(r, g)]
      BY <1>12, Zenon DEF Deliver, Delivered
    <2>6. ASSUME NEW r \in Readers PROVE RequestSound(Delivered(r, g))
      <3>1. CASE r \in Waiting(g)
        <4>1. Delivered(r, g) = [reader[r] EXCEPT !.pc = "check", !.got = got]
          BY <3>1, Zenon DEF Delivered
        <4>2. /\ Delivered(r, g) \in Requests /\ Delivered(r, g).gen = reader[r].gen
              /\ Delivered(r, g).got = got /\ Delivered(r, g).pc = "check"
          BY <1>2, <2>3, <4>1 DEF Requests
        <4> QED
          BY <1>2, <2>3, <2>4, <4>2 DEF RequestSound
      <3>2. CASE r \notin Waiting(g)
        <4>1. Delivered(r, g) = reader[r]
          BY <3>2, Zenon DEF Delivered
        <4> QED
          BY <1>2, <4>1
      <3> QED
        BY <3>1, <3>2
    <2>7. \A r \in Readers : RequestSound(reader'[r])
      BY <2>5, <2>6
    <2>8. DOMAIN reader' = Readers /\ reader' = [r \in Readers |-> reader'[r]]
      BY <2>5
    <2> QED
      BY <2>7, <2>8, RequestsSoundIf
  <1>13. ASSUME NEW g \in Gens, FailBuild(g) PROVE RequestsSound'
    <2>1. reader' = [r \in Readers |-> IF r \in Waiting(g) THEN NoRequest ELSE reader[r]]
      BY <1>13, Zenon DEF FailBuild
    <2>2. \A r \in Readers : RequestSound(reader'[r])
      BY <1>2, <1>5, <2>1
    <2>3. DOMAIN reader' = Readers /\ reader' = [r \in Readers |-> reader'[r]]
      BY <2>1
    <2> QED
      BY <2>2, <2>3, RequestsSoundIf
  <1>14. ASSUME NEW g \in Gens, BuildStep(g) \/ FailBuild(g) PROVE RequestsSound'
    <2>1. ReadArcades(g) \/ ReadRows(g) \/ Store(g) => reader' = reader
      BY DEF ReadArcades, ReadRows, Store
    <2> QED
      BY <1>3, <1>12, <1>13, <1>14, <2>1 DEF BuildStep
  <1>15. ASSUME NEW w \in Writers, Raise(w) \/ Drop(w) \/ \E h \in Halls, look \in Looks : Commit(w, h, look)
         PROVE  RequestsSound'
    BY <1>3, <1>15 DEF Raise, Drop, Commit
  <1>16. Age \/ UNCHANGED candidateVars => RequestsSound'
    BY <1>3 DEF Age, candidateVars
  <1> QED
    BY <1>6, <1>7, <1>8, <1>9, <1>10, <1>11, <1>14, <1>15, <1>16 DEF CandidatesNext, ReaderStep

LEMMA CandidatesStep ==
    CandidatesInv /\ [CandidatesNext]_candidateVars => CandidatesInv'
  BY CommitsCountedStep, HooksApartStep, CacheSoundStep, BuildsSoundStep, RequestsSoundStep
     DEF CandidatesInv

(* Whatever is stored, being built or handed out holds every commit whose  *)
(* hook has raised the generation it is of, for any number of writers and  *)
(* readers (the generation counter of the candidate cache).                *)
THEOREM CandidatesKeep ==
    CandidatesSpec => []CandidatesInv
  <1>1. CandidatesInit => CandidatesInv
    BY CandidatesInitially
  <1>2. CandidatesInv /\ [CandidatesNext]_candidateVars => CandidatesInv'
    BY CandidatesStep
  <1> QED
    BY <1>1, <1>2, PTL DEF CandidatesSpec

(* An entry of the present generation is what the database holds, once no  *)
(* hook is under way, though a build may store it after it was dropped.    *)
THEOREM StoredIsCurrent ==
    CandidatesSpec => [](CandidatesTypeOK /\ CacheIsCurrent)
  <1>1. ASSUME CandidatesInv PROVE CandidatesTypeOK
    <2>1. Cardinality(Raised) \in 0..writes
      BY <1>1, RaisedFinite DEF CandidatesInv, CommitsCounted
    <2>2. Raised \subseteq 1..writes
      BY DEF Raised
    <2> QED
      BY <1>1, <2>1, <2>2 DEF CandidatesInv, CommitsCounted, RequestsSound, CandidatesTypeOK
  <1>2. ASSUME CandidatesInv, cache # Nothing, cache.gen = gen, \A w \in Writers : hook[w] = Nothing
        PROVE  cache.db = live
    <2>1. ASSUME NEW c \in 1..writes PROVE c \in Raised
      <3>1. [commit |-> c, pc |-> "raise"] \in Hooks
        BY <1>2 DEF Hooks, CandidatesInv, CommitsCounted
      <3> QED
        BY <1>2, <3>1 DEF Raised
    <2>2. cache \in Entries /\ Sound(cache) /\ writes \in 0..MaxWrites
      BY <1>2 DEF CandidatesInv, CacheSound, CommitsCounted
    <2>3. cache.commit \in Nat /\ cache.commit <= writes
      BY <2>2 DEF Entries, Sound
    <2>4. writes # 0 => writes <= cache.commit
      BY <1>2, <2>1, <2>2 DEF Sound
    <2>5. cache.commit = writes
      BY <2>2, <2>3, <2>4
    <2> QED
      BY <2>2, <2>5 DEF Sound
  <1>3. CandidatesInv => CandidatesTypeOK /\ CacheIsCurrent
    BY <1>1, <1>2 DEF CacheIsCurrent
  <1> QED
    BY <1>3, CandidatesKeep, PTL

(* A request is only answered with what holds every change that was itself *)
(* answered by then.                                                       *)
LEMMA AnswersStep ==
    ASSUME CandidatesInv, [CandidatesNext]_candidateVars, NEW r \in Readers,
           reader[r].pc = "check", reader'[r].pc = "done"
    PROVE  \A c \in done : c <= reader[r].got.commit
  <1>1. reader \in [Readers -> Requests]
    BY DEF CandidatesInv, RequestsSound
  <1>2. CASE Check(r)
    <2>1. StillCurrent(r)
      BY <1>1, <1>2 DEF Check, Requests
    <2>2. Sound(reader[r].got) /\ done \subseteq Raised
      BY DEF CandidatesInv, RequestsSound, CommitsCounted
    <2> QED
      BY <2>1, <2>2 DEF StillCurrent, Sound
  <1>3. reader' # reader /\ reader'[r] # reader[r]
    OBVIOUS
  <1>4. ASSUME NEW s \in Readers, Ask(s) \/ ReaderStep(s) \/ Answer(s) PROVE Check(r)
    <2>1. reader' = [reader EXCEPT ![s] = reader'[s]]
      BY <1>1, <1>4 DEF ReaderStep, Ask, Answer, Load, LookUp, Join, Check
    <2>2. s = r
      BY <1>1, <1>3, <2>1
    <2>3. ReaderStep(r) /\ (Load(r) \/ LookUp(r) \/ Join(r) => reader[r].pc # "check")
      BY <1>4, <2>2 DEF ReaderStep, Ask, Answer, Load, LookUp, Join
    <2> QED
      BY <2>3 DEF ReaderStep
  <1>5. ASSUME NEW g \in Gens, BuildStep(g) \/ FailBuild(g) PROVE FALSE
    <2>1. ReadArcades(g) \/ ReadRows(g) \/ Store(g) => reader' = reader
      BY DEF ReadArcades, ReadRows, Store
    <2>2. r \notin Waiting(g)
      BY DEF Waiting
    <2>3. Deliver(g) => reader'[r] = reader[r]
      <3> SUFFICES ASSUME Deliver(g) PROVE reader'[r] = reader[r]
        OBVIOUS
      <3>1. reader' = [k \in Readers |-> Delivered(k, g)]
        BY Zenon DEF Deliver, Delivered
      <3>2. reader'[r] = Delivered(r, g)
        BY <3>1
      <3>3. Delivered(r, g) = reader[r]
        BY <2>2 DEF Delivered
      <3> QED
        BY <3>2, <3>3
    <2>4. FailBuild(g) => reader'[r] = reader[r]
      <3> SUFFICES ASSUME FailBuild(g) PROVE reader'[r] = reader[r]
        OBVIOUS
      <3>1. reader' = [k \in Readers |-> IF k \in Waiting(g) THEN NoRequest ELSE reader[k]]
        BY Zenon DEF FailBuild
      <3> QED
        BY <2>2, <3>1
    <2> QED
      BY <1>3, <1>5, <2>1, <2>3, <2>4 DEF BuildStep
  <1>6. ASSUME NEW w \in Writers, Raise(w) \/ Drop(w) \/ \E h \in Halls, look \in Looks : Commit(w, h, look)
        PROVE  FALSE
    BY <1>3, <1>6 DEF Raise, Drop, Commit
  <1>7. ~Age /\ ~UNCHANGED candidateVars
    BY <1>3 DEF Age, candidateVars
  <1> QED
    BY <1>2, <1>4, <1>5, <1>6, <1>7 DEF CandidatesNext

(* However many requests, builds and changes overlap, an answer holds      *)
(* every change that was answered before it (GetArcadeCandidates).         *)
THEOREM AnswersHoldChanges ==
    CandidatesSpec => AnswersAreCurrent
  <1>1. CandidatesInv /\ [CandidatesNext]_candidateVars =>
            [\A r \in Readers : reader[r].pc = "check" /\ reader'[r].pc = "done" =>
                 \A c \in done : c <= reader[r].got.commit]_candidateVars
    BY AnswersStep
  <1> QED
    BY <1>1, CandidatesKeep, PTL DEF CandidatesSpec, AnswersAreCurrent
===============================================================================
