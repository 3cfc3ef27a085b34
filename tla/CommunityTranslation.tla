------------------------- MODULE CommunityTranslation -------------------------
(***************************************************************************)
(* Posts and comments of the community and the worker that translates      *)
(* them: handlers/community/worker.go, post.go and social.go.              *)
(*                                                                         *)
(* Author requests write rows in transactions, one at a time.  Any number  *)
(* of cron runs proceed beside them: a run lists what is due, and for each *)
(* candidate claims the row in one transaction, calls the provider outside *)
(* any transaction, and stores the answer in a second transaction.  Rows   *)
(* may have been edited, deleted or claimed again in between.              *)
(*                                                                         *)
(* A text is a member of Sources and stands for its own SHA-256 hash.      *)
(***************************************************************************)
EXTENDS Integers, FiniteSets

CONSTANTS
    Posts,          \* identifiers of community_post rows
    Comments,       \* identifiers of community_comment rows
    PostOf,         \* PostOf[c]: the post of comment c
    Runs,           \* concurrent cron runs of RunDueTranslations
    Sources,        \* title and body of an item, as one value
    Blank,          \* the text of a photo-only comment
    NoText,         \* no cached translation
    NoJob,          \* the run is not waiting for the provider
    MaxAttempts,    \* maxTranslationAttempts
    EditWindow,     \* translationDelay
    Lease,          \* translationLease
    RetryDelay,     \* RetryDelay[k]: retryDelay(k)
    BatchSize,      \* translationBatchSize
    \* bounds of the model, none of the code:
    MaxTime,        \* the clock stops here
    LastCreate,     \* items are created until then
    MaxEdits,       \* UpdatePost requests
    MaxCrashes,     \* process restarts
    Latency         \* time a request, a run or a due row may be left waiting

ASSUME ItemsAssumption ==
    /\ PostOf \in [Comments -> Posts]
    /\ Posts \cap Comments = {}
    /\ Blank \in Sources
    /\ NoText \notin Sources
    /\ {"absent", "removed"} \cap Sources = {}
ASSUME LimitsAssumption ==
    /\ MaxAttempts \in Nat \ {0}
    /\ EditWindow \in Nat
    /\ Lease \in Nat
    /\ RetryDelay \in [1..MaxAttempts -> Nat]
    /\ BatchSize \in Nat
    /\ LastCreate \in Nat /\ MaxTime \in Nat /\ MaxEdits \in Nat /\ MaxCrashes \in Nat /\ Latency \in Nat

VARIABLES
    clock,      \* time.Now()
    row,        \* the two collections
    pending,    \* UpdatePost requests between reading the clock and their transaction
    run,        \* the cron runs
    job,        \* job[w]: the claim whose provider call run w is waiting for
    calls,      \* history: provider calls made for the current text of an item
    edits,      \* history: UpdatePost requests so far
    crashes     \* history: restarts so far

vars == <<clock, row, pending, run, job, calls, edits, crashes>>

Items  == Posts \cup Comments
NoTime == -1
Parent(i) == IF i \in Comments THEN PostOf[i] ELSE i

Row == [status   : {"absent", "active", "deleted"},
        src      : Sources,                 \* title, body
        hash     : Sources,                 \* original_hash
        editable : Nat,                     \* editable_until
        after    : Nat,                     \* translate_after
        tstatus  : {"pending", "processing", "failed", "ready"},
        attempts : 0..MaxAttempts,
        started  : Nat \cup {NoTime},
        cached   : Sources \cup {NoText}]   \* the text that `translations' translates

Request == [post : Posts, at : Nat, src : Sources]
Run     == [phase : {"idle", "posts", "comments"}, now : Nat, todo : SUBSET Items]
Job     == [item : Items, src : Sources, attempt : 1..MaxAttempts]

NoRow == [status |-> "absent", src |-> Blank, hash |-> Blank, editable |-> 0, after |-> 0,
          tstatus |-> "pending", attempts |-> 0, started |-> NoTime, cached |-> NoText]
IdleRun == [phase |-> "idle", now |-> 0, todo |-> {}]

Init ==
    /\ clock = 0
    /\ row = [i \in Items |-> NoRow]
    /\ pending = {}
    /\ run = [w \in Runs |-> IdleRun]
    /\ job = [w \in Runs |-> NoJob]
    /\ calls = [i \in Items |-> 0]
    /\ edits = 0
    /\ crashes = 0

-------------------------------------------------------------------------------
(* Authors.                                                                *)

Active(i) == row[i].status = "active" /\ row[Parent(i)].status = "active"

(* Photo-only comments are ready at once; the worker never sees them.      *)
InitialStatus(s) == IF s = Blank THEN "ready" ELSE "pending"

Fresh(s) ==
    [NoRow EXCEPT !.status = "active", !.src = s, !.hash = s,
                  !.editable = clock + EditWindow, !.after = clock + EditWindow,
                  !.tstatus = InitialStatus(s)]

Rewritten(r, s) ==
    [r EXCEPT !.src = s, !.hash = s, !.tstatus = InitialStatus(s), !.attempts = 0,
              !.started = NoTime, !.cached = NoText]

CreatePost(p, s) ==
    /\ row[p].status = "absent" /\ clock <= LastCreate
    /\ s # Blank
    /\ row' = [row EXCEPT ![p] = Fresh(s)]
    /\ UNCHANGED <<clock, pending, run, job, calls, edits, crashes>>

(* UpdatePost reads the clock before it asks for its transaction.          *)
BeginUpdatePost(p, s) ==
    /\ row[p].status = "active"
    /\ s # Blank
    /\ edits < MaxEdits
    /\ edits' = edits + 1
    /\ pending' = pending \cup {[post |-> p, at |-> clock, src |-> s]}
    /\ UNCHANGED <<clock, row, run, job, calls, crashes>>

UpdatePost(q) ==
    /\ pending' = pending \ {q}
    /\ IF row[q.post].status = "active" /\ q.at < row[q.post].editable
         THEN /\ row' = [row EXCEPT ![q.post] = Rewritten(@, q.src)]
              /\ calls' = [calls EXCEPT ![q.post] = 0]
         ELSE UNCHANGED <<row, calls>>
    /\ UNCHANGED <<clock, run, job, edits, crashes>>

(* Mutant: a deletion that keeps the cached translations.                  *)
Erased_KeepsCache(r) ==
    [r EXCEPT !.status = "deleted", !.src = Blank, !.started = NoTime]

Erased(r) ==
    [r EXCEPT !.status = "deleted", !.src = Blank, !.started = NoTime, !.cached = NoText]

(* Mutant: a deletion of the post alone.                                   *)
DeletePost_Alone(p) ==
    /\ row[p].status = "active"
    /\ row' = [row EXCEPT ![p] = [@ EXCEPT !.status = "deleted", !.started = NoTime,
                                           !.cached = NoText]]
    /\ UNCHANGED <<clock, pending, run, job, calls, edits, crashes>>

(* The post keeps its text as a private tombstone, its comments lose it.   *)
DeletePost(p) ==
    /\ row[p].status = "active"
    /\ row' = [i \in Items |->
                 IF i = p THEN [row[i] EXCEPT !.status = "deleted", !.started = NoTime,
                                              !.cached = NoText]
                 ELSE IF Parent(i) = p /\ row[i].status # "absent" THEN Erased(row[i])
                 ELSE row[i]]
    /\ UNCHANGED <<clock, pending, run, job, calls, edits, crashes>>

CreateComment(c, s) ==
    /\ row[c].status = "absent" /\ clock <= LastCreate
    /\ row[PostOf[c]].status = "active"
    /\ row' = [row EXCEPT ![c] = Fresh(s)]
    /\ UNCHANGED <<clock, pending, run, job, calls, edits, crashes>>

(* UpdateComment reads the clock inside its transaction.                   *)
UpdateComment(c, s) ==
    /\ Active(c)
    /\ clock < row[c].editable
    /\ s # row[c].src
    /\ row' = [row EXCEPT ![c] = Rewritten(@, s)]
    /\ calls' = [calls EXCEPT ![c] = 0]
    /\ UNCHANGED <<clock, pending, run, job, edits, crashes>>

DeleteComment(c) ==
    /\ row[c].status # "absent"
    /\ row[PostOf[c]].status = "active"
    /\ row' = [row EXCEPT ![c] = Erased(@)]
    /\ UNCHANGED <<clock, pending, run, job, calls, edits, crashes>>

-------------------------------------------------------------------------------
(* The worker.                                                             *)

(* Mutant: leases that never end.                                          *)
Claimable_NoLease(i, now) ==
    /\ Active(i) /\ row[i].attempts < MaxAttempts /\ row[i].after <= now
    /\ row[i].tstatus \in {"pending", "failed"}

(* translationClaimable, with the check of the parent post that            *)
(* claimTranslation makes before it and that the listing filter repeats.   *)
Claimable(i, now) ==
    /\ Active(i)
    /\ row[i].attempts < MaxAttempts
    /\ row[i].after <= now
    /\ \/ row[i].tstatus \in {"pending", "failed"}
       \/ /\ row[i].tstatus = "processing"
          /\ row[i].started # NoTime
          /\ row[i].started <= now - Lease

(* The listing query: the earliest translate_after first, a batch at most. *)
Listings(C, now) ==
    LET due == {i \in C : Claimable(i, now)} IN
    {B \in SUBSET due :
        /\ IsFiniteSet(B) /\ Cardinality(B) <= BatchSize
        /\ B # due => Cardinality(B) = BatchSize
        /\ \A i \in B, k \in due \ B : row[i].after <= row[k].after}

StartRun(w) ==
    /\ run[w].phase = "idle"
    /\ \E B \in Listings(Posts, clock) :
         run' = [run EXCEPT ![w] = [phase |-> "posts", now |-> clock, todo |-> B]]
    /\ UNCHANGED <<clock, row, pending, job, calls, edits, crashes>>

ListComments(w) ==
    /\ run[w].phase = "posts" /\ run[w].todo = {} /\ job[w] = NoJob
    /\ \E B \in Listings(Comments, run[w].now) :
         run' = [run EXCEPT ![w].phase = "comments", ![w].todo = B]
    /\ UNCHANGED <<clock, row, pending, job, calls, edits, crashes>>

EndRun(w) ==
    /\ run[w].phase = "comments" /\ run[w].todo = {} /\ job[w] = NoJob
    /\ run' = [run EXCEPT ![w] = IdleRun]
    /\ UNCHANGED <<clock, row, pending, job, calls, edits, crashes>>

(* claimTranslation; the run then waits for the provider.                  *)
Claimed(r, now) ==
    [r EXCEPT !.tstatus = "processing", !.attempts = @ + 1, !.started = now, !.hash = r.src]

Claim(w, i) ==
    /\ i \in run[w].todo /\ job[w] = NoJob
    /\ run' = [run EXCEPT ![w].todo = @ \ {i}]
    /\ IF Claimable(i, run[w].now)
         THEN /\ job' = [job EXCEPT ![w] = [item |-> i, src |-> row[i].src,
                                            attempt |-> row[i].attempts + 1]]
              /\ row' = [row EXCEPT ![i] = Claimed(@, run[w].now)]
              /\ calls' = [calls EXCEPT ![i] = @ + 1]
         ELSE UNCHANGED <<job, row, calls>>
    /\ UNCHANGED <<clock, pending, edits, crashes>>

(* Mutant: an answer is matched to its claim by the attempt number only.   *)
Holds_AttemptOnly(w) == row[job[w].item].attempts = job[w].attempt

(* The claim that run w holds is still the latest one on an active row.    *)
Holds(w) ==
    LET j == job[w] IN
    /\ Active(j.item)
    /\ row[j.item].tstatus = "processing"
    /\ row[j.item].attempts = j.attempt

(* Mutant: the answer is stored whatever the text is by now.               *)
Completed_Unchecked(r, j) ==
    [r EXCEPT !.cached = j.src, !.tstatus = "ready", !.started = NoTime]

(* completeTranslation, when it finds the text changed since the claim.    *)
Requeued(r) ==
    [r EXCEPT !.tstatus = "pending", !.attempts = 0, !.started = NoTime]

Completed(r, j) ==
    IF r.src = j.src /\ r.hash = j.src
      THEN [r EXCEPT !.cached = j.src, !.tstatus = "ready", !.started = NoTime]
      ELSE Requeued(r)

CompleteTranslation(w) ==
    /\ job[w] # NoJob
    /\ job' = [job EXCEPT ![w] = NoJob]
    /\ row' = IF Holds(w)
                THEN [row EXCEPT ![job[w].item] = Completed(@, job[w])]
                ELSE row
    /\ UNCHANGED <<clock, pending, run, calls, edits, crashes>>

(* Mutant: a failure that gives the attempt back.                          *)
Failed_Refunded(r, j, now) ==
    [r EXCEPT !.tstatus = "failed", !.started = NoTime, !.attempts = @ - 1]

Failed(r, j, now) ==
    [r EXCEPT !.tstatus = "failed", !.started = NoTime,
              !.after = IF j.attempt < MaxAttempts THEN now + RetryDelay[j.attempt] ELSE @]

FailTranslation(w) ==
    /\ job[w] # NoJob
    /\ job' = [job EXCEPT ![w] = NoJob]
    /\ row' = IF Holds(w) /\ row[job[w].item].hash = job[w].src
                THEN [row EXCEPT ![job[w].item] = Failed(@, job[w], run[w].now)]
                ELSE row
    /\ UNCHANGED <<clock, pending, run, calls, edits, crashes>>

-------------------------------------------------------------------------------
(* The process stops and starts again: runs and requests are gone, rows    *)
(* stay.  A failed save of an answer loses the job in the same way.        *)
Crash ==
    /\ crashes < MaxCrashes
    /\ crashes' = crashes + 1
    /\ run' = [w \in Runs |-> IdleRun]
    /\ job' = [w \in Runs |-> NoJob]
    /\ pending' = {}
    /\ UNCHANGED <<clock, row, calls, edits>>

(* With Latency < MaxTime time waits for whoever is late: a request or a   *)
(* run that has been going on for Latency, a row due for that long.        *)
Punctual ==
    /\ \A q \in pending : clock < q.at + Latency
    /\ \A w \in Runs : run[w].phase # "idle" => clock < run[w].now + Latency
    /\ \A i \in Items : ~Claimable(i, clock - Latency)

Tick ==
    /\ clock < MaxTime
    /\ Punctual
    /\ clock' = clock + 1
    /\ UNCHANGED <<row, pending, run, job, calls, edits, crashes>>

Author ==
    \/ \E p \in Posts, s \in Sources : CreatePost(p, s) \/ BeginUpdatePost(p, s)
    \/ \E p \in Posts : DeletePost(p)
    \/ \E c \in Comments, s \in Sources : CreateComment(c, s) \/ UpdateComment(c, s)
    \/ \E c \in Comments : DeleteComment(c)

Worker(w) ==
    \/ ListComments(w)
    \/ EndRun(w)
    \/ \E i \in Items : Claim(w, i)
    \/ CompleteTranslation(w)
    \/ FailTranslation(w)

Next ==
    \/ Author
    \/ \E q \in pending : UpdatePost(q)
    \/ \E w \in Runs : StartRun(w) \/ Worker(w)
    \/ Crash
    \/ Tick

Spec == Init /\ [][Next]_vars

(* The scheduler starts a run every minute, a run is never abandoned while *)
(* the process lives (its provider call has a timeout), a request gets its *)
(* transaction, time passes.  Authors owe nothing.                         *)
Fairness ==
    /\ WF_vars(\E w \in Runs : StartRun(w))
    /\ \A w \in Runs : WF_vars(Worker(w))
    /\ WF_vars(\E q \in pending : UpdatePost(q))
    /\ WF_vars(Tick)

FairSpec == Spec /\ Fairness

-------------------------------------------------------------------------------
TypeOK ==
    /\ clock \in Nat
    /\ row \in [Items -> Row]
    /\ pending \in SUBSET Request
    /\ run \in [Runs -> Run]
    /\ job \in [Runs -> Job \cup {NoJob}]
    /\ calls \in [Items -> Nat]
    /\ edits \in Nat
    /\ crashes \in Nat

(* No comment outlives its post: a comment is only created under an active *)
(* post and DeletePost erases the whole conversation in its transaction.   *)
CommentsFollowPost ==
    \A c \in Comments : row[c].status = "active" => row[PostOf[c]].status = "active"

(* A cached translation belongs to an active, ready row of an active post  *)
(* and translates the text the row has now, whatever was edited, deleted   *)
(* or claimed again while the provider was working.                        *)
CachedIsCurrent ==
    \A i \in Items : row[i].cached # NoText =>
        /\ Active(i)
        /\ row[i].tstatus = "ready"
        /\ row[i].cached = row[i].src

(* A readable row that says ready has the translation to serve, except a   *)
(* photo-only comment, which has nothing to translate.                     *)
ReadyIsCached ==
    \A i \in Items : Active(i) /\ row[i].tstatus = "ready" =>
        row[i].cached = row[i].src \/ row[i].src = Blank

(* A claim nobody is working on can be taken back when its lease is over:  *)
(* claimTranslation never leaves an active row in processing without the   *)
(* start time translationClaimable needs.                                  *)
ProcessingHasLease ==
    \A i \in Items : Active(i) /\ row[i].tstatus = "processing" =>
        /\ row[i].started # NoTime
        /\ row[i].started <= clock
        /\ row[i].attempts > 0

(* The provider is asked at most maxTranslationAttempts times about one    *)
(* text of a comment, over all runs, restarts and expired leases.          *)
CommentCallsBounded ==
    \A c \in Comments : calls[c] <= MaxAttempts

(* The same bound for every row ("Translation retries are bounded to five  *)
(* attempts"); a stale answer that meets a new claim breaks it for posts.  *)
CallsBounded ==
    \A i \in Items : calls[i] <= MaxAttempts

(* The worker translates the final text of a comment: once a comment was   *)
(* claimed its author can delete it but no longer change it.               *)
CommentTextFinal ==
    [][\A c \in Comments :
         /\ \E w \in Runs : job[w] # NoJob /\ job[w].item = c
         /\ row'[c].status = "active"
         => row'[c].src = row[c].src]_vars

(* Only its author takes a ready row back: a late answer or failure of a   *)
(* superseded claim changes nothing.                                       *)
ReadyIsStable ==
    [][\A i \in Items :
         /\ row[i].status = "active" /\ row[i].tstatus = "ready"
         /\ row'[i].tstatus # "ready"
         => row'[i].src # row[i].src \/ (pending' # pending /\ i \in Posts)]_vars

(* The columns of a row and of its post agree, whatever order edits,       *)
(* deletions, claims and answers came in.                                  *)
RowsAgree == TypeOK /\ CommentsFollowPost /\ ReadyIsCached /\ ProcessingHasLease

(* What is settled stays settled, whatever answer arrives late.            *)
LateAnswersChangeNothing == CommentTextFinal /\ ReadyIsStable

(* What the safety properties rest on: who holds a claim, on what.  An     *)
(* idle run holds none; a claim is made after the edit window of its row,  *)
(* so a claimed comment keeps the text and the hash it was claimed with    *)
(* and its attempts count the provider calls.                              *)
ClaimsInOrder ==
    /\ \A w \in Runs :
         /\ run[w].now <= clock
         /\ run[w].phase = "idle" => run[w].todo = {} /\ job[w] = NoJob
    /\ \A i \in Items : row[i].editable <= row[i].after
    /\ \A w \in Runs : job[w] # NoJob =>
         row[job[w].item].status # "absent" /\ row[job[w].item].editable <= run[w].now

CommentClaims ==
    \A c \in Comments :
        /\ row[c].status = "absent" => calls[c] = 0
        /\ row[c].status = "active" =>
            /\ row[c].hash = row[c].src
            /\ calls[c] = row[c].attempts
            /\ \A w \in Runs : job[w] # NoJob /\ job[w].item = c => job[w].src = row[c].src
        /\ calls[c] <= MaxAttempts

(* Every published text is eventually translated, deleted, or out of       *)
(* attempts; without a crash, out of attempts means visibly failed.        *)
Settled(i) ==
    \/ ~Active(i)
    \/ row[i].tstatus = "ready"
    \/ /\ row[i].attempts = MaxAttempts
       /\ row[i].tstatus = "failed" \/ (row[i].tstatus = "processing" /\ crashes > 0)

EventuallySettled == \A i \in Items : []<>Settled(i)

-------------------------------------------------------------------------------
(* The rows as readers see them.                                           *)
TextOf(r) ==
    CASE r.status = "absent"  -> "absent"
      [] r.status = "deleted" -> "removed"
      [] OTHER -> r.src

ReaderText    == [i \in Items |-> TextOf(row[i])]
ReaderOffered == [i \in Items |-> row[i].cached]

Published == INSTANCE PublishedCommunity
    WITH Absent <- "absent", Removed <- "removed",
         text <- ReaderText, offered <- ReaderOffered

(* Requests and cron runs together implement what readers are promised.    *)
PublishedSpec == Published!PSpec
===============================================================================
