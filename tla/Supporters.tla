------------------------------ MODULE Supporters ------------------------------
(***************************************************************************)
(* Supporter requests (handlers/arcade/admin/supporter_request.go and      *)
(* supporter_review.go, arcade/internal/supporter_score.go): a user whose  *)
(* experience reaches the threshold asks, staff decides once, an approval  *)
(* gives the role that other handlers trust.                               *)
(*                                                                         *)
(* Asking reads the ledger and the latest request first and saves          *)
(* afterwards, outside a transaction; a decision is one transaction.       *)
(***************************************************************************)
EXTENDS Integers, Sequences, FiniteSets, FiniteSetsExt

CONSTANTS
    People,
    Moderators,         \* tagged developer or moderator
    Managers,           \* official accounts of the arcade
    Threshold,          \* 300, which is also the experience of level 30
    Grants,             \* experience a row of the ledger may add or take back
    MaxRows, MaxRequests, \* bounds on the ledger and on the requests
    Asks,               \* requests to ask that can be under way at once
    NoAsk

ASSUME SupportersAssumption ==
    /\ Moderators \subseteq People /\ Managers \subseteq People
    /\ Threshold \in Nat \ {0} /\ MaxRows \in Nat /\ MaxRequests \in Nat
    /\ Grants \subseteq Int

VARIABLES
    role,       \* user.tags
    gone,       \* withdrawn users
    ledger,     \* user_level_log, oldest first
    requests,   \* supporter_request, oldest first
    asking      \* the user and the experience an ask has read, or NoAsk

supporterVars == <<role, gone, ledger, requests, asking>>

Tags     == {"moderator", "arcade_owner", "founding_supporter"}
Request  == [user : People, status : {"pending", "approved", "rejected"}, score : Int]

SupportersInit ==
    /\ role = [u \in People |-> (IF u \in Moderators THEN {"moderator"} ELSE {})
                                \cup (IF u \in Managers THEN {"arcade_owner"} ELSE {})]
    /\ gone = {} /\ ledger = <<>> /\ requests = <<>>
    /\ asking = [q \in Asks |-> NoAsk]

-------------------------------------------------------------------------------
(* The score.  user_level.exp is the sum of the user's rows (XpLedger).    *)

ExpAfter(u, k) == MapThenSumSet(LAMBDA i : ledger[i].exp,
                                {i \in 1..k : ledger[i].user = u})
Exp(u)       == ExpAfter(u, Len(ledger))
Qualified(u) == Exp(u) >= Threshold

RequestsOf(u) == {i \in DOMAIN requests : requests[i].user = u}

(* Nothing yet, or the latest one was turned down.                         *)
CanRequest(u) ==
    LET mine == RequestsOf(u) IN
    Qualified(u) /\ (mine # {} => requests[Max(mine)].status = "rejected")

-------------------------------------------------------------------------------
(* The operations.                                                         *)

(* The ledger moves on (XpLedger, ReportOutcome).                          *)
Earn(u, e) ==
    /\ Len(ledger) < MaxRows /\ u \notin gone
    /\ Exp(u) + e >= 0
    /\ ledger' = Append(ledger, [user |-> u, exp |-> e])
    /\ UNCHANGED <<role, gone, requests, asking>>

BuildSupporterScore(q, u) ==
    /\ asking[q] = NoAsk /\ u \notin gone
    /\ CanRequest(u)
    /\ asking' = [asking EXCEPT ![q] = [user |-> u, score |-> Exp(u)]]
    /\ UNCHANGED <<role, gone, ledger, requests>>

CreateSupporterRequest(q) ==
    /\ asking[q] # NoAsk /\ Len(requests) < MaxRequests
    /\ requests' = Append(requests, [user |-> asking[q].user, status |-> "pending",
                                     score |-> asking[q].score])
    /\ asking' = [asking EXCEPT ![q] = NoAsk]
    /\ UNCHANGED <<role, gone, ledger>>

ReviewSupporterRequest(i, decision) ==
    /\ i \in DOMAIN requests
    /\ requests[i].status = "pending" /\ requests[i].user \notin gone
    /\ requests' = [requests EXCEPT ![i].status = decision]
    /\ role' = IF decision = "approved"
                 THEN [role EXCEPT ![requests[i].user] = @ \cup {"founding_supporter"}]
                 ELSE role
    /\ UNCHANGED <<gone, ledger, asking>>

(* The account is withdrawn (Accounts): it manages nothing any more.       *)
Depart(u) ==
    /\ u \notin gone
    /\ gone' = gone \cup {u}
    /\ role' = [role EXCEPT ![u] = @ \ {"arcade_owner"}]
    /\ UNCHANGED <<ledger, requests, asking>>

SupportersNext ==
    \/ \E u \in People, e \in Grants : Earn(u, e)
    \/ \E q \in Asks, u \in People : BuildSupporterScore(q, u)
    \/ \E q \in Asks : CreateSupporterRequest(q)
    \/ \E i \in 1..MaxRequests, d \in {"approved", "rejected"} : ReviewSupporterRequest(i, d)
    \/ \E u \in People : Depart(u)

-------------------------------------------------------------------------------
SupportersTypeOK ==
    /\ role \in [People -> SUBSET Tags] /\ gone \subseteq People
    /\ ledger \in Seq([user : People, exp : Grants])
    /\ requests \in Seq(Request)
    /\ \A q \in Asks : asking[q] # NoAsk => asking[q].user \in People

(* Whatever asks and decisions crossed, exactly those are founding         *)
(* supporters who have a request that was approved, and every request      *)
(* shows the experience its user had at one time, which was enough         *)
(* (ReviewSupporterRequest: role and decision in one transaction;          *)
(* score_total is the snapshot of the moment of asking).                   *)
SupportersEarnedIt ==
    /\ \A u \in People : "founding_supporter" \in role[u]
                           <=> \E i \in RequestsOf(u) : requests[i].status = "approved"
    /\ \A i \in DOMAIN requests :
         /\ requests[i].score >= Threshold
         /\ \E k \in 0..Len(ledger) : requests[i].score = ExpAfter(requests[i].user, k)
===============================================================================
