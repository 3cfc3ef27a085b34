------------------------------ MODULE MCPeople ------------------------------
(* Small instances of Accounts, of Attendance and of the notice board of an *)
(* arcade with its supporters, side by side: a behaviour uses one group of  *)
(* operations of one of them.                                               *)
EXTENDS Accounts, Attendance, ArcadeNotices, TLC

CONSTANTS s, i1, i2, e1, e2, n1, n2, ann, c1, c2, r1, r2

MCSymmetry == Permutations({i1, i2}) \cup Permutations({c1, c2}) \cup Permutations({r1, r2})

MCHome  == [a \in Arcades |-> IF a = 1 THEN "KR" ELSE "JP"]
MCShift == [a \in Arcades |-> IF a = 2 THEN 1 ELSE 0]
MCGrants == {-1, 1}
MCWhere == [a \in Arcades |-> a]

VARIABLE focus      \* the operations in use

MCKinds == [names  |-> {"signUp", "withdraw", "profile"},
            bans   |-> {"withdraw", "ban", "unban"},
            staff  |-> {"manage", "credentials", "withdraw"}]
MCBoards == {"asking", "roles", "slots", "reading"}
MCFoci == DOMAIN MCKinds \cup {"visits", "years"} \cup MCBoards

MCInit ==
    /\ AccountsInit /\ AttendanceInit /\ BoardInit /\ focus \in MCFoci
    /\ \A n \in Notices \ {1} : notice[n].state = "none"
    /\ focus \in {"slots", "reading"} => notice[1].state = "none"

MCVisits ==
    /\ AttendanceNext /\ UNCHANGED <<accountVars, supporterVars, noticeVars>>
    /\ focus = "visits" => UNCHANGED open /\ hour' < 2
    /\ focus = "years" =>
         /\ \A r \in Arrivals : arrival'[r].step \in {"none", "visit"}
         /\ Cardinality({r \in Arrivals : arrival'[r].step # "none"}) <= 1
         /\ visits' = visits => exp' = exp
         /\ open' \in {open, open \ {2}}

MCAccounts ==
    /\ AccountsNext /\ UNCHANGED <<attendanceVars, supporterVars, noticeVars>>
    /\ \A c \in Calls : call'[c] = call[c]
          \/ call'[c].kind \in MCKinds[focus] \cup {"none", "banning"}
    /\ focus = "bans" => \* one request of staff, one of others
         \A c, d \in Calls : c # d /\ call'[c] # Ended /\ call'[d] # Ended =>
            (call'[c].by = s) # (call'[d].by = s)
    /\ focus # "staff" => \A a \in Ids : account'[a].email # e2

MCBoard ==
    /\ BoardNext /\ UNCHANGED <<accountVars, attendanceVars>>
    /\ \A i \in DOMAIN ledger' : ledger'[i].user = 3
    /\ \A n, m \in Notices : m < n /\ notice'[m].state = "none" => notice'[n].state = "none"
    /\ focus = "asking" => UNCHANGED noticeVars
    /\ focus = "roles" =>
         /\ UNCHANGED <<view, clock>> /\ gone' \subseteq {2, 3}
         /\ Cardinality({q \in Asks : asking'[q] # NoAsk}) <= 1
         /\ Len(requests') <= 1 /\ Len(ledger') <= 2 /\ made' <= 1
         /\ \A n \in Notices : [notice'[n] EXCEPT !.state = "", !.by = 0, !.created = 0]
                                 = [NoNotice EXCEPT !.state = "", !.by = 0]
    /\ focus \in {"slots", "reading"} =>
         /\ UNCHANGED <<supporterVars, listed>>
         /\ Cardinality({c \in Editors : write'[c] # Idle}) <= 1
         /\ \A c \in Editors : write'[c] # Idle => write'[c].by = 1
         /\ \A n \in Notices : notice[n].state # "none" => notice[n].created # 0
    /\ focus = "slots" =>
         /\ UNCHANGED view /\ (removed' # removed => made = 3)
         /\ \A n \in Notices :
              /\ notice'[n].priority = 1
              /\ notice[n].state = "none" => notice'[n].until # 3
              /\ notice[n].state # "none" /\ notice'[n] # notice[n] =>
                   /\ made = 3
                   /\ notice'[n].mode = notice[n].mode \/ notice'[n].until = notice[n].until
    /\ focus = "reading" =>
         LET busy == \E r \in Viewers : view[r] # Idle IN
         /\ UNCHANGED removed /\ (made' # made => ~busy /\ clock = 1)
         /\ \A n \in Notices : notice'[n] # notice[n] =>
              /\ notice[n].state = "none" =>
                   /\ notice'[n].until # 3
                   /\ notice'[n].mode # "pinned" => notice'[n].priority = 1
                   /\ notice'[n].mode = "normal" => notice'[n].until = Never
              /\ notice[n].state # "none" =>
                   /\ busy /\ notice'[n].until \in {notice[n].until, 3}
                   /\ [notice'[n] EXCEPT !.until = 0, !.state = "kept"]
                        = [notice[n] EXCEPT !.until = 0, !.state = "kept"]

MCNext ==
    /\ UNCHANGED focus
    /\ CASE focus \in MCBoards            -> MCBoard
         [] focus \in {"visits", "years"} -> MCVisits
         [] OTHER                         -> MCAccounts

MCSpec == MCInit /\ [][MCNext]_<<accountVars, attendanceVars, supporterVars, noticeVars, focus>>
===============================================================================
