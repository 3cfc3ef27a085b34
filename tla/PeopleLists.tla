---------------------------- MODULE PeopleLists ----------------------------
(***************************************************************************)
(* What the search says of users and what the rankings say of users and    *)
(* arcades (handlers/search/search.go, handlers/ranking/ranking.go).       *)
(*                                                                         *)
(* A face is what the queries read of a user: an account, its profile, its *)
(* visits and its ledger.  Users are numbers, in the order of their names. *)
(* Times are days before today: a visit or a row of age 0 is of today.     *)
(***************************************************************************)
EXTENDS ArcadeLists, XpLedger

CONSTANTS
    Periods,            \* lengths of the windows in days, AllTime for none
    AllTime, NoViewer,
    BoardSize,          \* places on a board
    Faces               \* what a user may look like

ASSUME PeopleListsAssumption ==
    /\ IsFiniteSet(Users) /\ Users \subseteq Nat
    /\ Periods \subseteq Nat /\ AllTime \in Nat
    /\ \A p \in Periods : p <= AllTime
    /\ NoViewer \notin Users
    /\ BoardSize \in Nat \ {0}

VARIABLES
    faces,      \* the users as they are in the database
    search      \* a search for users: what it has read

peopleVars == <<faces, search>>

NoSearch == [pc |-> "none"]

PeopleListsInit == faces \in [Users -> Faces] /\ search = NoSearch

-------------------------------------------------------------------------------
(* The search for users.  A face says how each of its texts meets the      *)
(* query.                                                                  *)

UserRank(face) ==
    IF "exact" \in face.fields THEN 0 ELSE IF "prefix" \in face.fields THEN 1 ELSE 2

UserOrder(fs, u, v) ==
    \/ UserRank(fs[u]) < UserRank(fs[v])
    \/ UserRank(fs[u]) = UserRank(fs[v]) /\ u < v

Matching(fs) == {u \in Users : fs[u].fields \cap {"exact", "prefix", "within"} # {}}

Cut(rows, n) == SubSeq(rows, 1, IF n > Len(rows) THEN Len(rows) ELSE n)

(* searchUserIDs reads three times the limit.                              *)
UserIds(fs, limit) ==
    Cut(SetToSortSeq(Matching(fs), LAMBDA u, v : UserOrder(fs, u, v)), 3 * limit)

(* The ids were read then; the profiles, and who has withdrawn, are read   *)
(* now.                                                                    *)
SearchUsers(then, now, limit) ==
    Cut(SelectSeq(UserIds(then, limit), LAMBDA u : ~now[u].withdrawn), limit)

-------------------------------------------------------------------------------
(* The rankings of users.                                                  *)

Within(rows, period) == {r \in rows : period = AllTime \/ r.age <= period}

(* Visits at arcades that are public.                                      *)
Seen(db, face, period) == {v \in Within(face.visits, period) : db[v.arcade].public}

GainedIn(face, period) == MapThenSumSet(LAMBDA e : e.diff, Within(face.log, period))

(* The inverse of the formula of LevelBaseExp, by the integers below a     *)
(* root.                                                                   *)
LevelOf(e) == CHOOSE l \in 0..e : 6*l*l + 110*l <= 29*e + 14
                                   /\ 6*(l+1)*(l+1) + 110*(l+1) > 29*e + 14

(* The level an account of so many days may be shown with.                 *)
LevelCap(days) ==
    IF days <= 30 THEN 10 + (days * 40) \div 30
    ELSE IF days <= 45 THEN 50 + ((days - 30) * 25) \div 15
    ELSE IF days <= 365 THEN 75 + ((days - 45) * 25) \div 320
    ELSE 100 + ((days - 365) * 90) \div 365

Least(a, b) == IF a < b THEN a ELSE b

(* Levels have no period.                                                  *)
MetricsOf(period) == {"explorer", "visits", "xp"} \cup (IF period = AllTime THEN {"level"} ELSE {})

Scored(db, face, metric, period) ==
    CASE metric = "explorer" -> Cardinality({v.arcade : v \in Seen(db, face, period)})
      [] metric = "visits"   -> Cardinality(Seen(db, face, period))
      [] metric = "xp"       -> GainedIn(face, period)
      [] metric = "level"    -> Least(LevelOf(face.exp), LevelCap(face.days))

(* Who is ranked: visits that are private do not count.                    *)
Ranked(db, fs, metric, period) ==
    {u \in Users :
        /\ ~fs[u].withdrawn
        /\ IF metric = "level" THEN fs[u].exp > 0
                               ELSE Scored(db, fs[u], metric, period) > 0
        /\ metric \in {"explorer", "visits"} => ~fs[u].private}

(* Equal scores share a rank; places are told apart by the name.           *)
Place(score, u) ==
    [user |-> u, score |-> score[u],
     rank |-> 1 + Cardinality({v \in DOMAIN score : score[v] > score[u]}),
     position |-> 1 + Cardinality({v \in DOMAIN score :
                        score[v] > score[u] \/ (score[v] = score[u] /\ v < u)})]

(* A board and, wherever it is, the place of the one who asks.             *)
Board(db, fs, metric, period, viewer) ==
    LET score == [u \in Ranked(db, fs, metric, period) |->
                    Scored(db, fs[u], metric, period)]
        places == {Place(score, u) : u \in DOMAIN score} IN
    [entries |-> SetToSortSeq({p \in places : p.position <= BoardSize},
                        LAMBDA p, q : p.position < q.position),
     viewer  |-> {p \in places : p.user = viewer}]

(* The levels gained in the window of the experience board.                *)
LevelChange(face, score) ==
    LevelFromExp(face.exp) - LevelFromExp(IF score > face.exp THEN 0 ELSE face.exp - score)

(* What the explorers travelled: between visits in order of their times,   *)
(* both at arcades with a location.                                        *)
Travelled(db, face, period) ==
    LET rows == SetToSortSeq(Seen(db, face, period), LAMBDA v, w : v.age > w.age)
        leg(i) == IF db[rows[i].arcade].at = NoPlace \/ db[rows[i-1].arcade].at = NoPlace THEN 0
                  ELSE Distance(db[rows[i].arcade].at, db[rows[i-1].arcade].at) IN
    MapThenSumSet(leg, 2..Len(rows))

-------------------------------------------------------------------------------
(* The ranking of arcades, by what their visitors gained.                  *)

VisitsAt(fs, h, period) ==
    {<<u, v>> \in UNION {{<<u, v>> : v \in Within(fs[u].visits, period)} : u \in Users} :
        v.arcade = h}

HallScore(fs, h, period) == MapThenSumSet(LAMBDA x : x[2].gained, VisitsAt(fs, h, period))

HallBoard(db, fs, period) ==
    LET score == [h \in {x \in Halls : db[x].public /\ HallScore(fs, x, period) > 0} |->
                    HallScore(fs, h, period)]
        places == {Place(score, h) : h \in DOMAIN score} IN
    SetToSortSeq({p \in places : p.position <= BoardSize}, LAMBDA p, q : p.position < q.position)

-------------------------------------------------------------------------------
(* A search is two statements; users change meanwhile.                     *)

ReadIds(limit) ==
    /\ search = NoSearch
    /\ search' = [pc |-> "ids", then |-> faces, limit |-> limit]
    /\ UNCHANGED faces

ReadProfiles ==
    /\ search.pc = "ids"
    /\ search' = [pc |-> "done", then |-> search.then, limit |-> search.limit,
                  users |-> SearchUsers(search.then, faces, search.limit)]
    /\ UNCHANGED faces

Reply == search.pc = "done" /\ search' = NoSearch /\ UNCHANGED faces

ChangeFace(u, face) == faces' = [faces EXCEPT ![u] = face] /\ UNCHANGED search

PeopleListsNext ==
    \/ \E limit \in 1..2 : ReadIds(limit)
    \/ ReadProfiles \/ Reply
    \/ \E u \in Users, face \in Faces : ChangeFace(u, face)

-------------------------------------------------------------------------------
(* Properties.                                                             *)

(* A search shows nobody who has withdrawn by the time it is answered, only*)
(* users who matched, the better match first; and it leaves out an active  *)
(* match for nothing but the limit, unless more than twice as many         *)
(* withdrawn accounts matched (searchUserIDs reads three times the limit   *)
(* before buildUserResults knows who has withdrawn).                       *)
SearchIsHonest ==
    [][search'.pc = "done" /\ search.pc = "ids" =>
         LET active == {u \in Matching(search.then) : ~faces[u].withdrawn}
             gone == Matching(search.then) \ active
             best == SetToSortSeq(active, LAMBDA u, v : UserOrder(search.then, u, v)) IN
         /\ IsPrefix(search'.users, best)
         /\ Cardinality(gone) <= 2 * search.limit => search'.users = Cut(best, search.limit)
      ]_peopleVars

(* The boards agree with each other, with the ledger and with who may be   *)
(* seen: whoever withdrew or keeps visits private is on none that would    *)
(* show it; the one who asks has the same place as on the board, and one   *)
(* below it where the board is full; ties share a rank and never make a    *)
(* board longer; a longer period counts no less; the level shown is that of*)
(* the ledger, capped by age, though SQL computes it by a root and the     *)
(* ledger by counting up (ranking.load, metricQuery).                      *)
BoardsAgree(db) ==
    \A period \in Periods :
        LET scored(m, u) == Scored(db, faces[u], m, period) IN
        /\ \A m \in MetricsOf(period), viewer \in Users \cup {NoViewer} :
             LET b == Board(db, faces, m, period, viewer)
                 rows == b.entries IN
             /\ Len(rows) <= BoardSize
             /\ \A i \in DOMAIN rows :
                  /\ ~faces[rows[i].user].withdrawn
                  /\ m \in {"explorer", "visits"} => ~faces[rows[i].user].private
                  /\ i > 1 => /\ rows[i].score <= rows[i-1].score
                              /\ rows[i].rank = IF rows[i].score = rows[i-1].score
                                                   THEN rows[i-1].rank ELSE i
                  /\ rows[i].user = viewer => b.viewer = {rows[i]}
             /\ b.viewer = {} => viewer = NoViewer \/ faces[viewer].withdrawn \/ faces[viewer].private
                                   \/ scored(m, viewer) <= 0 \/ faces[viewer].exp = 0
             /\ \A p \in b.viewer : p.position > BoardSize => Len(rows) = BoardSize
        /\ \A u \in Users :
             /\ scored("explorer", u) <= scored("visits", u)
             /\ \A longer \in {q \in Periods : q >= period} :
                  /\ scored("visits", u) <= Scored(db, faces[u], "visits", longer)
                  /\ scored("explorer", u) <= Scored(db, faces[u], "explorer", longer)
                  /\ Travelled(db, faces[u], period) <= Travelled(db, faces[u], longer)
             /\ scored("level", u) <= LevelFromExp(faces[u].exp)
             /\ LevelOf(faces[u].exp) = LevelFromExp(faces[u].exp)
             /\ faces[u].exp = GainedIn(faces[u], AllTime) /\ scored("xp", u) >= 0 =>
                  LevelChange(faces[u], scored("xp", u)) \in 0..LevelFromExp(faces[u].exp)
        /\ \A i \in DOMAIN HallBoard(db, faces, period) :
             db[HallBoard(db, faces, period)[i].user].public
===============================================================================
