---------------------------- MODULE ArcadeLists ----------------------------
(***************************************************************************)
(* What the public lists of arcades answer from one snapshot of candidates *)
(* (handlers/arcade/query, handlers/search, campaign/photo.go): arcades    *)
(* nearby, the plain list, the search and the photo campaign.              *)
(*                                                                         *)
(* An arcade is a number, its place in the database; what the lists read   *)
(* of it is a look; its games are in a sequence, as two installations may  *)
(* be alike.  Places are kilometres along a line.                          *)
(***************************************************************************)
EXTENDS Integers, Sequences, SequencesExt, FiniteSets

CONSTANTS
    Halls,              \* arcades, 1..N
    NoPlace, NoCabinet, NoCountry, NoPhoto, NoLimit,
    WordStarts,           \* <<a, b>>: word a begins word b
    PageSize

ASSUME ListsAssumption ==
    /\ IsFiniteSet(Halls) /\ Halls = 1..Cardinality(Halls)
    /\ PageSize \in Nat \ {0}

Distance(a, b) == IF a > b THEN a - b ELSE b - a

(* Candidates: the public arcades, in the order of the database.           *)
Candidates(db) == SelectSeq([h \in Halls |-> h], LAMBDA h : db[h].public)

Page(rows, n) == SubSeq(rows, (n - 1) * PageSize + 1,
                        IF n * PageSize > Len(rows) THEN Len(rows) ELSE n * PageSize)

LastPage(rows) == (Len(rows) + PageSize - 1) \div PageSize

-------------------------------------------------------------------------------
(* Nearby.                                                                 *)

CabinetMatches(filter, game) == filter.cabinet = NoCabinet \/ game.cabinet = filter.cabinet

MatchesFilter(filter, game) == game.series = filter.series /\ CabinetMatches(filter, game)

MatchesAllGames(look, filters) == \A f \in filters : \E g \in Range(look.games) : MatchesFilter(f, g)

(* One word begins some word of the address; several begin the words of a  *)
(* stretch of it.                                                          *)
AddressMatches(address, words) ==
    \E i \in 0..(Len(address) - Len(words)) :
        \A j \in 1..Len(words) : <<words[j], address[i+j]>> \in WordStarts

(* A query: where, which games, how far, which country and address, and    *)
(* whether the machines count.                                             *)
IsNear(look, q) ==
    /\ ~look.closed
    /\ look.named \/ look.address # <<>>
    /\ q.country = NoCountry \/ look.country = q.country
    /\ MatchesAllGames(look, q.filters)
    /\ q.words # <<>> => AddressMatches(look.address, q.words)
    /\ look.at # NoPlace
    /\ q.limit # NoLimit => Distance(look.at, q.here) <= q.limit

Machines(look, filters) ==
    LET counted(g) == filters = {} \/ \E f \in filters : MatchesFilter(f, g) IN
    FoldSeq(LAMBDA g, sum : sum + g.quantity, 0, SelectSeq(look.games, counted))

SortDistance(look, q) ==
    Distance(look.at, q.here) - (IF q.expand THEN 3 * Machines(look, q.filters) ELSE 0)

NearbyOrder(db, q, h, k) ==
    LET d(x) == Distance(db[x].at, q.here)
        s(x) == SortDistance(db[x], q) IN
    \/ s(h) < s(k)
    \/ s(h) = s(k) /\ d(h) < d(k)
    \/ s(h) = s(k) /\ d(h) = d(k) /\ h < k

Nearby(db, q) ==
    SetToSortSeq({h \in Halls : db[h].public /\ IsNear(db[h], q)}, LAMBDA h, k : NearbyOrder(db, q, h, k))

Countries(db, rows) == {db[rows[i]].country : i \in DOMAIN rows} \ {NoCountry}

(* The first row with the least distance.                                  *)
CountryTotals(db, q, rows) ==
    [c \in Countries(db, rows) |->
        LET own == SelectSeq(rows, LAMBDA h : db[h].country = c)
            nearer(best, h) == IF Distance(db[h].at, q.here) < Distance(db[best].at, q.here)
                                 THEN h ELSE best IN
        [total |-> Len(own), nearest |-> FoldLeft(nearer, own[1], own)]]

-------------------------------------------------------------------------------
(* The plain list and the photo campaign.                                  *)

Open(db, country) ==
    SelectSeq(Candidates(db), LAMBDA h : ~db[h].closed /\ (country = NoCountry \/ db[h].country = country))

(* Months since the latest public photo the arcade shows.                  *)
StaleAfter == 12

PhotoStatus(look) ==
    IF ~look.public \/ look.closed THEN "not_eligible"
    ELSE IF look.photo = NoPhoto THEN "missing"
    ELSE IF look.photo >= StaleAfter THEN "stale" ELSE "current"

PhotoOrder(db, live, here, h, k) ==
    LET missing(x) == live[x].photo = NoPhoto
        inf == 1000
        d(x) == IF here = NoPlace THEN 0
                ELSE IF db[x].at = NoPlace THEN inf ELSE Distance(db[x].at, here) IN
    \/ d(h) < d(k)
    \/ /\ d(h) = d(k)
       /\ \/ missing(h) /\ ~missing(k)
          \/ ~missing(h) /\ ~missing(k) /\ live[h].photo > live[k].photo
          \/ missing(h) /\ missing(k) /\ h < k
          \/ ~missing(h) /\ ~missing(k) /\ live[h].photo = live[k].photo /\ h < k

(* Arcades from the snapshot, their photos as they are now.                *)
PhotoTargets(db, live, here) ==
    SetToSortSeq({h \in Halls : db[h].public /\ ~db[h].closed
                             /\ PhotoStatus(live[h]) \in {"missing", "stale"}},
           LAMBDA h, k : PhotoOrder(db, live, here, h, k))

-------------------------------------------------------------------------------
(* The search.  A look says how each of its texts meets the query.         *)

TextRank(fields) ==
    IF "exact" \in fields THEN 0
    ELSE IF "prefix" \in fields THEN 1
    ELSE IF {"within", "words"} \cap fields # {} THEN 2 ELSE 3

Found(look, here) == TextRank(look.fields) <= 2 /\ (here # NoPlace => look.at # NoPlace)

Score(look, here) ==
    1000 * TextRank(look.fields) + (IF here = NoPlace THEN 0 ELSE Distance(look.at, here))

SearchOrder(db, here, h, k) ==
    LET s(x) == Score(db[x], here) IN
    s(h) < s(k) \/ (s(h) = s(k) /\ h < k)

(* Mutant: a result that does not beat the last is dropped at any length.  *)
Insert_Early(db, here, limit, rows, h) ==
    LET before(k) == SearchOrder(db, here, h, k)
        i == IF \A j \in DOMAIN rows : before(rows[j]) THEN 0
             ELSE CHOOSE j \in DOMAIN rows : ~before(rows[j]) /\ \A m \in (j+1)..Len(rows) : before(rows[m])
        longer == SubSeq(rows, 1, i) \o <<h>> \o SubSeq(rows, i + 1, Len(rows)) IN
    IF rows # <<>> /\ ~before(Last(rows)) THEN rows
    ELSE SubSeq(longer, 1, IF Len(longer) > limit THEN limit ELSE Len(longer))

(* The results so far are kept sorted and cut to the limit.                *)
Insert(db, here, limit, rows, h) ==
    LET before(k) == SearchOrder(db, here, h, k)
        i == IF \A j \in DOMAIN rows : before(rows[j]) THEN 0
             ELSE CHOOSE j \in DOMAIN rows : ~before(rows[j]) /\ \A m \in (j+1)..Len(rows) : before(rows[m])
        longer == SubSeq(rows, 1, i) \o <<h>> \o SubSeq(rows, i + 1, Len(rows)) IN
    IF Len(rows) = limit /\ ~before(Last(rows)) THEN rows
    ELSE SubSeq(longer, 1, IF Len(longer) > limit THEN limit ELSE Len(longer))

SearchArcades(db, here, limit) ==
    FoldLeft(LAMBDA rows, h : IF Found(db[h], here) THEN Insert(db, here, limit, rows, h) ELSE rows,
             <<>>, Candidates(db))
===============================================================================
