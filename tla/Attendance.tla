----------------------------- MODULE Attendance -----------------------------
(***************************************************************************)
(* Visits, daily check-ins, the passport and the country a profile shows   *)
(* (handlers/user: visit.go, checkin.go, passport.go, country.go,          *)
(* country_update.go).                                                     *)
(*                                                                         *)
(* Time is counted in half-days: a day of an arcade is two of them, shifted*)
(* by its timezone, and a year is YearDays days.  A visit is judged before *)
(* its transaction, and setting the profile country is three statements.   *)
(***************************************************************************)
EXTENDS XpLedger, Sequences

CONSTANTS
    Arcades,                \* arcades, numbered
    HomeCountry, Shift,     \* of each arcade: its country; its timezone
    Where,                  \* its place along a line, or Nowhere
    Nowhere, NoLand,
    Visitors,               \* users with a profile
    Arrivals,               \* requests that can be under way at once
    YearDays, MaxVisits, EndOfTime

ASSUME AttendanceAssumption ==
    /\ Arcades \subseteq Nat /\ Visitors \subseteq Named
    /\ HomeCountry \in [Arcades -> {HomeCountry[a] : a \in Arcades}]
    /\ NoLand \notin {HomeCountry[a] : a \in Arcades}
    /\ Shift \in [Arcades -> 0..2]
    /\ \A a \in Arcades : Where[a] # Nowhere => Where[a] \in Int
    /\ YearDays \in Nat \ {0} /\ MaxVisits \in Nat /\ EndOfTime \in Nat

VARIABLES
    open,       \* arcades that are public (closed ones only refuse visits: left out)
    visits,     \* arcade_visit, in the order the rows were made
    auto,       \* user_info.auto_primary_country
    arrival,    \* requests under way: what they have read
    exp,        \* the ledger
    hour        \* half-days

attendanceVars == <<open, visits, auto, arrival, exp, hour>>

Countries == {HomeCountry[a] : a \in Arcades}
Visit == [user : Visitors, arcade : Arcades, at : Nat, day : Nat, gained : {2, 5}]
Away == [step |-> "none"]

AttendanceInit ==
    /\ open = Arcades
    /\ visits = <<>>
    /\ auto = [u \in Visitors |-> NoLand]
    /\ arrival = [r \in Arrivals |-> Away]
    /\ exp = [exp |-> [u \in Users |-> 0], log |-> {}]
    /\ hour = 0

(* The local day of an arcade, and the day the check-in counts in.         *)
LocalDay(a, t) == (t + Shift[a]) \div 2
KSTDay(t) == t \div 2

-------------------------------------------------------------------------------
(* The country of a profile.                                               *)

\* Rows are known by their places.
VisitsOf(rows, u) == {i \in DOMAIN rows : rows[i].user = u}

(* Visits of user u at arcades that are public now.                        *)
PublicVisits(rows, u) == {i \in VisitsOf(rows, u) : rows[i].arcade \in open}

InCountry(rows, S, c) == {i \in S : HomeCountry[rows[i].arcade] = c}
ArcadesIn(rows, S) == {rows[i].arcade : i \in S}
CountriesIn(rows, S) == {HomeCountry[a] : a \in ArcadesIn(rows, S)}

Latest(rows, S) == Max({rows[i].at : i \in S})

(* What a country is ranked by: visits, then arcades, then recency.        *)
Standing(rows, S) == <<Cardinality(S), Cardinality(ArcadesIn(rows, S)), Latest(rows, S)>>

Above(r, q) ==
    \/ r[1] > q[1]
    \/ r[1] = q[1] /\ r[2] > q[2]
    \/ r[1] = q[1] /\ r[2] = q[2] /\ r[3] > q[3]

(* The country code breaks ties, and CHOOSE stands for it.                 *)
TopVisitedCountry(rows, u) ==
    LET all == PublicVisits(rows, u)
        rank == [c \in CountriesIn(rows, all) |-> Standing(rows, InCountry(rows, all, c))]
    IN IF all = {} THEN NoLand
       ELSE CHOOSE c \in DOMAIN rank : \A d \in DOMAIN rank : ~Above(rank[d], rank[c])

(* UpdateCountries in auto mode: the profile is saved, read again...       *)
ReadProfile(r, u) ==
    /\ arrival[r] = Away
    /\ arrival' = [arrival EXCEPT ![r] = [step |-> "read", user |-> u, old |-> auto[u]]]
    /\ UNCHANGED <<open, visits, auto, exp, hour>>

(* ...the visits are ranked...                                             *)
RankCountries(r) ==
    /\ arrival[r].step = "read"
    /\ arrival' = [arrival EXCEPT ![r] =
         [step |-> "ranked", user |-> @.user, old |-> @.old,
          new |-> TopVisitedCountry(visits, @.user)]]
    /\ UNCHANGED <<open, visits, auto, exp, hour>>

(* ...and the result is saved: a record saves the fields that differ from  *)
(* what was read.                                                          *)
Saved(value, old, new) == IF new = old THEN value ELSE new

SaveCountry(r) ==
    /\ arrival[r].step = "ranked"
    /\ LET q == arrival[r] IN
       auto' = [auto EXCEPT ![q.user] = Saved(@, q.old, q.new)]
    /\ arrival' = [arrival EXCEPT ![r] = Away]
    /\ UNCHANGED <<open, visits, exp, hour>>

-------------------------------------------------------------------------------
(* Visits and check-ins.                                                   *)

(* The request is judged and dated outside the transaction.                *)
Arrive(r, u, a) ==
    /\ arrival[r] = Away /\ a \in open /\ Where[a] # Nowhere
    /\ arrival' = [arrival EXCEPT ![r] =
         [step |-> "visit", user |-> u, arcade |-> a, at |-> hour, day |-> LocalDay(a, hour),
          first |-> \A i \in VisitsOf(visits, u) : visits[i].arcade # a]]
    /\ UNCHANGED <<open, visits, auto, exp, hour>>

VisitedOn(u, a, day) ==
    \E i \in VisitsOf(visits, u) : visits[i].arcade = a /\ visits[i].day = day

(* Mutant: earlier visits are looked for before the transaction.           *)
FirstVisit_Before(q) == q.first

FirstVisit(q) == \A i \in VisitsOf(visits, q.user) : visits[i].arcade # q.arcade

VisitGain(q) == IF FirstVisit(q) THEN 5 ELSE 2

VisitArcade(r) ==
    /\ arrival[r].step = "visit"
    /\ arrival' = [arrival EXCEPT ![r] = Away]
    /\ LET q == arrival[r] IN
       IF VisitedOn(q.user, q.arcade, q.day)
         THEN UNCHANGED <<visits, auto, exp>>
         ELSE LET row == [user |-> q.user, arcade |-> q.arcade, at |-> q.at, day |-> q.day,
                          gained |-> VisitGain(q)] IN
              /\ Len(visits) < MaxVisits
              /\ visits' = Append(visits, row)
              /\ exp' = Award(exp, q.user, <<"visit", Len(visits')>>, row.gained, hour)
              /\ auto' = [auto EXCEPT ![q.user] = TopVisitedCountry(visits', q.user)]
    /\ UNCHANGED <<open, hour>>

(* One point a day, by the day of the ledger.                              *)
CheckIn(u) ==
    /\ exp' = Award(exp, u, <<"check_in", KSTDay(hour)>>, 1, hour)
    /\ exp' # exp
    /\ UNCHANGED <<open, visits, auto, arrival, hour>>

(* Staff hides an arcade, or it is published again.                        *)
SetVisible(a) ==
    /\ open' = IF a \in open THEN open \ {a} ELSE open \cup {a}
    /\ UNCHANGED <<visits, auto, arrival, exp, hour>>

Pass ==
    /\ hour < EndOfTime /\ hour' = hour + 1
    /\ UNCHANGED <<open, visits, auto, arrival, exp>>

AttendanceNext ==
    \/ \E r \in Arrivals, u \in Visitors : ReadProfile(r, u)
    \/ \E r \in Arrivals : RankCountries(r)
    \/ \E r \in Arrivals : SaveCountry(r)
    \/ \E r \in Arrivals, u \in Visitors, a \in Arcades : Arrive(r, u, a)
    \/ \E r \in Arrivals : VisitArcade(r)
    \/ \E u \in Visitors : CheckIn(u)
    \/ \E a \in Arcades : SetVisible(a)
    \/ Pass

AttendanceSpec == AttendanceInit /\ [][AttendanceNext]_attendanceVars

-------------------------------------------------------------------------------
(* The passport: one aggregation behind every summary.                     *)

AllYears == -1
YearOf(day) == day \div YearDays
Years == {YearOf(visits[i].day) : i \in DOMAIN visits}

(* The rows in the order of their times, which need not be that of their   *)
(* days; ids break ties, and CHOOSE stands for them.                       *)
Stamped(u) ==
    LET mine == PublicVisits(visits, u)
        n == Cardinality(mine)
        order == CHOOSE f \in [1..n -> mine] :
                   \A i, j \in 1..n : i < j => f[i] # f[j] /\ visits[f[i]].at <= visits[f[j]].at
    IN [k \in 1..n |-> visits[order[k]]]

Apart(a, b) == IF Where[a] > Where[b] THEN Where[a] - Where[b] ELSE Where[b] - Where[a]

(* New arcades: those never seen before, selected or not.                  *)
NewIn(rows, sel) ==
    {i \in sel : \A j \in 1..(i - 1) : rows[j].arcade # rows[i].arcade}

Selected(rows, year) == {i \in DOMAIN rows : year = AllYears \/ YearOf(rows[i].day) = year}

OnDay(rows, S, day) == {i \in S : rows[i].day = day}
DaysIn(rows, S) == {rows[i].day : i \in S}

(* A leg counts if both its visits do.                                     *)
Leg(rows, S, i) == IF i - 1 \in S THEN Apart(rows[i].arcade, rows[i - 1].arcade) ELSE 0

Total(f) == MapThenSumSet(LAMBDA x : f[x], DOMAIN f)

PassportOf(rows, sel) ==
    [total     |-> Cardinality(sel),
     arcades   |-> Cardinality(ArcadesIn(rows, sel)),
     new       |-> Cardinality(NewIn(rows, sel)),
     days      |-> Cardinality(DaysIn(rows, sel)),
     busiest   |-> Max({0} \cup {Cardinality(ArcadesIn(rows, OnDay(rows, sel, d))) : d \in DaysIn(rows, sel)}),
     countries |-> [c \in CountriesIn(rows, sel) |->
                      [visits  |-> Cardinality(InCountry(rows, sel, c)),
                       arcades |-> Cardinality(ArcadesIn(rows, InCountry(rows, sel, c)))]],
     distance  |-> Total([i \in sel |-> Leg(rows, sel, i)])]

Passport(rows, year) == PassportOf(rows, Selected(rows, year))

-------------------------------------------------------------------------------
(* The shape of the state.                                                 *)
AttendanceTypeOK ==
    /\ open \subseteq Arcades /\ hour \in 0..EndOfTime
    /\ visits \in Seq(Visit)
    /\ auto \in [Visitors -> Countries \cup {NoLand}]

(* Whatever requests crossed midnight or each other, a user was paid for   *)
(* one first visit of an arcade, for no local day twice, and the           *)
(* experience is what the check-ins and the visits say, row by row.        *)
VisitsPaidOnce ==
    /\ \A i, j \in DOMAIN visits :
         i # j /\ visits[i].user = visits[j].user /\ visits[i].arcade = visits[j].arcade =>
           /\ visits[i].day # visits[j].day
           /\ visits[i].gained = 2 \/ visits[j].gained = 2
    /\ \A u \in Visitors :
         exp.exp[u] = Total([i \in VisitsOf(visits, u) |-> visits[i].gained])
                      + Cardinality({e \in exp.log : e.user = u /\ e.kind[1] = "check_in"})

(* The passport of all years is the sum of the passports of each: visits   *)
(* add up, every arcade is new in exactly one year, no year claims a day,  *)
(* a distance or a country the whole does not have.                        *)
AddsUp(rows) ==
    LET all == Passport(rows, AllYears)
        year == [y \in Years |-> Passport(rows, y)]
        countries == all.countries IN
    /\ all.total = Total([y \in Years |-> year[y].total])
    /\ all.arcades = Total([y \in Years |-> year[y].new]) /\ all.new = all.arcades
    /\ all.days = Total([y \in Years |-> year[y].days])
    /\ all.distance >= Total([y \in Years |-> year[y].distance])
    /\ all.total = Total([c \in DOMAIN countries |-> countries[c].visits])
    /\ all.arcades = Total([c \in DOMAIN countries |-> countries[c].arcades])
    /\ \A y \in Years : year[y].busiest <= all.busiest

PassportAddsUp == \A u \in Visitors : AddsUp(Stamped(u))

(* Visits, the experience they bring and the passport agree.               *)
VisitsAddUp == AttendanceTypeOK /\ VisitsPaidOnce /\ PassportAddsUp
===============================================================================
