--------------------------- MODULE ArcadeSections ---------------------------
(***************************************************************************)
(* One arcade from draft to publication (handlers/arcade): its parts and   *)
(* their revisions, the changelog, photos, the creator's proof of          *)
(* location, publication, rollbacks with reports, and the experience paid  *)
(* for it all.                                                             *)
(*                                                                         *)
(* A handler that works inside one transaction is one action.  Two are     *)
(* not: an edit of the basics looks geography up between its read and its  *)
(* transaction, and a publication is judged before it.  They are a request *)
(* that begins and a commit that finishes it.                              *)
(***************************************************************************)
EXTENDS XpEdits

CONSTANTS
    Creator, Moderators,    \* who made the arcade; strict reviewers
    Parts,                  \* parts in use beside "basic"
    Names,                  \* names an arcade can be given
    Places,                 \* kilometres along a line
    CountryOf,              \* the country of each place, by the geo lookup
    Cities, CityCountry,    \* imported cities and their countries
    NearestCity,            \* the city the lookup finds for each place
    NoCity, NoCountry, System, Keep,
    Atoms,                  \* photos, numbered as they are uploaded
    Requests,               \* requests that can be under way at once
    Bodies,                 \* what edits of the basics ask for
    StartExp,               \* experience of everybody at the start
    MaxMoves, MaxReports, MaxTime   \* bounds on changelog, reports and clock

ASSUME SectionsAssumption ==
    /\ Creator \in Users /\ Moderators \subseteq Users
    /\ Parts \subseteq {"hour", "sns", "gtk", "memo", "game", "photo"}
    /\ Places \subseteq Nat /\ Atoms \subseteq Nat /\ IsFiniteSet(Atoms)
    /\ CountryOf \in [Places -> {CountryOf[p] : p \in Places}]
    /\ NearestCity \in [Places -> Cities \cup {NoCity}]
    /\ StartExp \in Nat
    /\ Bodies \subseteq [name : Names \cup {Keep}, place : Places \cup {Keep},
                         city : Cities \cup {NoCity, Keep}]

VARIABLES
    arcade,     \* the flags of the aggregate: public, closed, country, proof
    values,     \* values[p]: every revision of part p
    ptr,        \* ptr[p]: the present one, 0 for none
    log,        \* arcade_changelog
    atoms,      \* arcade_photo_atoms: absent, pending, public or deleted
    owner,      \* who uploaded an atom
    req,        \* what a request knew when it began
    reports,    \* arcade_request_admin: reports about changes
    stood,      \* history: where the creator proved to be
    xp, clock

vars == <<arcade, values, ptr, log, atoms, owner, req, reports, stood, xp, clock>>

AllParts == Parts \cup {"basic"}

Basic == [name : Names, place : Places, city : Cities \cup {NoCity}]
Idle  == [kind |-> "idle"]
Countries == {CountryOf[p] : p \in Places}

Init ==
    /\ arcade = [public |-> FALSE, closed |-> FALSE, country |-> NoCountry, proof |-> 0]
    /\ values = [p \in AllParts |-> <<>>]
    /\ ptr = [p \in AllParts |-> 0]
    /\ log = <<>>
    /\ atoms = [a \in Atoms |-> "absent"]
    /\ owner = [a \in Atoms |-> Creator]
    /\ req = [r \in Requests |-> Idle]
    /\ reports = <<>>
    /\ stood = {}
    /\ xp = [exp |-> [u \in Users |-> StartExp], log |-> {}]
    /\ clock = 0

Exists == ptr["basic"] # 0
Current == values["basic"][ptr["basic"]]

CanWrite(u) == arcade.public \/ u = Creator \/ u \in Moderators

-------------------------------------------------------------------------------
(* Pointer and changelog move together.                                    *)
Move(p, to, by) ==
    /\ Len(log) < MaxMoves
    /\ ptr' = [ptr EXCEPT ![p] = to]
    /\ log' = Append(log, [part |-> p, from |-> ptr[p], to |-> to, by |-> by])

Replace(p, v, by) ==
    /\ values' = [values EXCEPT ![p] = Append(@, v)]
    /\ Move(p, Len(values[p]) + 1, by)

PaidEdit(u, p) == xp' = IF arcade.public THEN AwardEdit(xp, u, p, clock) ELSE xp

-------------------------------------------------------------------------------
(* The basics.                                                             *)

NewArcade ==
    /\ ~Exists
    /\ \E n \in Names, pl \in Places :
         /\ Replace("basic", [name |-> n, place |-> pl, city |-> NearestCity[pl]], Creator)
         /\ arcade' = [arcade EXCEPT !.country = CountryOf[pl]]
    /\ UNCHANGED <<atoms, owner, req, reports, stood, xp, clock>>

Given(field, old) == IF field = Keep THEN old ELSE field

(* A city that is not given is looked up again when the place is given.    *)
Merge(cur, b) ==
    [name  |-> Given(b.name, cur.name),
     place |-> Given(b.place, cur.place),
     city  |-> IF b.city # Keep THEN b.city
               ELSE IF b.place # Keep THEN NearestCity[b.place] ELSE cur.city]

MoveLimit(level) == IF level < 10 THEN 1 ELSE IF level < 15 THEN 5 ELSE 10

Distance(a, b) == IF a < b THEN b - a ELSE a - b

(* validateLocationMove, from the place the request read.                  *)
MayMove(u, from, to) ==
    LET level == LevelFromExp(xp.exp[u]) IN
    \/ from = to
    \/ level < 30 /\ Distance(from, to) <= MoveLimit(level)
    \/ level >= 30 /\ arcade.country = CountryOf[to]

(* SyncArcadeCountryByGeoResult: a public arcade stays in its country.     *)
Synced(b) == IF b.place = Keep THEN arcade.country ELSE CountryOf[b.place]
MaySync(b) == Synced(b) = arcade.country \/ ~arcade.public

CityFits(city, country) == city # NoCity => CityCountry[city] = country

(* The client may name a base, any revision it has ever seen.  It is not   *)
(* compared with what is read and merged here.                             *)
BeginBasic(r, u) ==
    /\ Exists /\ req[r] = Idle /\ CanWrite(u)
    /\ \E b \in Bodies, base \in 0..Len(values["basic"]) :
         /\ Merge(Current, b) # Current
         /\ req' = [req EXCEPT ![r] = [kind |-> "basic", by |-> u, body |-> b,
                                       base |-> base, read |-> ptr["basic"]]]
    /\ UNCHANGED <<arcade, values, ptr, log, atoms, owner, reports, stood, xp, clock>>

(* Mutant: the base revision is not compared.                              *)
BasicAllowed_AnyBase(q) == CanWrite(q.by)

BasicAllowed(q) == CanWrite(q.by) /\ q.base \in {0, ptr["basic"]}

CommitBasic(r) ==
    LET q    == req[r]
        cur  == values["basic"][q.read]
        next == Merge(cur, q.body) IN
    /\ q.kind = "basic"
    /\ BasicAllowed(q)
    /\ CityFits(next.city, Synced(q.body))
    /\ MaySync(q.body)
    /\ MayMove(q.by, cur.place, next.place)
    /\ Replace("basic", next, q.by)
    /\ arcade' = [arcade EXCEPT !.country = Synced(q.body)]
    /\ PaidEdit(q.by, "basic")
    /\ req' = [req EXCEPT ![r] = Idle]
    /\ UNCHANGED <<atoms, owner, reports, stood, clock>>

(* The lookup failed, the transaction refused, or the client went away.    *)
Fail(r) ==
    /\ req[r] # Idle
    /\ req' = [req EXCEPT ![r] = Idle]
    /\ UNCHANGED <<arcade, values, ptr, log, atoms, owner, reports, stood, xp, clock>>

(* The guarded back-fill of cities: no experience.                         *)
ApplyCityAssignment(by) ==
    /\ Exists
    /\ \E city \in Cities, base \in 1..Len(values["basic"]) :
         /\ Current.city # city
         /\ ptr["basic"] = base
         /\ CityCountry[city] = arcade.country
         /\ Replace("basic", [Current EXCEPT !.city = city], by)
    /\ UNCHANGED <<arcade, atoms, owner, req, reports, stood, xp, clock>>

-------------------------------------------------------------------------------
(* Parts that are replaced as a whole, each in one transaction.            *)

Section(u, p, v) ==
    /\ Exists /\ p \in Parts /\ CanWrite(u)
    /\ Replace(p, v, u)
    /\ UNCHANGED <<arcade, atoms, owner, req, reports, stood, clock>>

UpdateArcadeHour(u) == Section(u, "hour", "some") /\ PaidEdit(u, "hour")

UpdateArcadeSNS(u) == \E v \in {"some", "none"} : Section(u, "sns", v) /\ PaidEdit(u, "sns")

UpdateArcadeGTK(u) == Section(u, "gtk", "some") /\ PaidEdit(u, "gtk")

(* A document that is already there is not saved again.                    *)
UpdateArcadeMemo(u) ==
    \E v \in {"some", "none"} :
        /\ "memo" \in Parts
        /\ ptr["memo"] # 0 => values["memo"][ptr["memo"]] # v
        /\ Section(u, "memo", v) /\ UNCHANGED xp

(* What ArcadeGames models in detail: here a batch with rows or without.   *)
UpdateArcadeGame(u) ==
    \E v \in {"some", "none"} :
        /\ Section(u, "game", v)
        /\ xp' = IF arcade.public THEN AwardGameEdit(xp, u, {v}, clock) ELSE xp

-------------------------------------------------------------------------------
(* Photos.                                                                 *)

Upload(u, a) ==
    /\ Exists /\ CanWrite(u) /\ "photo" \in Parts
    /\ a = Min({b \in Atoms : atoms[b] = "absent"} \cup {a + 1})
    /\ atoms' = [atoms EXCEPT ![a] = "pending"]
    /\ owner' = [owner EXCEPT ![a] = u]
    /\ UNCHANGED <<arcade, values, ptr, log, req, reports, stood, xp, clock>>

Stored == {a \in Atoms : atoms[a] \in {"pending", "public"}}

Promote(S) == atoms' = [a \in Atoms |-> IF a \in S THEN "public" ELSE atoms[a]]

(* "target": a campaign asks for photos of this arcade.                    *)
UpdateArcadePhoto(u, S, target) ==
    LET fresh == {a \in S : atoms[a] = "pending"} IN
    /\ S # {} /\ S \subseteq Stored /\ (target => arcade.public)
    /\ Exists /\ CanWrite(u) /\ "photo" \in Parts
    /\ Promote(S)
    /\ Replace("photo", S, u)
    /\ xp' = IF arcade.public /\ fresh # {}
               THEN AwardPhotos(xp, u, fresh, target, clock) ELSE xp
    /\ UNCHANGED <<arcade, owner, req, reports, stood, clock>>

(* Mutant: a photo can be deleted once it is public.                       *)
Deletable_Any(u, a) == CanWrite(u) /\ a \in Stored /\ (owner[a] = u \/ u \in Moderators)

Deletable(u, a) ==
    CanWrite(u) /\ atoms[a] = "pending" /\ (owner[a] = u \/ u \in Moderators)

DeleteArcadePhotoAtom(u, a) ==
    /\ Deletable(u, a)
    /\ atoms' = [atoms EXCEPT ![a] = "deleted"]
    /\ UNCHANGED <<arcade, values, ptr, log, owner, req, reports, stood, xp, clock>>

-------------------------------------------------------------------------------
(* Publication.                                                            *)

VerifyArcadeLocation ==
    /\ Exists /\ ~arcade.public /\ ~arcade.closed
    /\ arcade' = [arcade EXCEPT !.proof = ptr["basic"]]
    /\ stood' = stood \cup {Current.place}
    /\ UNCHANGED <<values, ptr, log, atoms, owner, req, reports, xp, clock>>

Registered(p) == p \in Parts /\ ptr[p] # 0 /\ values[p][ptr[p]] = "some"

(* Mutant: a proof outlives the revision it was made for.                  *)
LocationVerified_Ever == arcade.proof # 0

LocationVerified == arcade.proof # 0 /\ arcade.proof = ptr["basic"]

HasPhoto == "photo" \in Parts /\ ptr["photo"] # 0

RequirementsMet(level) ==
    /\ Registered("game")
    /\ level < 5 => Registered("sns") \/ Registered("hour")
    /\ level < 10 => HasPhoto \/ LocationVerified

BeginPublic(r) ==
    LET level == LevelFromExp(xp.exp[Creator]) IN
    /\ Exists /\ req[r] = Idle /\ ~arcade.closed /\ ~arcade.public
    /\ RequirementsMet(level)
    /\ req' = [req EXCEPT ![r] = [kind |-> "public", by |-> Creator, level |-> level]]
    /\ UNCHANGED <<arcade, values, ptr, log, atoms, owner, reports, stood, xp, clock>>

(* The requirements are checked again, at the level read before; that the  *)
(* arcade is private and open is not.                                      *)
CommitPublic(r) ==
    /\ req[r].kind = "public"
    /\ RequirementsMet(req[r].level)
    /\ arcade' = [arcade EXCEPT !.public = TRUE]
    /\ xp' = AwardPublication(xp, Creator, log, clock)
    /\ req' = [req EXCEPT ![r] = Idle]
    /\ UNCHANGED <<values, ptr, log, atoms, owner, reports, stood, clock>>

(* By a reviewer, for any reason: country included.                        *)
UpdateArcadeStatus(public, closed, country) ==
    /\ Exists
    /\ arcade' = [arcade EXCEPT !.public = public, !.closed = closed, !.country = country]
    /\ arcade' # arcade
    /\ UNCHANGED <<values, ptr, log, atoms, owner, req, reports, stood, xp, clock>>

-------------------------------------------------------------------------------
(* Rollback and reports about changes.                                     *)

OpenReports(c) == {i \in 1..Len(reports) : reports[i].change = c /\ reports[i].status # "done"}

Reportable(u, c) ==
    c \in 1..Len(log) /\ CanWrite(u) /\ log[c].by # System /\ OpenReports(c) = {}

Reported(kind, u, c) ==
    /\ Len(reports) < MaxReports
    /\ reports' = Append(reports, [kind |-> kind, change |-> c, editor |-> log[c].by,
                                   by |-> u, status |-> "waiting"])

CreateArcadeEditReport(u, c) ==
    /\ Exists /\ Reportable(u, c)
    /\ Reported("edit_report", u, c)
    /\ UNCHANGED <<arcade, values, ptr, log, atoms, owner, req, stood, xp, clock>>

RollbackArcadePart(u, p, to, c) ==
    /\ Exists /\ CanWrite(u)
    /\ ptr[p] # 0 /\ to # ptr[p]
    /\ Move(p, to, u)
    /\ IF c = 0 THEN UNCHANGED reports
       ELSE Reportable(u, c) /\ Reported("rollback_report", u, c)
    /\ UNCHANGED <<arcade, values, atoms, owner, req, stood, xp, clock>>

ReviewArcadeRequest(i) ==
    /\ reports[i].status # "done"
    /\ reports' = [reports EXCEPT ![i].status = "done"]
    /\ UNCHANGED <<arcade, values, ptr, log, atoms, owner, req, stood, xp, clock>>

Tick ==
    /\ clock < MaxTime /\ clock' = clock + 1
    /\ UNCHANGED <<arcade, values, ptr, log, atoms, owner, req, reports, stood, xp>>

-------------------------------------------------------------------------------
Next ==
    \/ NewArcade
    \/ \E r \in Requests : \/ CommitBasic(r) \/ Fail(r) \/ BeginPublic(r) \/ CommitPublic(r)
                           \/ \E u \in Users : BeginBasic(r, u)
    \/ \E u \in Users :
         \/ UpdateArcadeHour(u) \/ UpdateArcadeSNS(u) \/ UpdateArcadeGTK(u)
         \/ UpdateArcadeMemo(u) \/ UpdateArcadeGame(u)
         \/ \E a \in Atoms : Upload(u, a) \/ DeleteArcadePhotoAtom(u, a)
         \/ \E S \in SUBSET Stored, target \in BOOLEAN : UpdateArcadePhoto(u, S, target)
         \/ \E c \in 1..Len(log) : CreateArcadeEditReport(u, c)
         \/ \E p \in AllParts : \E to \in 1..Len(values[p]), c \in 0..Len(log) :
                RollbackArcadePart(u, p, to, c)
    \/ \E by \in Users \cup {System} : ApplyCityAssignment(by)
    \/ VerifyArcadeLocation
    \/ \E public, closed \in BOOLEAN, country \in Countries :
           UpdateArcadeStatus(public, closed, country)
    \/ \E i \in 1..Len(reports) : ReviewArcadeRequest(i)
    \/ Tick

Spec == Init /\ [][Next]_vars
-------------------------------------------------------------------------------
(* Properties.                                                             *)

Values(p) == IF p = "basic" THEN Basic
             ELSE IF p = "photo" THEN (SUBSET Atoms) \ {{}} ELSE {"some", "none"}

(* The shape of the state: every pointer and every changelog row is about  *)
(* revisions of its own part that exist (arcade_update_helper.go).         *)
TypeOK ==
    /\ arcade \in [public : BOOLEAN, closed : BOOLEAN,
                   country : Countries \cup {NoCountry}, proof : 0..Len(values["basic"])]
    /\ \A p \in AllParts : values[p] \in Seq(Values(p)) /\ ptr[p] \in 0..Len(values[p])
    /\ \A e \in Range(log) :
         /\ e.part \in AllParts /\ e.by \in Users \cup {System}
         /\ e.from \in 0..Len(values[e.part]) /\ e.to \in 1..Len(values[e.part])
    /\ atoms \in [Atoms -> {"absent", "pending", "public", "deleted"}]
    /\ owner \in [Atoms -> Users]
    /\ \A r \in Requests : req[r].kind = "basic" => req[r].read \in 1..Len(values["basic"])
    /\ \A x \in Range(reports) : x.change \in 1..Len(log) /\ x.editor \in Users

\* The rows of the changelog that are about part p.
PathOf(p) ==
    LET path[n \in 0..Len(log)] ==
            IF n = 0 THEN <<>>
            ELSE IF log[n].part = p
              THEN Append(path[n - 1], [from |-> log[n].from, to |-> log[n].to])
              ELSE path[n - 1]
    IN  path[Len(log)]

SectionHistory(p) ==
    INSTANCE ArcadeHistory WITH values <- values[p], pointer <- ptr[p], path <- PathOf(p)

(* Whatever edits, stale commits and rollbacks do, each part keeps every   *)
(* revision as it was written and its rows in the changelog lead from the  *)
(* empty part to the present one (arcade_update_helper.go:66).             *)
HistoriesKept ==
    /\ \A p \in AllParts : SectionHistory(p)!HInit
    /\ [][\A p \in AllParts :
            SectionHistory(p)!HNext \/ UNCHANGED SectionHistory(p)!hvars]_vars

BasicCommitted(r) == req[r].kind = "basic" /\ req'[r] = Idle /\ ptr' # ptr

Written == values'["basic"][ptr'["basic"]]

(* An edit whose base is what the request read changes what it was asked   *)
(* to change and takes back nothing, whatever others edit and roll back    *)
(* while it looks the geography up (basic/update.go:288).                  *)
ReadBasesAreExact ==
    [][\A r \in Requests :
         BasicCommitted(r) /\ req[r].base = req[r].read => Written = Merge(Current, req[r].body)]_vars

(* A base that is not what the request read is accepted only if that had   *)
(* replaced the base, and a rollback then brought the base back: no other  *)
(* order of edits lets a stale write through (basic/update.go:243, 288).   *)
BasesReturn ==
    [][\A r \in Requests :
         BasicCommitted(r) /\ req[r].base \notin {0, req[r].read} =>
            \E i, k, j \in 1..Len(log) :
               /\ i < k /\ k < j
               /\ \A n \in {i, k, j} : log[n].part = "basic"
               /\ log[i].to = req[r].base /\ log[k].to = req[r].read
               /\ log[j].to = req[r].base]_vars

(* A draft that was hidden again while the request was under way is not    *)
(* edited by those who could edit it before (basic/update.go:285).         *)
DraftsAreProtected ==
    [][\A r \in Requests :
         BasicCommitted(r) /\ ~arcade.public => req[r].by \in {Creator} \cup Moderators]_vars

(* Every photo of every revision, also of those a rollback can bring back, *)
(* is stored and public, whatever is uploaded, applied and deleted         *)
(* (photo/atoms.go:78).                                                    *)
PhotosResolve ==
    "photo" \in Parts =>
        \A S \in Range(values["photo"]) : \A a \in S : atoms[a] = "public"

(* However often an arcade is hidden, published and rolled back: a part is *)
(* paid once in a window, a photo once for ever and to one user, and the   *)
(* photos of a window no more than the cap of a campaign (xp.go:366, 515). *)
RewardsBounded ==
    /\ \A u \in Users, p \in AllParts : \A e, f \in EditGrants(xp, u, p) :
         e = f \/ e.at - f.at >= Week \/ f.at - e.at >= Week
    /\ \A e, f \in {g \in xp.log : g.kind[1] = "photo"} : e.kind = f.kind => e = f
    /\ \A u \in Users, t \in 0..clock :
         Total({e \in Recent(PhotoGrants(xp, u), t) : e.at <= t}) <= PhotoLimit(TRUE)

(* What the preview announces is what publication would pay at that moment *)
(* (public/preview.go:45 against xp.go:673).                               *)
PreviewIsExact ==
    ~arcade.public =>
        AwardPublication(xp, Creator, log, clock).exp[Creator]
            = xp.exp[Creator] + PreviewPublication(xp, Creator, log)

(* An arcade its creator published has games, and below level 10 a photo   *)
(* or a proof: the creator stood at the place that is now published, not   *)
(* at one the basics said before (public/policy.go:109).                   *)
PublicationIsSupported ==
    [][~arcade.public /\ arcade'.public /\ req' # req =>
         /\ Registered("game")
         /\ LevelFromExp(xp.exp[Creator]) < 10 => HasPhoto \/ Current.place \in stood]_vars

(* A report sent with a rollback exists only with the rollback, and cites  *)
(* a change before it (admin/rollback.go:188).                             *)
RollbackReported ==
    [][Len(reports') > Len(reports) /\ Last(reports').kind = "rollback_report" =>
         Len(log') = Len(log) + 1 /\ Last(reports').change <= Len(log)]_vars

-------------------------------------------------------------------------------
(* What the run checks of the parts.                                       *)

(* Every pointer, changelog row and photo leads to something that exists.  *)
PartsAreSound == TypeOK /\ PhotosResolve

(* What edits and publication pay is paid once, and as announced.          *)
RewardsAreExact == RewardsBounded /\ PreviewIsExact

(* Requests that race, drafts that are hidden again and rollbacks change   *)
(* what they were asked to change, and the history tells it.               *)
EditsAreExact ==
    ReadBasesAreExact /\ BasesReturn /\ DraftsAreProtected /\ RollbackReported /\ HistoriesKept
===============================================================================
