------------------------------- MODULE Catalog -------------------------------
(***************************************************************************)
(* The game catalog (handlers/gamecatalog/management.go): manufacturers,   *)
(* series, versions, cabinets and which cabinets a version runs in.  Each  *)
(* record has a revision that the next editor must name, and every accepted*)
(* operation leaves one row in a changelog that is never rewritten.        *)
(*                                                                         *)
(* An operation looks for an earlier run of itself before its transaction; *)
(* replacing the cabinets of a version does so inside.  What a record says *)
(* besides its parents is one of Names.                                    *)
(***************************************************************************)
EXTENDS Integers, Sequences, SequencesExt, FiniteSets

CONSTANTS
    Makers, Series, Versions, Boxes,    \* ids; Boxes are the cabinets
    SeriesOf,               \* the series of a version or a cabinet, which never changes
    NoMaker, NoBox, Absent,
    Names,
    FirstCatalog,           \* the records there are at the start
    Ops, Requests,          \* operation ids, requests under way at once
    MaxChanges

Pairs == {p \in Versions \X Boxes : SeriesOf[p[1]] = SeriesOf[p[2]]}
Ids == Makers \cup Series \cup Versions \cup Boxes \cup Pairs

(* A record: its revision, whether it is archived, what it says and, of a  *)
(* series, its manufacturer.                                               *)
Record == [rev : Nat \ {0}, archived : BOOLEAN, name : Names, maker : Makers \cup {NoMaker}]

ASSUME CatalogAssumption ==
    /\ SeriesOf \in [Versions \cup Boxes -> Series]
    /\ MaxChanges \in Nat
    /\ Names # {} /\ Absent \notin Record /\ IsFiniteSet(Boxes)
    /\ FirstCatalog \in [Ids -> Record \cup {Absent}]

(* Records of different kinds are in tables of their own.                  *)
ASSUME KindsAssumption ==
    /\ Makers \cap (Series \cup Versions \cup Boxes \cup Pairs) = {} /\ NoMaker \notin Makers
    /\ Series \cap (Versions \cup Boxes \cup Pairs) = {}
    /\ Versions \cap (Boxes \cup Pairs) = {} /\ Boxes \cap Pairs = {}

VARIABLES
    catalog,    \* the records
    changes,    \* game_catalog_changelog
    request,    \* requests that passed the look for a replay
    installed,  \* the version and cabinet of every current row of the arcades
    planned     \* the campaign: its status, versions and cabinet scope

catalogVars == <<catalog, changes, request, installed, planned>>

Idle == [act |-> "none"]
NoPlan == [status |-> "ended", versions |-> {}, scope |-> "all", boxes |-> {}]

CatalogInit ==
    /\ catalog = FirstCatalog
    /\ changes = <<>>
    /\ request = [q \in Requests |-> Idle]
    /\ installed = {}
    /\ planned = NoPlan

-------------------------------------------------------------------------------
(* Records and what refers to them.                                        *)

Standing(r) == r # Absent /\ ~r.archived

Live(id) == Standing(catalog[id])

Parents(id, r) ==
    IF id \in Series THEN {r.maker} \ {NoMaker}
    ELSE IF id \in Pairs THEN {id[1], id[2]}
    ELSE IF id \in Makers THEN {} ELSE {SeriesOf[id]}

ParentsReady(id, r) == \A p \in Parents(id, r) : Live(p)

(* Nothing was archived when the catalog came under management, so nothing  *)
(* active stood on anything archived.                                      *)
ASSUME FirstAssumption ==
    \A id \in Ids : Standing(FirstCatalog[id]) =>
        \A p \in Parents(id, FirstCatalog[id]) : Standing(FirstCatalog[p])

HasChildren(id) == \E c \in Ids : Live(c) /\ id \in Parents(c, catalog[c])

IsInstalled(id) ==
    \E row \in installed : id \in {row, row[1], row[2]} \/ id = SeriesOf[row[1]]

(* A campaign for all cabinets names every cabinet.                        *)
IsPlanned(id) ==
    /\ planned.status # "ended"
    /\ \/ id \in planned.versions
       \/ id \in {SeriesOf[v] : v \in planned.versions}
       \/ id \in Boxes /\ (planned.scope = "all" \/ id \in planned.boxes)
       \/ id \in Pairs /\ id[1] \in planned.versions /\ (planned.scope = "all" \/ id[2] \in planned.boxes)

Blocked(id) == HasChildren(id) \/ IsInstalled(id) \/ IsPlanned(id)

(* A record as it is saved next (saveChange).                              *)
Saved(r, archived, name, maker) ==
    [rev |-> r.rev + 1, archived |-> archived, name |-> name, maker |-> maker]

Archived(r) == Saved(r, TRUE, r.name, r.maker)
Restored(r) == Saved(r, FALSE, r.name, r.maker)

-------------------------------------------------------------------------------
(* Operations.                                                             *)

Used(op) == \E i \in DOMAIN changes : changes[i].op = op

(* A body is what the request says; it is compared as a whole (its hash).  *)
Body(act, id, expected, name, maker, change) ==
    [act |-> act, id |-> id, expected |-> expected, name |-> name, maker |-> maker,
     change |-> change]

(* parseMutationBody and findReplay: a request whose operation id is known *)
(* is answered from the changelog, or refused if the editor or the body    *)
(* differs; neither writes.                                                *)
Enter(q, op, body) ==
    /\ request[q] = Idle /\ ~Used(op)
    /\ request' = [request EXCEPT ![q] =
         [act |-> body.act, op |-> op, body |-> body]]
    /\ UNCHANGED <<catalog, changes, installed, planned>>

(* The record and its row of the changelog, whose operation id is unique.  *)
Accept(q, id, after, action, reverts) ==
    LET r == request[q] IN
    /\ ~Used(r.op) /\ Len(changes) < MaxChanges
    /\ catalog' = [catalog EXCEPT ![id] = after]
    /\ changes' = Append(changes,
         [op |-> r.op, expected |-> r.body.expected, action |-> action, id |-> id,
          before |-> IF action = "create" THEN Absent ELSE catalog[id],
          after |-> after, reverts |-> reverts])
    /\ request' = [request EXCEPT ![q] = Idle]
    /\ UNCHANGED <<installed, planned>>

(* A new record gets an id of its own; a pair is itself.                   *)
Fresh(like) ==
    {id \in Ids : /\ catalog[id] = Absent
                  /\ id = like \/ {id, like} \subseteq Makers \/ {id, like} \subseteq Series
                     \/ {id, like} \subseteq Boxes \/ {id, like} \subseteq Versions
                  /\ Parents(id, [maker |-> NoMaker]) = Parents(like, [maker |-> NoMaker])}

Create(q) ==
    LET b == request[q].body
        new == [rev |-> 1, archived |-> FALSE, name |-> b.name, maker |-> b.maker] IN
    /\ b.act = "create" /\ ParentsReady(b.id, new)
    /\ \E id \in Fresh(b.id) : Accept(q, id, new, "create", 0)

(* Mutant: the revision was compared when the request came.                *)
Found_Before(q) == catalog[request[q].body.id] # Absent

Found(q) ==
    LET b == request[q].body IN
    catalog[b.id] # Absent /\ catalog[b.id].rev = b.expected

(* An update gives every value anew; an archived record may be updated.    *)
Update(q) ==
    LET b == request[q].body
        new == Saved(catalog[b.id], catalog[b.id].archived, b.name, b.maker) IN
    /\ b.act = "update" /\ Found(q)
    /\ b.id \in Series => ParentsReady(b.id, new)
    /\ Accept(q, b.id, new, "update", 0)

Archive(q) ==
    LET b == request[q].body IN
    /\ b.act = "archive" /\ Found(q)
    /\ ~catalog[b.id].archived /\ ~Blocked(b.id)
    /\ Accept(q, b.id, Archived(catalog[b.id]), "archive", 0)

(* Mutant: a record comes back whatever became of its parents.             *)
Restore_Alone(q) ==
    LET b == request[q].body IN
    /\ b.act = "restore" /\ Found(q)
    /\ catalog[b.id].archived
    /\ Accept(q, b.id, Restored(catalog[b.id]), "restore", 0)

Restore(q) ==
    LET b == request[q].body IN
    /\ b.act = "restore" /\ Found(q)
    /\ catalog[b.id].archived /\ ParentsReady(b.id, catalog[b.id])
    /\ Accept(q, b.id, Restored(catalog[b.id]), "restore", 0)

(* The stored snapshot is raw JSON: taken for a map it is always nil, as   *)
(* the snapshot of a record that was not there.                            *)
Snapshot(change) == Absent

Reverted(id, old) ==
    IF old = Absent THEN Archived(catalog[id])
    ELSE [old EXCEPT !.rev = catalog[id].rev + 1]

Revert(q) ==
    LET b == request[q].body IN
    /\ b.act = "revert" /\ b.change \in DOMAIN changes
    /\ LET c == changes[b.change]
           old == Snapshot(c)
           now == catalog[c.id] IN
       /\ now.rev = b.expected
       /\ old = Absent \/ (old.archived /\ ~now.archived) => ~Blocked(c.id)
       /\ old # Absent /\ (c.id \in Series \/ ~old.archived) => ParentsReady(c.id, old)
       /\ Accept(q, c.id, Reverted(c.id, old), "revert", b.change)

(* Any error: nothing is written.                                          *)
Refuse(q) ==
    /\ request[q] # Idle
    /\ request' = [request EXCEPT ![q] = Idle]
    /\ UNCHANGED <<catalog, changes, installed, planned>>

-------------------------------------------------------------------------------
(* ReplaceCompatibilities: one transaction for all links of a version.     *)

Linked(v) == {c \in Boxes : <<v, c>> \in Pairs /\ Live(<<v, c>>)}

SubOp(op, action, c) == <<op, action, c>>

Link(r) == IF r = Absent THEN [rev |-> 1, archived |-> FALSE, name |-> CHOOSE n \in Names : TRUE,
                               maker |-> NoMaker]
           ELSE Restored(r)

MayUnlink(v, gone) == \A c \in gone : ~Blocked(<<v, c>>)

(* The rows of the changelog: one for each link that comes or goes.        *)
CompatibilityChange(op, v, c, action, expected) ==
    LET old == catalog[<<v, c>>] IN
    [op |-> SubOp(op, IF action = "archive" THEN "archive" ELSE "activate", c),
     expected |-> IF action = "archive" THEN expected[c] ELSE 0, action |-> action,
     id |-> <<v, c>>, before |-> old,
     after |-> IF action = "archive" THEN Archived(old) ELSE Link(old), reverts |-> 0]

Linking(op, v, add, expected) ==
    {CompatibilityChange(op, v, c, IF catalog[<<v, c>>] = Absent THEN "create" ELSE "restore", expected) :
        c \in add}

Unlinking(op, v, gone, expected) ==
    {CompatibilityChange(op, v, c, "archive", expected) : c \in gone}

ReplaceCompatibilities(op, v, want, expected) ==
    LET gone == Linked(v) \ want
        rows == Linking(op, v, want \ Linked(v), expected) \cup Unlinking(op, v, gone, expected)
    IN  /\ Live(v) /\ \A c \in want : Live(c) /\ SeriesOf[c] = SeriesOf[v]
        /\ expected = [c \in Linked(v) |-> catalog[<<v, c>>].rev]
        /\ \A r \in rows : ~Used(r.op)
        /\ MayUnlink(v, gone)
        /\ rows # {} /\ Len(changes) + Cardinality(rows) <= MaxChanges
        /\ catalog' = [id \in Ids |-> IF \E r \in rows : r.id = id
                                        THEN (CHOOSE r \in rows : r.id = id).after
                                        ELSE catalog[id]]
        /\ changes' = changes \o SetToSeq(rows)
        /\ UNCHANGED <<request, installed, planned>>

-------------------------------------------------------------------------------
(* The arcades and the campaigns, which refer to the catalog.  Neither asks*)
(* whether what it refers to is archived.                                  *)

Install(row) ==
    /\ catalog[row[1]] # Absent
    /\ row[2] # NoBox => row \in Pairs /\ catalog[row] # Absent
    /\ installed' = installed \cup {row}
    /\ UNCHANGED <<catalog, changes, request, planned>>

Uninstall(row) ==
    /\ row \in installed
    /\ installed' = installed \ {row}
    /\ UNCHANGED <<catalog, changes, request, planned>>

Plan(status, vs, boxes) ==
    /\ \A v \in vs : catalog[v] # Absent
    /\ \A v \in vs, w \in vs : SeriesOf[v] = SeriesOf[w]
    /\ \A v \in vs, c \in boxes : <<v, c>> \in Pairs /\ catalog[<<v, c>>] # Absent
    /\ planned' = [status |-> status, versions |-> vs,
                   scope |-> IF boxes = {} THEN "all" ELSE "include", boxes |-> boxes]
    /\ UNCHANGED <<catalog, changes, request, installed>>

EndPlan ==
    /\ planned' = NoPlan
    /\ UNCHANGED <<catalog, changes, request, installed>>

(* What an editor is shown: every record with its revision, archived ones  *)
(* too, and the changes.                                                   *)
Shown == {id \in Ids : catalog[id] # Absent}
ShownChanges == DOMAIN changes

(* An editor names the revision the record has as the request is sent.     *)
Creations == {Body("create", id, 0, n, IF id \in Series THEN m ELSE NoMaker, 0) :
               id \in Ids, n \in Names, m \in Makers \cup {NoMaker}}
Updates   == {Body("update", id, catalog[id].rev, n, IF id \in Series THEN m ELSE NoMaker, 0) :
               id \in Shown, n \in Names, m \in Makers \cup {NoMaker}}
Shelvings(act) == {Body(act, id, catalog[id].rev, "", NoMaker, 0) : id \in Shown}
Reverts   == {Body("revert", changes[i].id, catalog[changes[i].id].rev, "", NoMaker, i) : i \in ShownChanges}

CatalogBodies == Creations \cup Updates \cup Shelvings("archive") \cup Shelvings("restore") \cup Reverts

CatalogNext ==
    \/ \E b \in CatalogBodies, q \in Requests, op \in Ops : Enter(q, op, b)
    \/ \E q \in Requests :
          /\ request[q] # Idle
          /\ Refuse(q) \/ Create(q) \/ Update(q) \/ Archive(q) \/ Restore(q) \/ Revert(q)
    \/ \E op \in Ops, v \in Versions, want \in SUBSET Boxes :
          ReplaceCompatibilities(op, v, want, [c \in Linked(v) |-> catalog[<<v, c>>].rev])
    \/ \E row \in Versions \X (Boxes \cup {NoBox}) : Install(row) \/ Uninstall(row)
    \/ \E st \in {"draft", "active"}, v \in Versions, w \in Versions, boxes \in SUBSET Boxes :
          v # w /\ Plan(st, {v, w}, boxes)
    \/ EndPlan

CatalogSpec == CatalogInit /\ [][CatalogNext]_catalogVars

-------------------------------------------------------------------------------
(* Properties.                                                             *)

(* The type invariant.                                                     *)
CatalogTypeOK ==
    /\ \A id \in Ids : catalog[id] # Absent =>
          catalog[id].rev \in Nat \ {0} /\ catalog[id].archived \in BOOLEAN
    /\ \A i \in DOMAIN changes : changes[i].id \in Ids /\ changes[i].after # Absent
    /\ installed \subseteq Versions \X (Boxes \cup {NoBox})

(* What an active record stands on is active: its manufacturer, its series,*)
(* its version and its cabinet, whichever of archive, restore, update,     *)
(* revert and replacement came in which order (blockingReferences against  *)
(* ensureRestorable and applyValues).                                      *)
ParentsAreActive == \A id \in Ids : Live(id) => ParentsReady(id, catalog[id])

(* The first n rows of the changelog: those of a record, and what they     *)
(* leave of it.                                                            *)
RowsFor(id, n) == {i \in 1..n : changes[i].id = id}
Left(id, n) == IF RowsFor(id, n) = {} THEN FirstCatalog[id] ELSE changes[Max(RowsFor(id, n))].after

(* The changelog tells the whole story of every record: each row starts    *)
(* from where the one before ended, which is what its editor had seen, one *)
(* revision further, and the last one is the record, for requests that     *)
(* overlap too (mutate, revert, ReplaceCompatibilities, saveChange).       *)
HistoryIsComplete ==
    \A id \in Ids :
        /\ \A i \in RowsFor(id, Len(changes)) :
             LET c == changes[i]
                 before == Left(id, i - 1) IN
             /\ c.before = before
             /\ c.expected # 0 => before # Absent /\ before.rev = c.expected
             /\ c.after.rev = (IF before = Absent THEN 0 ELSE before.rev) + 1
        /\ catalog[id] = Left(id, Len(changes))

(* An operation id is spent once: a request sent again, while the first is *)
(* under way or after, never changes the catalog twice (findReplay outside *)
(* the transaction, the unique index inside).                              *)
OperationsApplyOnce ==
    \A i, j \in DOMAIN changes : changes[i].op = changes[j].op => i = j

(* Nothing is archived that an arcade has now or a campaign that has not   *)
(* ended names, on any of the paths that archive.                          *)
InUseIsKept ==
    [][\A id \in Ids : Live(id) /\ ~Live(id)' =>
         /\ ~\E row \in installed : id \in {row, row[1], row[2]}
         /\ planned.status # "ended" => id \notin planned.versions \cup planned.boxes]_catalogVars

(* What is active stands on active records, and what is in use stays.      *)
CatalogStands == [](CatalogTypeOK /\ ParentsAreActive) /\ InUseIsKept

(* The changelog of the catalog tells every change, once.                  *)
ChangesAreTold == HistoryIsComplete /\ OperationsApplyOnce

(* Reverting the last change of a record brings back what it replaced      *)
(* (revert, applySnapshot).                                                *)
RevertRestores ==
    [][\A i \in DOMAIN changes' \ DOMAIN changes :
         LET c == changes'[i] IN
         c.action = "revert" /\ changes'[c.reverts].after = c.before
           /\ changes'[c.reverts].before # Absent =>
           /\ c.after.name = changes'[c.reverts].before.name
           /\ c.after.archived = changes'[c.reverts].before.archived]_catalogVars
===============================================================================
