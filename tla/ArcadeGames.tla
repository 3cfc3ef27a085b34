----------------------------- MODULE ArcadeGames -----------------------------
(***************************************************************************)
(* The games of one arcade: handlers/arcade/game, with the bulk version    *)
(* update and the rollback of handlers/arcade/admin.                       *)
(*                                                                         *)
(* A state of the games is an immutable batch of revisions; arcade.game_v2 *)
(* points at the present one.  Every handler below is one transaction; a   *)
(* delta is based on the state its author read, any time before.           *)
(***************************************************************************)
EXTENDS XpWindows, Sequences

CONSTANTS
    Creator,            \* arcade.createdBy
    Moderators,         \* developers and moderators
    SeriesOf,           \* SeriesOf[v]: the series of a version
    Cabinets,           \* game_cabinet
    NoCabinet,          \* an unverified cabinet
    Details,            \* location, quantity, price and tags of a revision
    Supports,           \* game_series_version_cabinet: pairs of version and cabinet
    \* bounds of the model, none of the code:
    Wanted,             \* contents that deltas ask for
    MaxBatches,         \* states ever written
    MaxMoves,           \* changes of the pointer
    MaxItems,           \* items of one delta
    MaxTime,            \* the clock stops here
    Uses                \* requests considered: of delta, bulk, rollback, status

Versions == DOMAIN SeriesOf
Series   == {SeriesOf[v] : v \in Versions}
Content  == [version : Versions, cabinet : Cabinets \cup {NoCabinet}, detail : Details]

ASSUME PlaceAssumption ==
    /\ {Creator} \cup Moderators \subseteq Users
    /\ NoCabinet \notin Cabinets
    /\ Wanted \subseteq Content
ASSUME BoundAssumption == MaxBatches \in Nat /\ MaxMoves \in Nat /\ MaxItems \in Nat /\ MaxTime \in Nat

VARIABLES
    clock,      \* time.Now()
    public,     \* arcade.public
    entry,      \* arcade_game_id: the series of each installation
    batch,      \* arcade_game_history_batch with its arcade_game_history rows
    game,       \* arcade.game_v2, 0 before the first state
    changelog,  \* arcade_changelog, the rows of part game, with what was asked
    xp          \* the experience ledger

vars == <<clock, public, entry, batch, game, changelog, xp>>

(* An entry is named by the batch that created it and the place in the     *)
(* delta; batches are numbered as they are written, which is also a time.  *)
Ids     == Nat \X Nat
Created(e) == e[1]

Row   == [entry : Ids, content : Content,
          by : Users, since : Nat]      \* last_modified_by, last_modified_at
Batch == [base : Nat, rows : SUBSET Row]      \* state_from of its log
Move  == [from : Nat, to : Nat, by : Users,
          seen : Nat, named : SUBSET Ids]   \* the base of the request, the entries it names

Init ==
    /\ clock = 0
    /\ public = FALSE
    /\ entry = <<>>
    /\ batch = <<>>
    /\ game = 0
    /\ changelog = <<>>
    /\ xp = [exp |-> [u \in Users |-> 0], log |-> {}]

CanWrite(u) == public \/ u = Creator \/ u \in Moderators

-------------------------------------------------------------------------------
(* Rows and entries.                                                       *)

Rows(b)    == IF b = 0 THEN {} ELSE batch[b].rows
Entries(R) == {r.entry : r \in R}
RowOf(R, e) == CHOOSE r \in R : r.entry = e

(* The unique indexes of arcade_game_history, and the compatibility checks *)
(* of updateArcadeGameTx for the rows it is given.                         *)
Storable(R) ==
    /\ \A r, s \in R : r.entry = s.entry => r = s
    /\ \A r, s \in R : r.content.version = s.content.version
                        /\ r.content.cabinet = s.content.cabinet => r = s

Compatible(c) == c.cabinet = NoCabinet \/ <<c.version, c.cabinet>> \in Supports

(* Mutant: the series of the entry is not compared.                       *)
Belongs_Any(e, c) == TRUE

(* A game stays in the series of its entry.                                *)
Belongs(e, c) == entry[e] = SeriesOf[c.version]

(* A revision that says the same keeps its author and time.                *)
Revised(r, c, u) ==
    IF r.content = c THEN r
    ELSE [r EXCEPT !.content = c, !.by = u, !.since = Len(batch) + 1]

-------------------------------------------------------------------------------
(* record_input.go: which installation an added game is.                   *)

(* Batches in which entry e stood at cabinet c.                            *)
StoodAt(e, c) == {b \in DOMAIN batch : \E r \in batch[b].rows : r.entry = e /\ r.content.cabinet = c}

(* Mutant: an unverified cabinet is matched like any other.                *)
Reusable_Unverified(c, reserved) ==
    {e \in DOMAIN entry \ reserved :
        Belongs(e, c) /\ e \notin Entries(Rows(game)) /\ StoodAt(e, c.cabinet) # {}}

(* Former installations of that series and verified cabinet, none taken.  *)
Reusable(c, reserved) ==
    {e \in DOMAIN entry \ reserved :
        /\ c.cabinet # NoCabinet
        /\ Belongs(e, c)
        /\ e \notin Entries(Rows(game))
        /\ StoodAt(e, c.cabinet) # {}}

LastStood(e, c) == Max(StoodAt(e, c))

(* The most recently used; two of the same batch are told apart by when    *)
(* they were created, and then by their random ids.                        *)
Latest(E, c) ==
    {e \in E : \A d \in E :
        \/ LastStood(e, c) > LastStood(d, c)
        \/ LastStood(e, c) = LastStood(d, c) /\ Created(e) >= Created(d)}

(* findReusableGameEntryID for every added game, in order: the entries     *)
(* that the added games take, new ones where none is found.                *)
NewId(i) == <<Len(batch) + 1, i>>

\* reserved, but for the active entries, which are never found.
Reserved(ids, i) == {ids[j] : j \in 1..(i - 1)}

Assignments(add) ==
    {ids \in [DOMAIN add -> DOMAIN entry \cup {NewId(i) : i \in DOMAIN add}] :
        \A i \in DOMAIN add :
            LET E == Reusable(add[i], Reserved(ids, i)) IN
            IF E # {} THEN ids[i] \in Latest(E, add[i].cabinet) ELSE ids[i] = NewId(i)}

-------------------------------------------------------------------------------
(* Writing a batch and moving the pointer (updateArcadeFieldsTx).          *)

(* Mutant: the old value is looked up when the new one is set already.     *)
Moved_Late(u, to, seen, named) ==
    /\ game' = to
    /\ changelog' = Append(changelog,
                        [from |-> to, to |-> to, by |-> u, seen |-> seen, named |-> named])

(* Nothing is logged for a pointer that stays where it was; none does.     *)
Moved(u, to, seen, named) ==
    /\ game' = to
    /\ changelog' = Append(changelog,
                        [from |-> game, to |-> to, by |-> u, seen |-> seen, named |-> named])

NewBatch(u, R, seen, named) ==
    /\ Storable(R)
    /\ batch' = Append(batch, [base |-> game, rows |-> R])
    /\ Moved(u, Len(batch) + 1, seen, named)

-------------------------------------------------------------------------------
(* game/update.go                                                          *)

(* Mutant: base_state_id is not compared.                                  *)
Current_Any(base) == TRUE

(* ErrGameStateConflict otherwise.                                         *)
Current(base) == base = game

(* Rows that a delta does not name are copied as they are, unchecked.      *)
Kept(named) == {r \in Rows(game) : r.entry \notin named}

Modified(modify, u) == {Revised(RowOf(Rows(game), e), modify[e], u) : e \in DOMAIN modify}

Added(add, ids, u) ==
    {[entry |-> ids[i], content |-> add[i], by |-> u, since |-> Len(batch) + 1] : i \in DOMAIN add}

(* The entries, with those that are created for added games.               *)
Entered(add, ids) ==
    LET new == {NewId(i) : i \in {j \in DOMAIN add : ids[j] = NewId(j)}} IN
    [e \in DOMAIN entry \cup new |->
        IF e \in DOMAIN entry THEN entry[e] ELSE SeriesOf[add[e[2]].version]]

(* Modified entries that really change: the others are logged "unchanged". *)
Edited(modify) == {e \in DOMAIN modify : RowOf(Rows(game), e).content # modify[e]}

(* UpdateArcadeGame: base is the state the author read, add a sequence of  *)
(* contents, modify a function from active entries to contents, remove a   *)
(* set of active entries.                                                  *)
UpdateArcadeGame(u, base, add, modify, remove) ==
    /\ "delta" \in Uses
    /\ CanWrite(u)
    /\ Current(base)
    /\ \A e \in DOMAIN modify : Belongs(e, modify[e]) /\ Compatible(modify[e])
    /\ \A i \in DOMAIN add : Compatible(add[i])
    /\ \E ids \in Assignments(add) :
         LET named == DOMAIN modify \cup remove \cup {ids[i] : i \in DOMAIN add} IN
         /\ NewBatch(u, Kept(DOMAIN modify \cup remove) \cup Modified(modify, u) \cup Added(add, ids, u),
                     base, named)
         /\ entry' = Entered(add, ids)
         /\ xp' = IF public
                    THEN AwardGameEdit(xp, u, Edited(modify) \cup remove \cup {ids[i] : i \in DOMAIN add}, clock)
                    ELSE xp
    /\ UNCHANGED <<clock, public>>

-------------------------------------------------------------------------------
(* admin/bulk_game_version.go, admin/rollback.go, admin/moderation.go      *)

(* BulkUpdateArcadeGameVersion for the selected entries of this arcade.    *)
(* Selected entries that are not active are passed over; a batch is        *)
(* written all the same.                                                   *)
BulkUpdateArcadeGameVersion(u, selected, from, to) ==
    LET Changed(r) == Revised(r, [r.content EXCEPT !.version = to], u) IN
    /\ "bulk" \in Uses
    /\ u \in Moderators
    /\ game # 0 /\ from # to
    /\ \A e \in selected : entry[e] = SeriesOf[to]
    /\ \A r \in Rows(game) : r.entry \in selected =>
         r.content.version = from /\ Compatible([r.content EXCEPT !.version = to])
    /\ NewBatch(u, {IF r.entry \in selected THEN Changed(r) ELSE r : r \in Rows(game)},
                game, selected)
    /\ UNCHANGED <<clock, public, entry, xp>>

(* RollbackArcadePart for the part game.                                   *)
RollbackArcadePart(u, b) ==
    /\ "rollback" \in Uses
    /\ CanWrite(u)
    /\ game # 0 /\ b # game
    /\ Len(changelog) < MaxMoves
    /\ Moved(u, b, game, Entries(Rows(game)) \cup Entries(Rows(b)))
    /\ UNCHANGED <<clock, public, entry, batch, xp>>

(* UpdateArcadeStatus, and the request that first makes an arcade public.  *)
UpdateArcadeStatus ==
    /\ "status" \in Uses
    /\ public' = ~public
    /\ UNCHANGED <<clock, entry, batch, game, changelog, xp>>

Tick ==
    /\ clock < MaxTime
    /\ clock' = clock + 1
    /\ UNCHANGED <<public, entry, batch, game, changelog, xp>>

Adds(n) == UNION {[1..k -> Wanted] : k \in 0..n}

(* The deltas of one to MaxItems items: no entry is modified and removed. *)
Request(u) ==
    \/ \E base \in 0..Len(batch) :
       \E modified \in SUBSET Entries(Rows(game)) :
       \E removed \in SUBSET (Entries(Rows(game)) \ modified) :
       \E add \in Adds(MaxItems - Cardinality(modified \cup removed)) :
       \E modify \in [modified -> Wanted] :
         /\ Len(add) + Cardinality(modified \cup removed) > 0
         /\ UpdateArcadeGame(u, base, add, modify, removed)
    \/ \E selected \in SUBSET DOMAIN entry \ {{}}, from, to \in Versions :
         BulkUpdateArcadeGameVersion(u, selected, from, to)

Next ==
    \/ Len(batch) < MaxBatches /\ \E u \in Users : Request(u)
    \/ \E u \in Users, b \in DOMAIN batch : RollbackArcadePart(u, b)
    \/ UpdateArcadeStatus
    \/ Tick

Spec == Init /\ [][Next]_vars

-------------------------------------------------------------------------------
TypeOK ==
    /\ clock \in Nat
    /\ public \in BOOLEAN
    /\ DOMAIN entry \subseteq Ids
    /\ entry \in [DOMAIN entry -> Series]
    /\ batch \in Seq(Batch)
    /\ game \in 0..Len(batch)
    /\ changelog \in Seq(Move)

(* Every state ever written can be returned to: its installations exist,   *)
(* none is there twice, no two are the same version in the same cabinet,   *)
(* each stays in its series, and cabinets fit versions, whatever sequence  *)
(* of deltas, bulk updates and rollbacks led there.                        *)
StatesAreSound ==
    \A b \in DOMAIN batch :
        LET R == batch[b].rows IN
        /\ \A r \in R :
             /\ r.entry \in DOMAIN entry
             /\ entry[r.entry] = SeriesOf[r.content.version]
             /\ r.content.cabinet # NoCabinet => <<r.content.version, r.content.cabinet>> \in Supports
        /\ \A r, s \in R : r # s =>
             /\ r.entry # s.entry
             /\ <<r.content.version, r.content.cabinet>> # <<s.content.version, s.content.cabinet>>

(* Optimistic concurrency: a request changes the installations it names,   *)
(* and of all others leaves what its author saw: nobody else's change gets *)
(* lost, nor one's own decision made on what is no longer true, even when  *)
(* rollbacks bring states back.                                            *)
NothingLost ==
    \A i \in DOMAIN changelog :
        LET m == changelog[i]
            Others(b) == {r \in Rows(b) : r.entry \notin m.named}
        IN
        Others(m.to) = Others(m.seen)

(* last_modified_by and last_modified_at of a row name the change that     *)
(* made the row what it is, on the way to this state and not on another:   *)
(* either its author wrote it here, and it was not so before, or it is     *)
(* that of the state this one was made from, and so on back.               *)
Attributed ==
    \A b \in DOMAIN batch : \A r \in batch[b].rows :
        IF r.since = b
          THEN /\ \A s \in Rows(batch[b].base) : s.entry = r.entry => s.content # r.content
               /\ \E i \in DOMAIN changelog : changelog[i].to = b /\ changelog[i].by = r.by
          ELSE r \in Rows(batch[b].base)

(* The identity of an installation: a new one is made only where no former *)
(* one of that series and verified cabinet is free, and an old one comes   *)
(* back only to a cabinet it stood at.                                     *)
IdentityKept ==
    \A b \in DOMAIN batch : \A r \in batch[b].rows :
        LET there == Entries(Rows(batch[b].base)) \cup Entries(batch[b].rows) IN
        /\ Created(r.entry) = b /\ r.content.cabinet # NoCabinet =>
             \A e \in DOMAIN entry :
                /\ Created(e) < b /\ Belongs(e, r.content)
                /\ \E a \in StoodAt(e, r.content.cabinet) : a < b
                => e \in there
        /\ Created(r.entry) # b /\ r.entry \notin Entries(Rows(batch[b].base)) =>
             /\ r.content.cabinet # NoCabinet
             /\ \E a \in StoodAt(r.entry, r.content.cabinet) : a < b

(* In no window does a user earn more than GameCap for editing the games;  *)
(* and a grant brings what the window that ends there has earned to two    *)
(* for each installation changed in it, exactly, up to the cap, whatever   *)
(* was granted and left the window before.                                 *)
WindowCapped ==
    \A u \in Users, t \in 0..clock :
        LET E == {e \in Recent(GameGrants(xp, u), t) : e.at <= t} IN
        /\ Total(E) <= GameCap
        /\ (\E e \in E : e.at = t) =>
             Total(E) = ArcadeGameEditExp(Cardinality(UNION {e.kind[3] : e \in E}))

(* "Revisiting an entry already counted in the window grants 0": no grant  *)
(* is for installations that grants of the last days are for already.      *)
RevisitsGrantNothing ==
    [][\A u \in Users : \A e \in GameGrants(xp', u) \ GameGrants(xp, u) :
         ~ e.kind[3] \subseteq UNION {d.kind[3] : d \in Recent(GameGrants(xp, u), clock)}]_vars

(* The games keep their history as ArcadeHistory promises.                 *)
Path == [i \in DOMAIN changelog |-> [from |-> changelog[i].from, to |-> changelog[i].to]]

History == INSTANCE ArcadeHistory WITH values <- batch, pointer <- game, path <- Path

HistorySpec == History!HSpec
===============================================================================
