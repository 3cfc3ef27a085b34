-------------------------- MODULE ArcadeGames_proofs --------------------------
(***************************************************************************)
(* Theorems about ArcadeGames, for any users, versions, cabinets, details, *)
(* contents asked for and bounds that satisfy its assumptions.             *)
(***************************************************************************)
EXTENDS ArcadeGames, LedgerTheorems, SequenceTheorems

USE PlaceAssumption, BoundAssumption DEF PlaceAssumption, BoundAssumption

(* Everything refers to what is older.                                     *)
Dated ==
    /\ \A e \in DOMAIN entry : Created(e) \in 1..Len(batch)
    /\ \A b \in DOMAIN batch :
         batch[b].base \in 0..(b - 1) /\ \A r \in batch[b].rows : r.since \in 1..b
    /\ \A i \in DOMAIN changelog :
         changelog[i].from \in 0..Len(batch) /\ changelog[i].to \in 1..Len(batch)
         /\ changelog[i].seen \in 0..Len(batch)

Sound == TypeOK /\ StatesAreSound /\ Dated

-------------------------------------------------------------------------------
(* What deltas and bulk updates have in common: user u writes a state with *)
(* rows R in place of the present one, by a request that names entries.    *)

(* Entries are added, never changed; new ones bear the number of the batch.*)
EntriesGrow ==
    /\ DOMAIN entry \subseteq DOMAIN entry' /\ DOMAIN entry' \subseteq Ids
    /\ entry' \in [DOMAIN entry' -> Series]
    /\ \A e \in DOMAIN entry : entry'[e] = entry[e]
    /\ \A e \in DOMAIN entry' \ DOMAIN entry : Created(e) = Len(batch) + 1

Placed(r) ==
    /\ r.entry \in DOMAIN entry'
    /\ entry'[r.entry] = SeriesOf[r.content.version]
    /\ Compatible(r.content)

Authored(r, u) ==
    \/ r \in Rows(game)
    \/ /\ r.since = Len(batch) + 1 /\ r.by = u
       /\ \A s \in Rows(game) : s.entry = r.entry => s.content # r.content

(* r is a new installation only if no free one fits, or one that returns.  *)
Identified(r, R) ==
    /\ r.entry \notin DOMAIN entry /\ r.content.cabinet # NoCabinet =>
         \A e \in DOMAIN entry :
            Belongs(e, r.content) /\ StoodAt(e, r.content.cabinet) # {}
            => e \in Entries(Rows(game)) \cup Entries(R)
    /\ r.entry \in DOMAIN entry /\ r.entry \notin Entries(Rows(game)) =>
         r.content.cabinet # NoCabinet /\ StoodAt(r.entry, r.content.cabinet) # {}

Written(u, R, named) ==
    /\ R \subseteq Row /\ named \subseteq Ids
    /\ NewBatch(u, R, game, named)
    /\ EntriesGrow
    /\ \A r \in R : Placed(r) /\ Authored(r, u) /\ Identified(r, R)
    /\ {r \in R : r.entry \notin named} = Kept(named)
    /\ UNCHANGED <<clock, public>>

-------------------------------------------------------------------------------
(* The rows of the present state.                                          *)
LEMMA PresentRows ==
    ASSUME Sound
    PROVE  /\ Rows(game) \subseteq Row
           /\ Storable(Rows(game))
           /\ \A r \in Rows(game) :
                /\ r.entry \in DOMAIN entry
                /\ entry[r.entry] = SeriesOf[r.content.version]
                /\ Compatible(r.content)
                /\ r.since \in 1..Len(batch)
  <1>1. CASE game = 0
    BY <1>1 DEF Rows, Storable
  <1>2. CASE game # 0
    <2>1. game \in DOMAIN batch /\ batch[game] \in Batch /\ game <= Len(batch) /\ game \in Nat /\ Len(batch) \in Nat
      BY <1>2 DEF Sound, TypeOK
    <2>2. Rows(game) = batch[game].rows /\ batch[game].rows \subseteq Row
      BY <1>2, <2>1 DEF Rows, Batch
    <2>3. Storable(Rows(game))
      <3> SUFFICES ASSUME NEW r \in Rows(game), NEW s \in Rows(game), r # s
                   PROVE  /\ r.entry # s.entry
                          /\ ~ (r.content.version = s.content.version /\ r.content.cabinet = s.content.cabinet)
        BY Zenon DEF Storable
      <3> QED
        BY <2>1, <2>2 DEF Sound, StatesAreSound
    <2>4. ASSUME NEW r \in Rows(game)
          PROVE  /\ r.entry \in DOMAIN entry
                 /\ entry[r.entry] = SeriesOf[r.content.version]
                 /\ Compatible(r.content)
      BY <2>1, <2>2, Zenon DEF Sound, StatesAreSound, Compatible
    <2>5. ASSUME NEW r \in Rows(game) PROVE r.since \in 1..Len(batch)
      BY <2>1, <2>2 DEF Sound, Dated
    <2> QED
      BY <2>2, <2>3, <2>4, <2>5, Zenon
  <1> QED
    BY <1>1, <1>2

(* What a changed row says of its place and author.                        *)
LEMMA RevisedRow ==
    ASSUME Sound, NEW u \in Users, NEW r \in Rows(game), NEW c \in Content,
           SeriesOf[c.version] = entry[r.entry], Compatible(c)
    PROVE  LET s == Revised(r, c, u) IN
           /\ s \in Row
           /\ s.entry = r.entry /\ s.content = c
           /\ Authored(s, u)
  <1> DEFINE s == Revised(r, c, u)
  <1>1. r \in Row /\ r.since \in Nat /\ Storable(Rows(game)) /\ Len(batch) \in Nat
    BY PresentRows DEF Sound, TypeOK
  <1>2. CASE r.content = c
    BY <1>1, <1>2 DEF Revised, Authored
  <1>3. CASE r.content # c
    <2>1. s = [r EXCEPT !.content = c, !.by = u, !.since = Len(batch) + 1]
      BY <1>3 DEF Revised
    <2>2. Len(batch) + 1 \in Nat
      BY <1>1
    <2>3. s \in Row /\ s.entry = r.entry /\ s.content = c /\ s.by = u /\ s.since = Len(batch) + 1
      BY <1>1, <2>1, <2>2 DEF Row
    <2>4. \A t \in Rows(game) : t.entry = s.entry => t.content # s.content
      BY <1>1, <1>3, <2>3 DEF Storable
    <2> QED
      BY <2>3, <2>4 DEF Authored
  <1> QED
    BY <1>2, <1>3

(* A bulk version update writes a state.                                   *)
LEMMA BulkWrites ==
    ASSUME Sound, NEW u \in Users, NEW selected \in SUBSET DOMAIN entry,
           NEW from \in Versions, NEW to \in Versions,
           BulkUpdateArcadeGameVersion(u, selected, from, to)
    PROVE  \E R, named : Written(u, R, named)
  <1> DEFINE To(r) == [r.content EXCEPT !.version = to]
             Next1(r) == IF r.entry \in selected THEN Revised(r, To(r), u) ELSE r
             R == {Next1(r) : r \in Rows(game)}
  <1>1. NewBatch(u, R, game, selected) /\ UNCHANGED <<clock, public, entry>>
    BY DEF BulkUpdateArcadeGameVersion
  <1>2. selected \subseteq Ids /\ entry \in [DOMAIN entry -> Series] /\ DOMAIN entry \subseteq Ids
    BY DEF Sound, TypeOK
  <1>3. ASSUME NEW r \in Rows(game)
        PROVE  /\ Next1(r) \in Row /\ Next1(r).entry = r.entry
               /\ Authored(Next1(r), u)
               /\ entry[r.entry] = SeriesOf[Next1(r).content.version]
               /\ Compatible(Next1(r).content)
    <2>1. CASE r.entry \in selected
      <3>1. r \in Row /\ r.content \in Content
        BY PresentRows DEF Row
      <3>2. To(r) \in Content /\ To(r).version = to
        BY <3>1 DEF Content
      <3>3. Compatible(To(r)) /\ SeriesOf[To(r).version] = entry[r.entry]
        BY <2>1, <3>2 DEF BulkUpdateArcadeGameVersion
      <3>4. Next1(r) = Revised(r, To(r), u)
        BY <2>1
      <3> HIDE DEF To, Next1
      <3> QED
        BY <3>2, <3>3, <3>4, RevisedRow
    <2>2. CASE r.entry \notin selected
      BY <2>2, PresentRows DEF Authored
    <2> QED
      BY <2>1, <2>2
  <1> HIDE DEF Next1
  <1>4. EntriesGrow
    BY <1>1, <1>2 DEF EntriesGrow
  <1>5. ASSUME NEW s \in R PROVE s \in Row /\ Placed(s) /\ Authored(s, u) /\ Identified(s, R)
    <2>1. PICK r \in Rows(game) : s = Next1(r)
      OBVIOUS
    <2>2. s.entry \in DOMAIN entry /\ s.entry \in Entries(Rows(game)) /\ entry' = entry
      BY <1>1, <1>3, <2>1, PresentRows DEF Entries
    <2> QED
      BY <1>3, <2>1, <2>2 DEF Placed, Identified
  <1>6. {r \in R : r.entry \notin selected} = Kept(selected)
    <2>1. \A r \in Rows(game) : r.entry \notin selected => Next1(r) = r
      BY DEF Next1
    <2> QED
      BY <1>3, <2>1 DEF Kept
  <1> QED
    <2> HIDE DEF R
    <2>1. R \subseteq Row
      BY <1>5
    <2>2. Written(u, R, selected)
      BY <1>1, <1>2, <1>4, <1>5, <1>6, <2>1 DEF Written
    <2> QED
      BY <2>2

(* New entries bear a number of their own.                                 *)
LEMMA NewIdsAreFresh ==
    ASSUME Sound, NEW i \in Nat
    PROVE  NewId(i) \in Ids /\ Created(NewId(i)) = Len(batch) + 1 /\ NewId(i) \notin DOMAIN entry
  <1>1. Len(batch) \in Nat /\ NewId(i) = <<Len(batch) + 1, i>>
    BY DEF Sound, TypeOK, NewId
  <1>2. NewId(i) \in Ids /\ Created(NewId(i)) = Len(batch) + 1
    BY <1>1 DEF Ids, Created
  <1>3. \A e \in DOMAIN entry : Created(e) \in 1..Len(batch)
    BY DEF Sound, Dated
  <1> QED
    BY <1>1, <1>2, <1>3

(* The entries that added games take: a reusable one or a new one.         *)
LEMMA Assigned ==
    ASSUME Sound, NEW k \in Nat, NEW add \in [1..k -> Content], NEW ids \in Assignments(add), NEW i \in 1..k
    PROVE  \/ /\ ids[i] \in Reusable(add[i], Reserved(ids, i))
              /\ ids[i] \in DOMAIN entry
           \/ /\ ids[i] = NewId(i) /\ ids[i] \notin DOMAIN entry
              /\ Reusable(add[i], Reserved(ids, i)) = {}
  <1> DEFINE E == Reusable(add[i], Reserved(ids, i))
  <1>1. IF E # {} THEN ids[i] \in Latest(E, add[i].cabinet) ELSE ids[i] = NewId(i)
    BY DEF Assignments
  <1>2. E \subseteq DOMAIN entry
    BY DEF Reusable
  <1>3. CASE E # {}
    BY <1>1, <1>2, <1>3 DEF Latest
  <1>4. CASE E = {}
    BY <1>1, <1>4, NewIdsAreFresh
  <1> QED
    BY <1>3, <1>4

(* The entries after a delta.                                              *)
LEMMA EnteredGrows ==
    ASSUME Sound, NEW k \in Nat, NEW add \in [1..k -> Content], NEW ids \in Assignments(add),
           entry' = Entered(add, ids)
    PROVE  /\ EntriesGrow
           /\ \A i \in 1..k : ids[i] \in DOMAIN entry' /\ entry'[ids[i]] = SeriesOf[add[i].version]
  <1> DEFINE new == {NewId(i) : i \in {j \in 1..k : ids[j] = NewId(j)}}
  <1>1. entry' = [e \in DOMAIN entry \cup new |->
                    IF e \in DOMAIN entry THEN entry[e] ELSE SeriesOf[add[e[2]].version]]
    BY DEF Entered
  <1>2. DOMAIN entry \subseteq Ids /\ entry \in [DOMAIN entry -> Series]
    BY DEF Sound, TypeOK
  <1>3. ASSUME NEW i \in 1..k
        PROVE  /\ NewId(i) \in Ids /\ NewId(i) \notin DOMAIN entry /\ Created(NewId(i)) = Len(batch) + 1
               /\ NewId(i)[2] = i /\ SeriesOf[add[i].version] \in Series
    <2>1. add[i].version \in Versions
      BY DEF Content
    <2>2. SeriesOf[add[i].version] \in Series
      BY <2>1 DEF Series
    <2> QED
      BY <2>2, NewIdsAreFresh DEF NewId
  <1>4. \A i \in 1..k : NewId(i) \in new => entry'[NewId(i)] = SeriesOf[add[i].version]
    <2> SUFFICES ASSUME NEW i \in 1..k, NewId(i) \in new PROVE entry'[NewId(i)] = SeriesOf[add[i].version]
      OBVIOUS
    <2> HIDE DEF new
    <2> QED
      BY <1>1, <1>3
  <1>5. \A e \in new : \E i \in 1..k : e = NewId(i)
    OBVIOUS
  <1>6. EntriesGrow
    <2> HIDE DEF new
    <2>1. DOMAIN entry' = DOMAIN entry \cup new
      BY <1>1
    <2>2. \A e \in DOMAIN entry : entry'[e] = entry[e]
      BY <1>1
    <2>3. \A e \in new : e \in Ids /\ Created(e) = Len(batch) + 1 /\ entry'[e] \in Series
      BY <1>3, <1>4, <1>5
    <2>4. entry' \in [DOMAIN entry' -> Series]
      <3>1. \A e \in DOMAIN entry' : entry'[e] \in Series
        BY <1>2, <2>1, <2>2, <2>3
      <3>2. entry' = [e \in DOMAIN entry' |-> entry'[e]]
        BY <1>1, <2>1
      <3> QED
        BY <3>1, <3>2
    <2> QED
      BY <1>2, <2>1, <2>2, <2>3, <2>4 DEF EntriesGrow
  <1>7. ASSUME NEW i \in 1..k
        PROVE  ids[i] \in DOMAIN entry' /\ entry'[ids[i]] = SeriesOf[add[i].version]
    <2>1. CASE ids[i] \in DOMAIN entry
      <3>1. entry[ids[i]] = SeriesOf[add[i].version]
        <4>1. ids[i] # NewId(i)
          BY <1>3, <2>1
        <4>2. ids[i] \in Reusable(add[i], Reserved(ids, i))
          BY <4>1, Assigned
        <4> QED
          BY <4>2 DEF Reusable, Belongs
      <3> QED
        BY <1>6, <2>1, <3>1 DEF EntriesGrow
    <2>2. CASE ids[i] = NewId(i)
      <3>1. NewId(i) \in new
        BY <2>2
      <3> HIDE DEF new
      <3>2. DOMAIN entry' = DOMAIN entry \cup new
        BY <1>1
      <3> QED
        BY <1>4, <2>2, <3>1, <3>2
    <2>3. ids[i] \in DOMAIN entry \/ ids[i] = NewId(i)
      BY Assigned
    <2> QED
      BY <2>1, <2>2, <2>3
  <1> QED
    BY <1>6, <1>7

(* A delta writes a state.                                                 *)
LEMMA DeltaWrites ==
    ASSUME Sound, NEW u \in Users, NEW base,
           NEW modified \in SUBSET Entries(Rows(game)),
           NEW removed \in SUBSET Entries(Rows(game)),
           NEW k \in Nat, NEW add \in [1..k -> Wanted], NEW modify \in [modified -> Wanted],
           UpdateArcadeGame(u, base, add, modify, removed)
    PROVE  \E R, named : Written(u, R, named)
  <1>1. PICK ids \in Assignments(add) :
          /\ NewBatch(u, Kept(modified \cup removed) \cup Modified(modify, u) \cup Added(add, ids, u),
                      base, modified \cup removed \cup {ids[i] : i \in 1..k})
          /\ entry' = Entered(add, ids)
    BY DEF UpdateArcadeGame
  <1>2. /\ base = game /\ UNCHANGED <<clock, public>>
        /\ \A e \in modified : Belongs(e, modify[e]) /\ Compatible(modify[e])
        /\ \A i \in 1..k : Compatible(add[i])
    BY DEF UpdateArcadeGame, Current
  <1> DEFINE took == {ids[i] : i \in 1..k}
             named == modified \cup removed \cup took
             K == Kept(modified \cup removed)
             M == Modified(modify, u)
             A == Added(add, ids, u)
             R == K \cup M \cup A
  <1>3. add \in [1..k -> Content] /\ modify \in [modified -> Content]
    OBVIOUS
  <1>4. /\ EntriesGrow
        /\ \A i \in 1..k : ids[i] \in DOMAIN entry' /\ entry'[ids[i]] = SeriesOf[add[i].version]
    BY <1>1, <1>3, EnteredGrows
  <1>5. Entries(Rows(game)) \subseteq DOMAIN entry
    BY PresentRows DEF Entries
  <1>6. ASSUME NEW r \in K PROVE r \in Rows(game) /\ r \in Row /\ Placed(r) /\ Authored(r, u)
    <2>1. r \in Rows(game)
      BY DEF Kept
    <2> QED
      BY <1>4, <2>1, PresentRows DEF Placed, Authored, EntriesGrow
  <1>7. ASSUME NEW e \in modified
        PROVE  LET s == Revised(RowOf(Rows(game), e), modify[e], u) IN
               s.entry = e /\ s \in Row /\ Placed(s) /\ Authored(s, u)
    <2> DEFINE r == RowOf(Rows(game), e)
               s == Revised(r, modify[e], u)
    <2>1. r \in Rows(game) /\ r.entry = e
      BY DEF RowOf, Entries
    <2>2. modify[e] \in Content /\ SeriesOf[modify[e].version] = entry[e] /\ Compatible(modify[e])
      BY <1>2, <1>3 DEF Belongs
    <2> HIDE DEF r
    <2>3. s \in Row /\ s.entry = e /\ s.content = modify[e] /\ Authored(s, u)
      BY <2>1, <2>2, RevisedRow
    <2>4. e \in DOMAIN entry
      BY <1>5
    <2> HIDE DEF s
    <2>5. Placed(s)
      BY <1>4, <2>2, <2>3, <2>4 DEF Placed, EntriesGrow
    <2> QED
      BY <2>3, <2>5 DEF s, r
  <1>8. ASSUME NEW i \in 1..k
        PROVE  LET s == [entry |-> ids[i], content |-> add[i], by |-> u, since |-> Len(batch) + 1] IN
               s \in Row /\ Placed(s) /\ Authored(s, u) /\ ids[i] \notin Entries(Rows(game))
    <2> DEFINE s == [entry |-> ids[i], content |-> add[i], by |-> u, since |-> Len(batch) + 1]
    <2>1. ids[i] \in Ids /\ add[i] \in Content /\ Len(batch) + 1 \in Nat
      BY <1>3, <1>4 DEF EntriesGrow, Sound, TypeOK
    <2>2. ids[i] \notin Entries(Rows(game))
      BY <1>3, <1>5, Assigned DEF Reusable
    <2>3. s \in Row
      BY <2>1 DEF Row
    <2>4. Placed(s)
      BY <1>2, <1>4 DEF Placed
    <2>5. Authored(s, u)
      BY <2>2 DEF Authored, Entries
    <2> QED
      BY <2>2, <2>3, <2>4, <2>5
  <1>9. /\ \A s \in M : \E e \in modified : s = Revised(RowOf(Rows(game), e), modify[e], u)
        /\ \A s \in A : \E i \in 1..k :
              s = [entry |-> ids[i], content |-> add[i], by |-> u, since |-> Len(batch) + 1]
        /\ \A i \in 1..k :
              [entry |-> ids[i], content |-> add[i], by |-> u, since |-> Len(batch) + 1] \in A
    BY DEF Modified, Added
  <1>10. ASSUME NEW s \in M PROVE s.entry \in modified /\ s \in Row /\ Placed(s) /\ Authored(s, u)
    BY <1>7, <1>9
  <1>11. ASSUME NEW s \in A PROVE s.entry \in took /\ s \in Row /\ Placed(s) /\ Authored(s, u)
    BY <1>8, <1>9
  <1>12. {r \in R : r.entry \notin named} = Kept(named)
    <2> HIDE DEF M, A, took
    <2> QED
      BY <1>10, <1>11 DEF Kept
  <1>13. took \subseteq Entries(R)
    <2>1. \A i \in 1..k : \E s \in A : s.entry = ids[i]
      BY <1>9
    <2> QED
      BY <2>1 DEF Entries
  <1>14. ASSUME NEW s \in R PROVE Identified(s, R)
    <2>1. CASE s \in K \cup M
      <3>1. s.entry \in Entries(Rows(game))
        BY <1>6, <1>10, <2>1 DEF Entries
      <3> QED
        BY <1>5, <3>1 DEF Identified
    <2>2. CASE s \in A
      <3>1. PICK i \in 1..k : s = [entry |-> ids[i], content |-> add[i], by |-> u, since |-> Len(batch) + 1]
        BY <1>9, <2>2
      <3>2. Reserved(ids, i) \subseteq Entries(R)
        <4>1. 1..(i - 1) \subseteq 1..k
          OBVIOUS
        <4> QED
          BY <1>13, <4>1 DEF Reserved
      <3>3. s.entry = ids[i] /\ s.content = add[i]
        BY <3>1
      <3>4. CASE ids[i] \in Reusable(add[i], Reserved(ids, i)) /\ ids[i] \in DOMAIN entry
        BY <3>3, <3>4 DEF Identified, Reusable
      <3>5. CASE ids[i] \notin DOMAIN entry /\ Reusable(add[i], Reserved(ids, i)) = {}
        <4> HIDE DEF R
        <4> QED
          BY <3>2, <3>3, <3>5 DEF Identified, Reusable
      <3>6. \/ ids[i] \in Reusable(add[i], Reserved(ids, i)) /\ ids[i] \in DOMAIN entry
            \/ ids[i] \notin DOMAIN entry /\ Reusable(add[i], Reserved(ids, i)) = {}
        BY <1>3, Assigned
      <3> QED
        BY <3>4, <3>5, <3>6
    <2> QED
      BY <2>1, <2>2
  <1> QED
    <2>1. named \subseteq Ids
      <3>1. DOMAIN entry \subseteq Ids /\ took \subseteq Ids
        BY <1>4 DEF EntriesGrow
      <3> QED
        BY <1>5, <3>1
    <2> HIDE DEF K, M, A, took
    <2>2. R \subseteq Row /\ \A r \in R : Placed(r) /\ Authored(r, u)
      BY <1>6, <1>10, <1>11
    <2>3. NewBatch(u, R, game, named)
      BY <1>1, <1>2 DEF K, M, A, took
    <2> HIDE DEF R, named
    <2>4. Written(u, R, named)
      BY <1>2, <1>4, <1>12, <1>14, <2>1, <2>2, <2>3 DEF Written
    <2> QED
      BY <2>4

-------------------------------------------------------------------------------
(* The steps: a state is written, or an earlier one returns, or the games  *)
(* stay as they are.                                                       *)
Same == UNCHANGED <<entry, batch, game, changelog>> /\ clock' \in Nat /\ public' \in BOOLEAN

LEMMA Steps ==
    ASSUME Sound, [Next]_vars
    PROVE  \/ \E u \in Users : \E R, named : Written(u, R, named)
           \/ \E u \in Users, b \in DOMAIN batch : RollbackArcadePart(u, b)
           \/ Same
  <1>1. ASSUME NEW u \in Users, Request(u)
        PROVE  \E R, named : Written(u, R, named)
    <2>1. CASE \E base \in 0..Len(batch) :
                 \E modified \in SUBSET Entries(Rows(game)) :
                 \E removed \in SUBSET (Entries(Rows(game)) \ modified) :
                 \E add \in Adds(MaxItems - Cardinality(modified \cup removed)) :
                 \E modify \in [modified -> Wanted] :
                   UpdateArcadeGame(u, base, add, modify, removed)
      <3>1. PICK base \in 0..Len(batch), modified \in SUBSET Entries(Rows(game)) :
                 \E removed \in SUBSET (Entries(Rows(game)) \ modified) :
                 \E add \in Adds(MaxItems - Cardinality(modified \cup removed)) :
                 \E modify \in [modified -> Wanted] :
                   UpdateArcadeGame(u, base, add, modify, removed)
        BY <2>1, Zenon
      <3>2. PICK removed \in SUBSET (Entries(Rows(game)) \ modified) :
                 \E add \in Adds(MaxItems - Cardinality(modified \cup removed)) :
                 \E modify \in [modified -> Wanted] :
                   UpdateArcadeGame(u, base, add, modify, removed)
        BY <3>1, Zenon
      <3>3. PICK add \in Adds(MaxItems - Cardinality(modified \cup removed)),
                 modify \in [modified -> Wanted] :
                   UpdateArcadeGame(u, base, add, modify, removed)
        BY <3>2, Zenon
      <3>4. PICK k \in 0..(MaxItems - Cardinality(modified \cup removed)) : add \in [1..k -> Wanted]
        BY DEF Adds
      <3>5. k \in Nat /\ removed \in SUBSET Entries(Rows(game))
        OBVIOUS
      <3> QED
        BY <3>3, <3>4, <3>5, DeltaWrites, Zenon
    <2>2. CASE \E selected \in SUBSET DOMAIN entry \ {{}}, from, to \in Versions :
                 BulkUpdateArcadeGameVersion(u, selected, from, to)
      BY <2>2, BulkWrites
    <2> QED
      BY <1>1, <2>1, <2>2, Zenon DEF Request
  <1>2. CASE \E u \in Users : Request(u)
    BY <1>1, <1>2, Zenon
  <1>3. CASE UpdateArcadeStatus
    BY <1>3 DEF UpdateArcadeStatus, Same, Sound, TypeOK
  <1>4. CASE Tick
    BY <1>4 DEF Tick, Same, Sound, TypeOK
  <1>5. CASE UNCHANGED vars
    BY <1>5 DEF vars, Same, Sound, TypeOK
  <1> QED
    BY <1>2, <1>3, <1>4, <1>5, Zenon DEF Next

(* Nothing of what was written before changes.                             *)
Extended(u, R, named) ==
    /\ Len(batch') = Len(batch) + 1 /\ Len(batch) \in Nat
    /\ game \in 0..Len(batch) /\ game' = Len(batch) + 1
    /\ \A b \in DOMAIN batch : b \in DOMAIN batch' /\ batch'[b] = batch[b]
    /\ \A b \in DOMAIN batch' : b \in DOMAIN batch \/ b = Len(batch) + 1
    /\ batch'[Len(batch) + 1] = [base |-> game, rows |-> R]
    /\ Len(changelog') = Len(changelog) + 1 /\ Len(changelog) \in Nat
    /\ \A i \in DOMAIN changelog : i \in DOMAIN changelog' /\ changelog'[i] = changelog[i]
    /\ \A i \in DOMAIN changelog' : i \in DOMAIN changelog \/ i = Len(changelog) + 1
    /\ changelog'[Len(changelog) + 1] =
         [from |-> game, to |-> Len(batch) + 1, by |-> u, seen |-> game, named |-> named]
    /\ Len(changelog) + 1 \in DOMAIN changelog' /\ Len(batch) + 1 \in DOMAIN batch'

LEMMA PastStays ==
    ASSUME Sound, NEW u \in Users, NEW R, NEW named, Written(u, R, named)
    PROVE  Extended(u, R, named)
  <1>1. batch \in Seq(Batch) /\ changelog \in Seq(Move) /\ game \in 0..Len(batch)
    BY DEF Sound, TypeOK
  <1>2. /\ batch' = Append(batch, [base |-> game, rows |-> R])
        /\ game' = Len(batch) + 1
        /\ changelog' = Append(changelog,
              [from |-> game, to |-> Len(batch) + 1, by |-> u, seen |-> game, named |-> named])
    BY DEF Written, NewBatch, Moved
  <1> QED
    BY <1>1, <1>2 DEF Extended

(* A rollback only moves the pointer.                                      *)
Returned(u, b) ==
    /\ UNCHANGED <<clock, public, entry, batch>>
    /\ game' = b /\ game \in 1..Len(batch) /\ b # game /\ b \in 1..Len(batch)
    /\ Len(changelog') = Len(changelog) + 1 /\ Len(changelog) \in Nat
    /\ \A i \in DOMAIN changelog : i \in DOMAIN changelog' /\ changelog'[i] = changelog[i]
    /\ \A i \in DOMAIN changelog' : i \in DOMAIN changelog \/ i = Len(changelog) + 1
    /\ changelog' = Append(changelog, [from |-> game, to |-> b, by |-> u, seen |-> game,
                       named |-> Entries(Rows(game)) \cup Entries(Rows(b))])
    /\ changelog'[Len(changelog) + 1] =
         [from |-> game, to |-> b, by |-> u, seen |-> game,
          named |-> Entries(Rows(game)) \cup Entries(Rows(b))]

LEMMA ReturnStays ==
    ASSUME Sound, NEW u \in Users, NEW b \in DOMAIN batch, RollbackArcadePart(u, b)
    PROVE  Returned(u, b)
  <1>1. batch \in Seq(Batch) /\ changelog \in Seq(Move) /\ game \in 0..Len(batch)
    BY DEF Sound, TypeOK
  <1>2. /\ game' = b
        /\ changelog' = Append(changelog, [from |-> game, to |-> b, by |-> u, seen |-> game,
                              named |-> Entries(Rows(game)) \cup Entries(Rows(b))])
    BY DEF RollbackArcadePart, Moved
  <1>3. UNCHANGED <<clock, public, entry, batch>> /\ game # 0 /\ b # game
    BY DEF RollbackArcadePart
  <1> QED
    BY <1>1, <1>2, <1>3 DEF Returned

-------------------------------------------------------------------------------
(* Soundness is kept.                                                      *)
LEMMA WrittenSound ==
    ASSUME Sound, NEW u \in Users, NEW R, NEW named, Written(u, R, named)
    PROVE  Sound'
  <1>0. Extended(u, R, named)
    BY PastStays
  <1>1. R \subseteq Row /\ named \subseteq Ids /\ Storable(R) /\ EntriesGrow /\ UNCHANGED <<clock, public>>
    BY DEF Written, NewBatch
  <1>2. \A r \in R : Placed(r) /\ Authored(r, u)
    BY DEF Written
  <1>3. batch \in Seq(Batch) /\ changelog \in Seq(Move) /\ game \in 0..Len(batch) /\ Len(batch) \in Nat
    BY DEF Sound, TypeOK
  <1>4. TypeOK'
    <2>1. [base |-> game, rows |-> R] \in Batch
      BY <1>1, <1>3 DEF Batch
    <2>2. [from |-> game, to |-> Len(batch) + 1, by |-> u, seen |-> game, named |-> named] \in Move
      BY <1>1, <1>3 DEF Move
    <2>3. batch' \in Seq(Batch) /\ changelog' \in Seq(Move) /\ game' \in 0..Len(batch')
      BY <1>3, <2>1, <2>2, <1>0 DEF Extended, Written, NewBatch, Moved
    <2>4. DOMAIN entry' \subseteq Ids /\ entry' \in [DOMAIN entry' -> Series]
      BY <1>1 DEF EntriesGrow
    <2> QED
      BY <1>1, <2>3, <2>4 DEF TypeOK, Sound
  <1>5. StatesAreSound'
    <2> SUFFICES ASSUME NEW b \in DOMAIN batch', NEW r \in batch'[b].rows
                 PROVE  /\ r.entry \in DOMAIN entry'
                        /\ entry'[r.entry] = SeriesOf[r.content.version]
                        /\ Compatible(r.content)
                        /\ \A s \in batch'[b].rows : r # s =>
                             /\ r.entry # s.entry
                             /\ <<r.content.version, r.content.cabinet>> # <<s.content.version, s.content.cabinet>>
      BY Zenon DEF StatesAreSound, Compatible
    <2>1. CASE b \in DOMAIN batch
      <3>1. batch'[b] = batch[b]
        BY <2>1, <1>0 DEF Extended
      <3>2. /\ r.entry \in DOMAIN entry
            /\ entry[r.entry] = SeriesOf[r.content.version]
            /\ Compatible(r.content)
            /\ \A s \in batch'[b].rows : r # s =>
                 /\ r.entry # s.entry
                 /\ <<r.content.version, r.content.cabinet>> # <<s.content.version, s.content.cabinet>>
        BY <2>1, <3>1, Zenon DEF Sound, StatesAreSound, Compatible
      <3>3. r.entry \in DOMAIN entry' /\ entry'[r.entry] = entry[r.entry]
        BY <1>1, <3>2 DEF EntriesGrow
      <3> QED
        BY <3>2, <3>3, Zenon
    <2>2. CASE b = Len(batch) + 1
      <3>1. batch'[b].rows = R
        BY <2>2, <1>0 DEF Extended
      <3>2. Placed(r)
        BY <1>2, <3>1
      <3>3. \A s \in R : r # s =>
                 /\ r.entry # s.entry
                 /\ <<r.content.version, r.content.cabinet>> # <<s.content.version, s.content.cabinet>>
        BY <1>1, <3>1 DEF Storable
      <3> QED
        BY <3>1, <3>2, <3>3, Zenon DEF Placed
    <2> QED
      BY <2>1, <2>2, <1>0 DEF Extended
  <1>6. Dated'
    <2>1. ASSUME NEW e \in DOMAIN entry' PROVE Created(e) \in 1..Len(batch')
      <3>1. e \in DOMAIN entry => Created(e) \in 1..Len(batch)
        BY DEF Sound, Dated
      <3>2. e \notin DOMAIN entry => Created(e) = Len(batch) + 1
        BY <1>1 DEF EntriesGrow
      <3> QED
        BY <1>3, <3>1, <3>2, <1>0 DEF Extended
    <2>2. ASSUME NEW b \in DOMAIN batch'
          PROVE  batch'[b].base \in 0..(b - 1) /\ \A r \in batch'[b].rows : r.since \in 1..b
      <3>1. CASE b \in DOMAIN batch
        BY <3>1, <1>0 DEF Extended, Sound, Dated
      <3>2. CASE b = Len(batch) + 1
        <4>1. batch'[b] = [base |-> game, rows |-> R]
          BY <3>2, <1>0 DEF Extended
        <4>2. \A r \in R : r.since \in 1..b
          BY <1>2, <1>3, <3>2, PresentRows DEF Authored
        <4> QED
          BY <1>3, <3>2, <4>1, <4>2
      <3> QED
        BY <3>1, <3>2, <1>0 DEF Extended
    <2>3. ASSUME NEW i \in DOMAIN changelog'
          PROVE  changelog'[i].from \in 0..Len(batch') /\ changelog'[i].to \in 1..Len(batch')
                 /\ changelog'[i].seen \in 0..Len(batch')
      <3>1. CASE i \in DOMAIN changelog
        BY <1>3, <3>1, <1>0 DEF Extended, Sound, Dated
      <3>2. CASE i = Len(changelog) + 1
        BY <1>3, <3>2, <1>0 DEF Extended
      <3> QED
        BY <3>1, <3>2, <1>0 DEF Extended
    <2> QED
      BY <2>1, <2>2, <2>3 DEF Dated, Created
  <1> QED
    BY <1>4, <1>5, <1>6 DEF Sound

LEMMA ReturnSound ==
    ASSUME Sound, NEW u \in Users, NEW b \in DOMAIN batch, RollbackArcadePart(u, b)
    PROVE  Sound'
  <1>1. Returned(u, b)
    BY ReturnStays
  <1>2. batch \in Seq(Batch) /\ changelog \in Seq(Move)
    BY DEF Sound, TypeOK
  <1>3. Entries(Rows(game)) \subseteq Ids /\ Entries(Rows(b)) \subseteq Ids
    <2>1. Rows(game) \subseteq Row
      BY PresentRows
    <2>2. Rows(b) \subseteq Row
      <3>1. b # 0 /\ batch[b] \in Batch
        BY <1>1, <1>2 DEF Returned
      <3> QED
        BY <3>1 DEF Rows, Batch
    <2> QED
      BY <2>1, <2>2 DEF Entries, Row
  <1>4. TypeOK'
    <2>1. [from |-> game, to |-> b, by |-> u, seen |-> game,
           named |-> Entries(Rows(game)) \cup Entries(Rows(b))] \in Move
      BY <1>1, <1>3 DEF Move, Returned
    <2>2. changelog' \in Seq(Move) /\ game' \in 0..Len(batch')
      BY <1>1, <1>2, <2>1 DEF Returned
    <2>3. batch' \in Seq(Batch) /\ DOMAIN entry' \subseteq Ids /\ entry' \in [DOMAIN entry' -> Series]
          /\ clock' \in Nat /\ public' \in BOOLEAN
      BY <1>1 DEF Returned, Sound, TypeOK
    <2> QED
      BY <2>2, <2>3 DEF TypeOK
  <1>5. StatesAreSound'
    BY <1>1 DEF Returned, Sound, StatesAreSound
  <1>6. Dated'
    <2>1. ASSUME NEW i \in DOMAIN changelog'
          PROVE  changelog'[i].from \in 0..Len(batch') /\ changelog'[i].to \in 1..Len(batch')
                 /\ changelog'[i].seen \in 0..Len(batch')
      BY <1>1 DEF Returned, Sound, Dated
    <2> QED
      BY <1>1, <2>1 DEF Returned, Sound, Dated, Created
  <1> QED
    BY <1>4, <1>5, <1>6 DEF Sound

LEMMA SameSound == ASSUME Sound, Same PROVE Sound'
  <1>1. TypeOK'
    BY DEF Sound, Same, TypeOK
  <1>2. StatesAreSound'
    BY DEF Sound, Same, StatesAreSound
  <1>3. Dated'
    BY DEF Sound, Same, Dated, Created
  <1> QED
    BY <1>1, <1>2, <1>3 DEF Sound

(* The inductive invariant: types, sound states, and references to the     *)
(* past only, in every reachable state.                                    *)
THEOREM Soundness == Spec => []Sound
  <1>1. Init => Sound
    <2> SUFFICES ASSUME Init PROVE Sound
      OBVIOUS
    <2>1. TypeOK
      <3>1. entry = <<>> /\ DOMAIN entry = {}
        BY DEF Init
      <3>2. entry = [e \in {} |-> CHOOSE x \in Series : TRUE]
        BY <3>1
      <3>3. entry \in [{} -> Series]
        BY <3>2
      <3>4. batch \in Seq(Batch) /\ changelog \in Seq(Move) /\ game \in 0..Len(batch)
        BY DEF Init
      <3> QED
        BY <3>1, <3>3, <3>4 DEF Init, TypeOK
    <2>2. StatesAreSound /\ Dated
      BY DEF Init, StatesAreSound, Dated
    <2> QED
      BY <2>1, <2>2 DEF Sound
  <1>2. Sound /\ [Next]_vars => Sound'
    <2> SUFFICES ASSUME Sound, [Next]_vars PROVE Sound'
      OBVIOUS
    <2>1. ASSUME NEW u \in Users, NEW R, NEW named, Written(u, R, named) PROVE Sound'
      BY <2>1, WrittenSound
    <2>2. ASSUME NEW u \in Users, NEW b \in DOMAIN batch, RollbackArcadePart(u, b) PROVE Sound'
      BY <2>2, ReturnSound
    <2>3. CASE Same
      BY <2>3, SameSound
    <2>4. \/ \E u \in Users : \E R, named : Written(u, R, named)
          \/ \E u \in Users, b \in DOMAIN batch : RollbackArcadePart(u, b)
          \/ Same
      BY Steps
    <2> QED
      BY <2>1, <2>2, <2>3, <2>4, Zenon
  <1> QED
    BY <1>1, <1>2, PTL DEF Spec

(* Every variable keeps its type, under all sequences of requests.         *)
THEOREM Typing == Spec => []TypeOK
  <1>1. Sound => TypeOK
    BY DEF Sound
  <1> QED
    BY <1>1, Soundness, PTL

(* Every state that was ever written can be returned to: installations of  *)
(* the arcade, each once and in its series, no version twice in a cabinet, *)
(* every cabinet fit for its version.                                      *)
THEOREM StatesStaySound == Spec => []StatesAreSound
  <1>1. Sound => StatesAreSound
    BY DEF Sound
  <1> QED
    BY <1>1, Soundness, PTL

-------------------------------------------------------------------------------
(* The properties of the history, for batches B and moves C: what they say *)
(* of one state or one move stays true as long as its past stays.          *)

RowsIn(B, b) == IF b = 0 THEN {} ELSE B[b].rows

ChangesOnlyNamed(B, m) ==
    {r \in RowsIn(B, m.to) : r.entry \notin m.named} = {r \in RowsIn(B, m.seen) : r.entry \notin m.named}

(* The rows of states that exist stay the same.                            *)
LEMMA RowsStay ==
    ASSUME Sound, NEW u \in Users, NEW R, NEW named, Written(u, R, named), NEW b \in 0..Len(batch)
    PROVE  RowsIn(batch', b) = RowsIn(batch, b)
  <1>1. Extended(u, R, named) /\ batch \in Seq(Batch)
    BY PastStays DEF Sound, TypeOK
  <1>2. b # 0 => b \in DOMAIN batch
    BY <1>1
  <1> QED
    BY <1>1, <1>2 DEF Extended, RowsIn

(* A request changes the installations it names, and of all others leaves  *)
(* what its author saw, however long before that was.                      *)
THEOREM NothingIsLost == Spec => []NothingLost
  <1>1. NothingLost <=> \A i \in DOMAIN changelog : ChangesOnlyNamed(batch, changelog[i])
    BY DEF NothingLost, ChangesOnlyNamed, Rows, RowsIn
  <1>2. Init => NothingLost
    BY DEF Init, NothingLost
  <1>3. NothingLost /\ Sound /\ [Next]_vars => NothingLost'
    <2> SUFFICES ASSUME NothingLost, Sound, [Next]_vars PROVE NothingLost'
      OBVIOUS
    <2>0. NothingLost' <=> \A i \in DOMAIN changelog' : ChangesOnlyNamed(batch', changelog'[i])
      BY DEF NothingLost, ChangesOnlyNamed, Rows, RowsIn
    <2>1. ASSUME NEW u \in Users, NEW R, NEW named, Written(u, R, named) PROVE NothingLost'
      <3>1. Extended(u, R, named) /\ {r \in R : r.entry \notin named} = Kept(named)
        BY <2>1, PastStays DEF Written
      <3>2. ASSUME NEW i \in DOMAIN changelog PROVE ChangesOnlyNamed(batch', changelog'[i])
        <4>1. changelog'[i] = changelog[i] /\ changelog[i].to \in 0..Len(batch) /\ changelog[i].seen \in 0..Len(batch)
          BY <3>1 DEF Extended, Sound, Dated
        <4>2. /\ RowsIn(batch', changelog[i].to) = RowsIn(batch, changelog[i].to)
              /\ RowsIn(batch', changelog[i].seen) = RowsIn(batch, changelog[i].seen)
          BY <2>1, <4>1, RowsStay
        <4> QED
          BY <1>1, <4>1, <4>2 DEF ChangesOnlyNamed
      <3>3. ChangesOnlyNamed(batch', changelog'[Len(changelog) + 1])
        <4> DEFINE m == changelog'[Len(changelog) + 1]
        <4>1. m.to = Len(batch) + 1 /\ m.seen = game /\ m.named = named
          BY <3>1 DEF Extended
        <4>2. RowsIn(batch', Len(batch) + 1) = R
          BY <3>1 DEF Extended, RowsIn
        <4>3. RowsIn(batch', game) = Rows(game)
          <5>1. game \in 0..Len(batch)
            BY <3>1 DEF Extended
          <5> QED
            BY <2>1, <5>1, RowsStay DEF Rows, RowsIn
        <4> HIDE DEF m
        <4>4. {r \in RowsIn(batch', m.to) : r.entry \notin m.named} = {r \in R : r.entry \notin named}
          BY <4>1, <4>2
        <4>5. {r \in RowsIn(batch', m.seen) : r.entry \notin m.named} = Kept(named)
          BY <4>1, <4>3 DEF Kept
        <4>6. ChangesOnlyNamed(batch', m)
          BY <3>1, <4>4, <4>5 DEF ChangesOnlyNamed
        <4> QED
          BY <4>6 DEF m
      <3> QED
        BY <2>0, <3>1, <3>2, <3>3 DEF Extended
    <2>2. ASSUME NEW u \in Users, NEW b \in DOMAIN batch, RollbackArcadePart(u, b) PROVE NothingLost'
      <3>1. Returned(u, b)
        BY <2>2, ReturnStays
      <3>2. ASSUME NEW i \in DOMAIN changelog PROVE ChangesOnlyNamed(batch', changelog'[i])
        BY <1>1, <3>1 DEF Returned
      <3>3. ChangesOnlyNamed(batch', changelog'[Len(changelog) + 1])
        BY <3>1 DEF Returned, ChangesOnlyNamed, Entries, Rows, RowsIn
      <3> QED
        BY <2>0, <3>1, <3>2, <3>3 DEF Returned
    <2>3. CASE Same
      BY <1>1, <2>0, <2>3 DEF Same
    <2>4. \/ \E u \in Users : \E R, named : Written(u, R, named)
          \/ \E u \in Users, b \in DOMAIN batch : RollbackArcadePart(u, b)
          \/ Same
      BY Steps
    <2> QED
      BY <2>1, <2>2, <2>3, <2>4, Zenon
  <1> QED
    BY <1>2, <1>3, Soundness, PTL DEF Spec

AttributedIn(B, C, b, r) ==
    IF r.since = b
      THEN /\ \A s \in RowsIn(B, B[b].base) : s.entry = r.entry => s.content # r.content
           /\ \E i \in DOMAIN C : C[i].to = b /\ C[i].by = r.by
      ELSE r \in RowsIn(B, B[b].base)

(* Whoever a row names as its last editor wrote it, in the state it names, *)
(* and the row has come down unchanged from there to the state it is in.   *)
THEOREM AttributionHolds == Spec => []Attributed
  <1>1. Attributed <=> \A b \in DOMAIN batch : \A r \in batch[b].rows : AttributedIn(batch, changelog, b, r)
    BY DEF Attributed, AttributedIn, Rows, RowsIn
  <1>2. Init => Attributed
    BY DEF Init, Attributed
  <1>3. Attributed /\ Sound /\ [Next]_vars => Attributed'
    <2> SUFFICES ASSUME Attributed, Sound, [Next]_vars PROVE Attributed'
      OBVIOUS
    <2>0. Attributed' <=> \A b \in DOMAIN batch' : \A r \in batch'[b].rows : AttributedIn(batch', changelog', b, r)
      BY DEF Attributed, AttributedIn, Rows, RowsIn
    <2>1. ASSUME NEW u \in Users, NEW R, NEW named, Written(u, R, named) PROVE Attributed'
      <3>1. Extended(u, R, named) /\ \A r \in R : Authored(r, u)
        BY <2>1, PastStays DEF Written
      <3>2. ASSUME NEW b \in DOMAIN batch, NEW r \in batch'[b].rows
            PROVE  AttributedIn(batch', changelog', b, r)
        <4>1. batch'[b] = batch[b] /\ batch[b].base \in 0..Len(batch)
          BY <3>1 DEF Extended, Sound, Dated, TypeOK
        <4>2. RowsIn(batch', batch[b].base) = RowsIn(batch, batch[b].base)
          BY <2>1, <4>1, RowsStay
        <4>3. AttributedIn(batch, changelog, b, r)
          BY <1>1, <4>1
        <4>4. \A i \in DOMAIN changelog : i \in DOMAIN changelog' /\ changelog'[i] = changelog[i]
          BY <3>1 DEF Extended
        <4> QED
          BY <4>1, <4>2, <4>3, <4>4 DEF AttributedIn
      <3>3. ASSUME NEW r \in R PROVE AttributedIn(batch', changelog', Len(batch) + 1, r)
        <4>1. batch'[Len(batch) + 1].base = game /\ game \in 0..Len(batch) /\ Len(batch) \in Nat
          BY <3>1 DEF Extended
        <4>2. RowsIn(batch', game) = Rows(game)
          BY <2>1, <4>1, RowsStay DEF Rows, RowsIn
        <4>3. CASE r \in Rows(game)
          <5>1. r.since # Len(batch) + 1
            BY <4>1, <4>3, PresentRows
          <5> QED
            BY <4>1, <4>2, <4>3, <5>1 DEF AttributedIn
        <4>4. CASE /\ r.since = Len(batch) + 1 /\ r.by = u
                   /\ \A s \in Rows(game) : s.entry = r.entry => s.content # r.content
          <5>1. \E i \in DOMAIN changelog' : changelog'[i].to = Len(batch) + 1 /\ changelog'[i].by = r.by
            BY <3>1, <4>4 DEF Extended
          <5> QED
            BY <4>1, <4>2, <4>4, <5>1 DEF AttributedIn
        <4> QED
          BY <3>1, <4>3, <4>4 DEF Authored
      <3>4. batch'[Len(batch) + 1].rows = R
        BY <3>1 DEF Extended
      <3> QED
        BY <2>0, <3>1, <3>2, <3>3, <3>4 DEF Extended
    <2>2. ASSUME NEW u \in Users, NEW b \in DOMAIN batch, RollbackArcadePart(u, b) PROVE Attributed'
      <3>1. Returned(u, b)
        BY <2>2, ReturnStays
      <3> QED
        BY <1>1, <2>0, <3>1 DEF Returned, AttributedIn
    <2>3. CASE Same
      BY <1>1, <2>0, <2>3 DEF Same
    <2>4. \/ \E u \in Users : \E R, named : Written(u, R, named)
          \/ \E u \in Users, b \in DOMAIN batch : RollbackArcadePart(u, b)
          \/ Same
      BY Steps
    <2> QED
      BY <2>1, <2>2, <2>3, <2>4, Zenon
  <1> QED
    BY <1>2, <1>3, Soundness, PTL DEF Spec

Stood(B, e, c, b) == \E a \in DOMAIN B : a < b /\ \E q \in B[a].rows : q.entry = e /\ q.content.cabinet = c

IdentifiedIn(B, D, b, r) ==
    LET former == Entries(RowsIn(B, B[b].base)) IN
    /\ Created(r.entry) = b /\ r.content.cabinet # NoCabinet =>
         \A e \in DOMAIN D :
            Created(e) < b /\ D[e] = SeriesOf[r.content.version] /\ Stood(B, e, r.content.cabinet, b)
            => e \in former \cup Entries(B[b].rows)
    /\ Created(r.entry) # b /\ r.entry \notin former =>
         r.content.cabinet # NoCabinet /\ Stood(B, r.entry, r.content.cabinet, b)

(* An installation is made anew only if no former one of that series and   *)
(* verified cabinet was free, and comes back only to a cabinet it knew.    *)
THEOREM IdentitiesAreKept == Spec => []IdentityKept
  <1>1. IdentityKept <=> \A b \in DOMAIN batch : \A r \in batch[b].rows : IdentifiedIn(batch, entry, b, r)
    BY DEF IdentityKept, IdentifiedIn, Rows, RowsIn, Stood, StoodAt, Belongs
  <1>2. Init => IdentityKept
    BY DEF Init, IdentityKept
  <1>3. IdentityKept /\ Sound /\ [Next]_vars => IdentityKept'
    <2> SUFFICES ASSUME IdentityKept, Sound, [Next]_vars PROVE IdentityKept'
      OBVIOUS
    <2>0. IdentityKept' <=> \A b \in DOMAIN batch' : \A r \in batch'[b].rows : IdentifiedIn(batch', entry', b, r)
      BY DEF IdentityKept, IdentifiedIn, Rows, RowsIn, Stood, StoodAt, Belongs
    <2>1. ASSUME NEW u \in Users, NEW R, NEW named, Written(u, R, named) PROVE IdentityKept'
      <3>1. /\ Extended(u, R, named) /\ EntriesGrow
            /\ \A r \in R : Placed(r) /\ Identified(r, R)
        BY <2>1, PastStays DEF Written
      <3>2. /\ Len(batch) \in Nat /\ DOMAIN batch = 1..Len(batch)
            /\ \A e \in DOMAIN entry : Created(e) \in 1..Len(batch)
        BY DEF Sound, TypeOK, Dated
      <3>3. ASSUME NEW b \in 1..(Len(batch) + 1), NEW e, NEW c
            PROVE  Stood(batch', e, c, b) <=> Stood(batch, e, c, b)
        <4>1. \A a \in DOMAIN batch' : a < b => a \in DOMAIN batch
          BY <3>1, <3>2 DEF Extended
        <4>2. \A a \in DOMAIN batch : a \in DOMAIN batch' /\ batch'[a] = batch[a]
          BY <3>1 DEF Extended
        <4> QED
          BY <4>1, <4>2 DEF Stood
      <3>4. ASSUME NEW b \in 1..(Len(batch) + 1), NEW e \in DOMAIN entry', Created(e) < b
            PROVE  e \in DOMAIN entry /\ entry'[e] = entry[e]
        BY <3>1, <3>2, <3>4 DEF EntriesGrow
      <3>5. ASSUME NEW b \in DOMAIN batch, NEW r \in batch'[b].rows
            PROVE  IdentifiedIn(batch', entry', b, r)
        <4>1. batch'[b] = batch[b] /\ batch[b].base \in 0..Len(batch) /\ b \in 1..(Len(batch) + 1)
          BY <3>1, <3>2 DEF Extended, Sound, Dated
        <4>2. RowsIn(batch', batch[b].base) = RowsIn(batch, batch[b].base)
          BY <2>1, <4>1, RowsStay
        <4>3. IdentifiedIn(batch, entry, b, r)
          BY <1>1, <4>1
        <4> QED
          BY <3>3, <3>4, <4>1, <4>2, <4>3 DEF IdentifiedIn
      <3>6. ASSUME NEW r \in R PROVE IdentifiedIn(batch', entry', Len(batch) + 1, r)
        <4> DEFINE b == Len(batch) + 1
        <4>1. batch'[b].base = game /\ batch'[b].rows = R /\ game \in 0..Len(batch) /\ b \in 1..(Len(batch) + 1)
          BY <3>1, <3>2 DEF Extended
        <4>2. RowsIn(batch', game) = Rows(game)
          BY <2>1, <4>1, RowsStay DEF Rows, RowsIn
        <4>3. Placed(r) /\ Identified(r, R)
          BY <3>1
        <4>4. \A e : Stood(batch', e, r.content.cabinet, b) <=> StoodAt(e, r.content.cabinet) # {}
          <5>1. \A e : Stood(batch', e, r.content.cabinet, b) <=> Stood(batch, e, r.content.cabinet, b)
            BY <3>3, <4>1
          <5>2. \A a \in DOMAIN batch : a < b
            BY <3>2
          <5> HIDE DEF b
          <5> QED
            BY <5>1, <5>2 DEF Stood, StoodAt
        <4>5. Created(r.entry) = b <=> r.entry \notin DOMAIN entry
          BY <3>1, <3>2, <4>3 DEF EntriesGrow, Placed
        <4>6. \A e \in DOMAIN entry' : Created(e) < b => e \in DOMAIN entry /\ entry'[e] = entry[e]
          BY <3>4, <4>1
        <4> HIDE DEF b
        <4>7. /\ Created(r.entry) = b /\ r.content.cabinet # NoCabinet =>
                 \A e \in DOMAIN entry' :
                    Created(e) < b /\ entry'[e] = SeriesOf[r.content.version]
                    /\ Stood(batch', e, r.content.cabinet, b)
                    => e \in Entries(Rows(game)) \cup Entries(R)
              /\ Created(r.entry) # b /\ r.entry \notin Entries(Rows(game)) =>
                 r.content.cabinet # NoCabinet /\ Stood(batch', r.entry, r.content.cabinet, b)
          BY <4>3, <4>4, <4>5, <4>6 DEF Identified, Belongs
        <4>8. IdentifiedIn(batch', entry', b, r)
          BY <4>1, <4>2, <4>7 DEF IdentifiedIn
        <4> QED
          BY <4>8 DEF b
      <3>7. batch'[Len(batch) + 1].rows = R
        BY <3>1 DEF Extended
      <3> QED
        BY <2>0, <3>1, <3>5, <3>6, <3>7 DEF Extended
    <2>2. ASSUME NEW u \in Users, NEW b \in DOMAIN batch, RollbackArcadePart(u, b) PROVE IdentityKept'
      <3>1. Returned(u, b)
        BY <2>2, ReturnStays
      <3> QED
        BY <1>1, <2>0, <3>1 DEF Returned
    <2>3. CASE Same
      BY <1>1, <2>0, <2>3 DEF Same
    <2>4. \/ \E u \in Users : \E R, named : Written(u, R, named)
          \/ \E u \in Users, b \in DOMAIN batch : RollbackArcadePart(u, b)
          \/ Same
      BY Steps
    <2> QED
      BY <2>1, <2>2, <2>3, <2>4, Zenon
  <1> QED
    BY <1>2, <1>3, Soundness, PTL DEF Spec

-------------------------------------------------------------------------------
(* A change appended to the changelog is appended to the path.             *)
LEMMA PathExtended ==
    ASSUME changelog \in Seq(Move), changelog' \in Seq(Move), NEW m, changelog' = Append(changelog, m)
    PROVE  Path' = Append(Path, [from |-> m.from, to |-> m.to])
  <1> DEFINE n == Len(changelog) + 1
             Hop == [from : Nat, to : Nat]
             hop == [from |-> m.from, to |-> m.to]
  <1>1. /\ Len(changelog) \in Nat /\ DOMAIN changelog = 1..Len(changelog)
        /\ DOMAIN changelog' = 1..n
        /\ changelog'[n] = m
        /\ \A i \in 1..Len(changelog) : changelog'[i] = changelog[i]
    OBVIOUS
  <1>2. m \in Move
    BY <1>1
  <1>3. hop \in Hop
    BY <1>2 DEF Move
  <1>4. Path \in Seq(Hop) /\ Len(Path) = Len(changelog)
        /\ \A i \in 1..Len(changelog) : Path[i] = [from |-> changelog[i].from, to |-> changelog[i].to]
    <2>1. \A i \in 1..Len(changelog) : changelog[i] \in Move
      BY <1>1
    <2> QED
      BY <1>1, <2>1 DEF Path, Move
  <1>5. Path' \in Seq(Hop) /\ Len(Path') = n
        /\ \A i \in 1..n : Path'[i] = [from |-> changelog'[i].from, to |-> changelog'[i].to]
    <2>1. \A i \in 1..n : changelog'[i] \in Move
      BY <1>1
    <2>2. n \in Nat
      BY <1>1
    <2>3. Path' = [i \in 1..n |-> [from |-> changelog'[i].from, to |-> changelog'[i].to]]
      BY <1>1 DEF Path
    <2>4. \A i \in 1..n : [from |-> changelog'[i].from, to |-> changelog'[i].to] \in Hop
      BY <2>1 DEF Move
    <2>5. Path' \in Seq(Hop)
      <3> HIDE DEF Hop
      <3> QED
        BY <2>2, <2>3, <2>4
    <2>6. Len(Path') = n
      BY <2>2, <2>3
    <2> QED
      BY <2>3, <2>5, <2>6
  <1> HIDE DEF Hop, hop
  <1>6. /\ Append(Path, hop) \in Seq(Hop) /\ Len(Append(Path, hop)) = n
        /\ \A i \in 1..Len(changelog) : Append(Path, hop)[i] = Path[i]
        /\ Append(Path, hop)[n] = hop
    BY <1>3, <1>4, AppendProperties
  <1>7. \A i \in 1..n : Path'[i] = Append(Path, hop)[i]
    BY <1>1, <1>4, <1>5, <1>6 DEF hop
  <1>8. Path' = Append(Path, hop)
    <2> HIDE DEF n
    <2> QED
      BY <1>5, <1>6, <1>7, SeqEqual
  <1> QED
    BY <1>8 DEF hop

(* The games keep their history as ArcadeHistory promises.                 *)
THEOREM ImplementsHistory == Spec => HistorySpec
  <1>1. Init => History!HInit
    BY DEF Init, History!HInit, Path
  <1>2. Sound /\ [Next]_vars => [History!HNext]_(History!hvars)
    <2> SUFFICES ASSUME Sound, [Next]_vars PROVE [History!HNext]_(History!hvars)
      OBVIOUS
    <2>0. batch \in Seq(Batch) /\ changelog \in Seq(Move)
      BY DEF Sound, TypeOK
    <2>1. ASSUME NEW m, changelog' = Append(changelog, m), changelog' \in Seq(Move)
          PROVE  Path' = Append(Path, [from |-> m.from, to |-> m.to])
      BY <2>0, <2>1, PathExtended
    <2>2. ASSUME NEW u \in Users, NEW R, NEW named, Written(u, R, named) PROVE History!Replace
      <3>1. /\ Extended(u, R, named)
            /\ changelog' = Append(changelog,
                 [from |-> game, to |-> Len(batch) + 1, by |-> u, seen |-> game, named |-> named])
        BY <2>2, PastStays DEF Written, NewBatch, Moved
      <3>2. Path' = Append(Path, [from |-> game, to |-> Len(batch) + 1])
        <4>1. changelog' \in Seq(Move)
          BY <2>2, WrittenSound DEF Sound, TypeOK
        <4> QED
          BY <2>1, <3>1, <4>1
      <3>3. \A i \in 1..Len(batch) : batch'[i] = batch[i]
        BY <2>0, <3>1 DEF Extended
      <3> QED
        BY <3>1, <3>2, <3>3 DEF History!Replace, History!MoveTo, Extended
    <2>3. ASSUME NEW u \in Users, NEW b \in DOMAIN batch, RollbackArcadePart(u, b) PROVE History!Return
      <3>1. Returned(u, b)
        BY <2>3, ReturnStays
      <3>2. Path' = Append(Path, [from |-> game, to |-> b])
        <4>1. changelog' \in Seq(Move)
          BY <2>3, ReturnSound DEF Sound, TypeOK
        <4> QED
          BY <2>1, <3>1, <4>1 DEF Returned
      <3> QED
        BY <3>1, <3>2 DEF Returned, History!Return, History!MoveTo
    <2>4. CASE Same
      BY <2>4 DEF Same, Path, History!hvars
    <2>5. \/ \E u \in Users : \E R, named : Written(u, R, named)
          \/ \E u \in Users, b \in DOMAIN batch : RollbackArcadePart(u, b)
          \/ Same
      BY Steps
    <2> QED
      BY <2>2, <2>3, <2>4, <2>5, Zenon DEF History!HNext
  <1> QED
    BY <1>1, <1>2, Soundness, PTL DEF Spec, HistorySpec, History!HSpec

-------------------------------------------------------------------------------
(* What game edits earn in a window.                                       *)

\* The grants that count for user u at time t.
Window(x, u, t) == {e \in Recent(GameGrants(x, u), t) : e.at <= t}

Counted(E) == UNION {e.kind[3] : e \in E}

CappedAt(x, u, t) ==
    /\ Gained(Window(x, u, t)) <= GameCap
    /\ (\E e \in Window(x, u, t) : e.at = t) =>
         Gained(Window(x, u, t)) = ArcadeGameEditExp(Cardinality(Counted(Window(x, u, t))))

\* Grants are positive, of the past, and each for finitely many entries.
Dues(x, now) ==
    /\ IsFiniteSet(x.log)
    /\ \A e \in x.log :
         e.diff \in Nat \ {0} /\ e.at \in 0..now /\ IsFiniteSet(e.kind[3])

LEMMA WindowCappedIs == WindowCapped <=> \A u \in Users, t \in 0..clock : CappedAt(xp, u, t)
  BY Zenon DEF WindowCapped, CappedAt, Window, Counted, Total, Gained

LEMMA InWindow ==
    ASSUME NEW x, NEW u, NEW t, NEW e \in Window(x, u, t)
    PROVE  e \in GameGrants(x, u) /\ e.at > t - Week
  BY DEF Window, Recent

LEMMA WindowCappedNext ==
    WindowCapped' <=> \A u \in Users, t \in 0..clock' : CappedAt(xp', u, t)
  <1>1. WindowCapped' <=> (\A u \in Users, t \in 0..clock : CappedAt(xp, u, t))'
    BY WindowCappedIs, PTL
  <1> QED
    BY <1>1

(* Windows can be added up, and what is counted in them is finite.         *)
LEMMA WindowFacts ==
    ASSUME NEW x, NEW now \in Nat, Dues(x, now), NEW u, NEW t \in Nat
    PROVE  /\ Window(x, u, t) \subseteq x.log
           /\ Countable(Window(x, u, t))
           /\ \A e \in Window(x, u, t) : e.diff > 0 /\ e.at \in 0..now
           /\ IsFiniteSet(Counted(Window(x, u, t)))
  <1> DEFINE W == Window(x, u, t)
  <1>1. W \subseteq x.log
    BY DEF Window, Recent, GameGrants
  <1> HIDE DEF W
  <1>2. Countable(W) /\ \A e \in W : e.diff > 0 /\ e.at \in 0..now
    <2>1. IsFiniteSet(W)
      BY <1>1, FS_Subset DEF Dues
    <2> QED
      BY <1>1, <2>1 DEF Dues, Countable
  <1>3. IsFiniteSet(Counted(W))
    <2> DEFINE K == {e.kind[3] : e \in W}
               g == [e \in W |-> e.kind[3]]
    <2>1. g \in Surjection(W, K)
      BY Zenon DEF Surjection
    <2>2. IsFiniteSet(W)
      BY <1>2 DEF Countable
    <2>3. IsFiniteSet(K)
      <3> HIDE DEF K, g
      <3> QED
        BY <2>1, <2>2, FS_Surjection
    <2>4. \A s \in K : IsFiniteSet(s)
      BY <1>1 DEF Dues
    <2>5. IsFiniteSet(UNION K)
      <3> HIDE DEF K
      <3> QED
        BY <2>3, <2>4, FS_UNION
    <2> QED
      BY <2>5 DEF Counted
  <1> QED
    BY <1>1, <1>2, <1>3 DEF W

LEMMA TargetIs ==
    ASSUME NEW n \in Nat
    PROVE  ArcadeGameEditExp(n) \in Nat /\ ArcadeGameEditExp(n) <= GameCap
  BY WindowAssumption DEF ArcadeGameEditExp

(* A window of no length holds nothing.                                    *)
LEMMA NoWindow ==
    ASSUME NEW x, NEW now \in Nat, Dues(x, now), NEW u, NEW t \in Nat, Week = 0
    PROVE  CappedAt(x, u, t)
  <1> DEFINE W == Window(x, u, t)
  <1>1. ASSUME NEW e \in W PROVE FALSE
    <2>1. e.at \in 0..now
      BY WindowFacts
    <2>2. e.at > t - Week /\ e.at <= t
      BY DEF Window, Recent
    <2> HIDE DEF W
    <2> QED
      BY <2>1, <2>2
  <1>2. W = {}
    <2> HIDE DEF W
    <2> QED
      BY <1>1
  <1>3. Gained(W) = 0
    BY <1>2, GainedByNone
  <1> QED
    BY <1>2, <1>3, WindowAssumption DEF CappedAt

(* A window moves on: what it holds is no more than it was.                *)
LEMMA LaterCapped ==
    ASSUME NEW x, NEW now \in Nat, Dues(x, now),
           \A u \in Users, t \in 0..now : CappedAt(x, u, t)
    PROVE  Dues(x, now + 1) /\ \A u \in Users, t \in 0..(now + 1) : CappedAt(x, u, t)
  <1>1. Dues(x, now + 1)
    BY DEF Dues
  <1>2. ASSUME NEW u \in Users PROVE CappedAt(x, u, now + 1)
    <2> DEFINE W == Window(x, u, now)
               V == Window(x, u, now + 1)
    <2>0. now + 1 \in Nat /\ now \in 0..now
      OBVIOUS
    <2>1. /\ V \subseteq x.log /\ Countable(W)
          /\ \A e \in V : e.at \in 0..now
          /\ \A e \in W : e.diff > 0 /\ e.at \in 0..now
      BY <2>0, WindowFacts
    <2>2. V \subseteq W
      <3> SUFFICES ASSUME NEW e \in V PROVE e \in W
        OBVIOUS
      <3>1. e.at \in 0..now
        BY <2>1
      <3>2. e.at > (now + 1) - Week /\ e \in GameGrants(x, u)
        BY InWindow
      <3>3. e.at > now - Week /\ e.at <= now
        BY <3>1, <3>2, WindowAssumption
      <3> QED
        BY <3>2, <3>3 DEF Window, Recent
    <2>3. Gained(W) <= GameCap
      BY <2>0 DEF CappedAt
    <2> DEFINE v == Gained(V)
    <2>4. v <= Gained(W) /\ v \in Int /\ Gained(W) \in Int
      <3>1. \A e \in W \ V : e.diff >= 0
        <4>1. \A e \in W : e.diff \in Int
          BY <2>1 DEF Countable
        <4> HIDE DEF W, V
        <4> QED
          BY <2>1, <4>1
      <3>2. Countable(V)
        <4> HIDE DEF W, V
        <4> QED
          BY <2>1, <2>2, CountableSums
      <3> HIDE DEF W, V
      <3> QED
        BY <2>1, <2>2, <3>1, <3>2, GainedMonotone, GainedType
    <2>5. v <= GameCap
      <3> HIDE DEF v, W
      <3> QED
        BY <2>3, <2>4, WindowAssumption
    <2>6. ~ \E e \in V : e.at = now + 1
      <3> HIDE DEF V
      <3> QED
        BY <2>1
    <2> QED
      BY <2>5, <2>6 DEF CappedAt
  <1>3. \A t \in 0..(now + 1) : t \in 0..now \/ t = now + 1
    OBVIOUS
  <1> QED
    BY <1>1, <1>2, <1>3, Zenon

(* An award fills the window up to its target; earlier windows stay.       *)
LEMMA AwardCapped ==
    ASSUME NEW x, NEW now \in Nat, Dues(x, now),
           \A u \in Users, t \in 0..now : CappedAt(x, u, t),
           NEW u \in Users, NEW ids, IsFiniteSet(ids)
    PROVE  LET y == AwardGameEdit(x, u, ids, now) IN
           Dues(y, now) /\ \A v \in Users, t \in 0..now : CappedAt(y, v, t)
  <1> DEFINE y    == AwardGameEdit(x, u, ids, now)
             G    == Recent(GameGrants(x, u), now)
             seen == ids \cup UNION {e.kind[3] : e \in G}
             goal == ArcadeGameEditExp(Cardinality(seen))
             diff == goal - Gained({e \in G : e.diff > 0})
             kind == <<"game", now, ids>>
             row  == LedgerRow(u, kind, diff, now)
             W    == Window(x, u, now)
  <1>0. now \in 0..now
    OBVIOUS
  <1>1. /\ W \subseteq x.log /\ Countable(W) /\ IsFiniteSet(Counted(W))
        /\ \A e \in W : e.diff > 0 /\ e.at \in 0..now
    BY WindowFacts
  <1>2. G = W /\ {e \in G : e.diff > 0} = W
    <2>1. G \subseteq W
      <3> SUFFICES ASSUME NEW e \in G PROVE e \in W
        OBVIOUS
      <3>1. e \in x.log
        BY DEF Recent, GameGrants
      <3>2. e.at <= now
        BY <3>1 DEF Dues
      <3> QED
        BY <3>2 DEF Window
    <2>2. W \subseteq G
      BY DEF Window
    <2> HIDE DEF G, W
    <2> QED
      BY <1>1, <2>1, <2>2
  <1>3. seen = ids \cup Counted(W) /\ diff = goal - Gained(W)
    <2> HIDE DEF W
    <2> QED
      BY <1>2 DEF Counted
  <1>4. goal \in Nat /\ goal <= GameCap /\ Gained(W) \in Int
    <2>1. IsFiniteSet(seen)
      <3> HIDE DEF seen, W
      <3> QED
        BY <1>1, <1>3, FS_Union
    <2>2. Cardinality(seen) \in Nat
      <3> HIDE DEF seen
      <3> QED
        BY <2>1, FS_CardinalityType
    <2> HIDE DEF seen, W
    <2> QED
      BY <1>1, <2>2, TargetIs, GainedType
  <1>5. y = x \/ (diff > 0 /\ Pays(x, y, row))
    <2>1. y = IF ids = {} \/ diff <= 0 THEN x ELSE Award(x, u, kind, diff, now)
      BY Zenon DEF AwardGameEdit, Total, Gained
    <2>2. Award(x, u, kind, diff, now) = x \/ Pays(x, Award(x, u, kind, diff, now), row)
      BY AwardRow, Zenon
    <2>3. diff \in Int
      <3> HIDE DEF goal, W
      <3> QED
        BY <1>3, <1>4
    <2> HIDE DEF y, diff, row, kind
    <2> QED
      BY <2>1, <2>2, <2>3
  <1>6. CASE y = x
    BY <1>6
  <1>7. CASE diff > 0 /\ Pays(x, y, row)
    <2>1. /\ row.user = u /\ row.diff = diff /\ row.at = now
          /\ row.kind = kind /\ kind[1] = "game" /\ kind[3] = ids
      BY DEF LedgerRow
    <2>2. row \notin x.log /\ y.log = x.log \cup {row}
      BY <1>7, Zenon DEF Pays
    <2>3. diff \in Nat \ {0}
      <3> HIDE DEF goal, W
      <3> QED
        BY <1>3, <1>4, <1>7
    <2> HIDE DEF y, row, kind, diff
    <2>4. Dues(y, now)
      <3>1. IsFiniteSet(y.log)
        BY <2>2, FS_AddElement DEF Dues
      <3> QED
        BY <2>1, <2>2, <2>3, <3>1 DEF Dues
    <2>5. ASSUME NEW v \in Users, NEW t \in 0..now, v # u \/ t # now
          PROVE  CappedAt(y, v, t)
      <3>1. Window(y, v, t) = Window(x, v, t)
        <4>1. row \notin Window(y, v, t)
          BY <2>1, <2>5 DEF Window, Recent, GameGrants
        <4> QED
          BY <2>2, <4>1 DEF Window, Recent, GameGrants
      <3>2. CappedAt(x, v, t)
        OBVIOUS
      <3> QED
        BY <3>1, <3>2, Zenon DEF CappedAt
    <2>6. CASE Week = 0
      <3>1. \A v \in Users, t \in 0..now : t \in Nat
        OBVIOUS
      <3>2. \A v \in Users, t \in 0..now : CappedAt(y, v, t)
        BY <2>4, <2>6, <3>1, NoWindow
      <3> QED
        BY <2>4, <3>2 DEF y
    <2>7. CASE Week # 0
      <3> DEFINE V == Window(y, u, now)
      <3>1. V = W \cup {row} /\ row \notin W
        <4>1. row \in V
          BY <2>1, <2>2, <2>7, WindowAssumption DEF Window, Recent, GameGrants
        <4> QED
          BY <2>2, <4>1 DEF Window, Recent, GameGrants
      <3>2. Gained(V) = Gained(W) + diff
        <4>1. row.diff \in Int
          BY <2>1, <2>3
        <4> HIDE DEF V, W
        <4>2. Gained(W \cup {row}) = Gained(W) + row.diff
          BY <1>1, <3>1, <4>1, GainedWith
        <4> QED
          BY <2>1, <3>1, <4>2
      <3>3. Gained(V) = goal
        <4> HIDE DEF V, W, goal
        <4> QED
          BY <1>3, <1>4, <3>2
      <3>4. Counted(V) = seen
        <4> HIDE DEF V, W, seen
        <4> QED
          BY <1>3, <2>1, <3>1 DEF Counted
      <3>5. CappedAt(y, u, now)
        <4> HIDE DEF seen
        <4> QED
          BY <1>4, <3>3, <3>4 DEF CappedAt
      <3>6. \A v \in Users, t \in 0..now : CappedAt(y, v, t)
        BY <2>5, <3>5, Zenon
      <3> QED
        BY <2>4, <3>6 DEF y
    <2> QED
      BY <2>6, <2>7
  <1> QED
    BY <1>5, <1>6, <1>7

\* What is known of grants in every state.
Windowed == IsFiniteSet(DOMAIN entry) /\ Dues(xp, clock) /\ WindowCapped

(* Indices give finitely many entries.                                     *)
LEMMA FewNamed ==
    ASSUME NEW k \in Nat, NEW f
    PROVE  IsFiniteSet({f[i] : i \in 1..k})
  <1> DEFINE F == {f[i] : i \in 1..k}
             g == [i \in 1..k |-> f[i]]
  <1>1. g \in Surjection(1..k, F)
    BY Zenon DEF Surjection
  <1>2. IsFiniteSet(1..k)
    BY FS_Interval
  <1> HIDE DEF F, g
  <1>3. IsFiniteSet(F)
    BY <1>1, <1>2, FS_Surjection
  <1> QED
    BY <1>3 DEF F

LEMMA DeltaEarns ==
    ASSUME Sound, Windowed, NEW u \in Users, NEW base,
           NEW modified \in SUBSET Entries(Rows(game)),
           NEW removed \in SUBSET Entries(Rows(game)),
           NEW k \in Nat, NEW add \in [1..k -> Wanted], NEW modify \in [modified -> Wanted],
           UpdateArcadeGame(u, base, add, modify, removed)
    PROVE  Windowed'
  <1>1. PICK ids \in Assignments(add) :
          /\ entry' = Entered(add, ids)
          /\ xp' = IF public
                     THEN AwardGameEdit(xp, u, Edited(modify) \cup removed \cup {ids[i] : i \in 1..k}, clock)
                     ELSE xp
    BY DEF UpdateArcadeGame
  <1>2. clock' = clock /\ clock \in Nat
    BY DEF UpdateArcadeGame, Sound, TypeOK
  <1> DEFINE took == {ids[i] : i \in 1..k}
             new  == {NewId(i) : i \in {j \in 1..k : ids[j] = NewId(j)}}
             name == [i \in 1..k |-> NewId(i)]
             edit == Edited(modify) \cup removed \cup took
  <1>3. IsFiniteSet(took)
    BY FewNamed, Zenon
  <1>4. IsFiniteSet(new)
    <2>1. IsFiniteSet({name[i] : i \in 1..k})
      BY FewNamed, Zenon
    <2>2. new \subseteq {name[i] : i \in 1..k}
      OBVIOUS
    <2> HIDE DEF new, name
    <2> QED
      BY <2>1, <2>2, FS_Subset
  <1>5. IsFiniteSet(DOMAIN entry')
    <2>1. DOMAIN entry' = DOMAIN entry \cup new
      BY <1>1 DEF Entered
    <2>2. IsFiniteSet(DOMAIN entry)
      BY DEF Windowed
    <2> HIDE DEF new
    <2>3. IsFiniteSet(DOMAIN entry \cup new)
      BY ONLY <1>4, <2>2, FS_Union
    <2> QED
      BY <2>1, <2>3
  <1>6. IsFiniteSet(edit)
    <2>1. Entries(Rows(game)) \subseteq DOMAIN entry
      BY PresentRows DEF Entries
    <2>2. Edited(modify) \cup removed \subseteq DOMAIN entry
      BY <2>1 DEF Edited
    <2> HIDE DEF took
    <2>3. IsFiniteSet(Edited(modify) \cup removed)
      BY <2>2, FS_Subset DEF Windowed
    <2> QED
      BY <1>3, <2>3, FS_Union
  <1>7. Dues(xp, clock) /\ \A v \in Users, t \in 0..clock : CappedAt(xp, v, t)
    BY WindowCappedIs, Zenon DEF Windowed
  <1> HIDE DEF edit
  <1>8. Dues(xp', clock) /\ \A v \in Users, t \in 0..clock : CappedAt(xp', v, t)
    <2>1. LET y == AwardGameEdit(xp, u, edit, clock) IN
          Dues(y, clock) /\ \A v \in Users, t \in 0..clock : CappedAt(y, v, t)
      BY <1>2, <1>6, <1>7, AwardCapped
    <2>2. xp' = AwardGameEdit(xp, u, edit, clock) \/ xp' = xp
      BY <1>1, Zenon DEF edit
    <2> QED
      BY <1>7, <2>1, <2>2, Zenon
  <1> QED
    BY <1>2, <1>5, <1>8, WindowCappedNext, Zenon DEF Windowed

LEMMA WindowsGoOn ==
    ASSUME Sound, Windowed, [Next]_vars
    PROVE  Windowed'
  <1>0. clock \in Nat
    BY DEF Sound, TypeOK
  <1>1. ASSUME UNCHANGED <<clock, entry, xp>> PROVE Windowed'
    BY <1>1, WindowCappedIs, WindowCappedNext, Zenon DEF Windowed
  <1>2. ASSUME NEW u \in Users, Request(u) PROVE Windowed'
    <2>1. CASE \E base \in 0..Len(batch) :
                 \E modified \in SUBSET Entries(Rows(game)) :
                 \E removed \in SUBSET (Entries(Rows(game)) \ modified) :
                 \E add \in Adds(MaxItems - Cardinality(modified \cup removed)) :
                 \E modify \in [modified -> Wanted] :
                   UpdateArcadeGame(u, base, add, modify, removed)
      <3>1. PICK base \in 0..Len(batch), modified \in SUBSET Entries(Rows(game)) :
                 \E removed \in SUBSET (Entries(Rows(game)) \ modified) :
                 \E add \in Adds(MaxItems - Cardinality(modified \cup removed)) :
                 \E modify \in [modified -> Wanted] :
                   UpdateArcadeGame(u, base, add, modify, removed)
        BY <2>1, Zenon
      <3>2. PICK removed \in SUBSET (Entries(Rows(game)) \ modified) :
                 \E add \in Adds(MaxItems - Cardinality(modified \cup removed)) :
                 \E modify \in [modified -> Wanted] :
                   UpdateArcadeGame(u, base, add, modify, removed)
        BY <3>1, Zenon
      <3>3. PICK add \in Adds(MaxItems - Cardinality(modified \cup removed)),
                 modify \in [modified -> Wanted] :
                   UpdateArcadeGame(u, base, add, modify, removed)
        BY <3>2, Zenon
      <3>4. PICK k \in 0..(MaxItems - Cardinality(modified \cup removed)) : add \in [1..k -> Wanted]
        BY DEF Adds
      <3>5. k \in Nat /\ removed \in SUBSET Entries(Rows(game))
        OBVIOUS
      <3> QED
        BY <3>3, <3>4, <3>5, DeltaEarns, Zenon
    <2>2. CASE \E selected \in SUBSET DOMAIN entry \ {{}}, from, to \in Versions :
                 BulkUpdateArcadeGameVersion(u, selected, from, to)
      BY <1>1, <2>2 DEF BulkUpdateArcadeGameVersion
    <2> QED
      BY <1>2, <2>1, <2>2, Zenon DEF Request
  <1>3. CASE \E u \in Users : Request(u)
    BY <1>2, <1>3, Zenon
  <1>4. CASE \E u \in Users, b \in DOMAIN batch : RollbackArcadePart(u, b)
    BY <1>1, <1>4 DEF RollbackArcadePart
  <1>5. CASE UpdateArcadeStatus
    BY <1>1, <1>5 DEF UpdateArcadeStatus
  <1>6. CASE Tick
    <2>1. clock' = clock + 1 /\ entry' = entry /\ xp' = xp
      BY <1>6 DEF Tick
    <2>2. Dues(xp, clock) /\ \A u \in Users, t \in 0..clock : CappedAt(xp, u, t)
      BY WindowCappedIs, Zenon DEF Windowed
    <2>3. Dues(xp, clock + 1) /\ \A u \in Users, t \in 0..(clock + 1) : CappedAt(xp, u, t)
      BY <1>0, <2>2, LaterCapped
    <2> QED
      BY <2>1, <2>3, WindowCappedNext, Zenon DEF Windowed
  <1>7. CASE UNCHANGED vars
    BY <1>1, <1>7 DEF vars
  <1> QED
    BY <1>3, <1>4, <1>5, <1>6, <1>7, Zenon DEF Next

(* In no window do game edits earn a user more than the cap, and a grant   *)
(* brings what its window has earned to two for each installation changed  *)
(* in it, up to the cap: windows of any length, any clock.                 *)
THEOREM WindowsAreCapped == Spec => []WindowCapped
  <1>1. Init => Windowed
    <2> SUFFICES ASSUME Init PROVE Windowed
      OBVIOUS
    <2>1. clock = 0 /\ DOMAIN entry = {} /\ xp.log = {}
      BY DEF Init
    <2>2. IsFiniteSet({})
      BY FS_EmptySet
    <2>3. Dues(xp, clock)
      BY <2>1, <2>2 DEF Dues
    <2>4. \A u \in Users, t \in 0..clock : CappedAt(xp, u, t)
      <3> SUFFICES ASSUME NEW u \in Users, NEW t \in 0..clock PROVE CappedAt(xp, u, t)
        OBVIOUS
      <3>1. Window(xp, u, t) = {}
        BY <2>1 DEF Window, Recent, GameGrants
      <3> QED
        BY <3>1, GainedByNone, WindowAssumption DEF CappedAt
    <2> QED
      BY <2>1, <2>2, <2>3, <2>4, WindowCappedIs, Zenon DEF Windowed
  <1>2. Sound /\ Windowed /\ [Next]_vars => Windowed'
    BY WindowsGoOn
  <1>3. Windowed => WindowCapped
    BY DEF Windowed
  <1> QED
    BY <1>1, <1>2, <1>3, Soundness, PTL DEF Spec
===============================================================================
