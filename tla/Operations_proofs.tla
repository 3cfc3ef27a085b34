--------------------------- MODULE Operations_proofs ---------------------------
(***************************************************************************)
(* Theorems about the game catalog, for any records, operations and        *)
(* requests and any catalog at the start that satisfies the assumptions;   *)
(* about update campaigns, for any games, arcades and bodies; and about    *)
(* notifications, for any accounts, browsers, stories and reports.         *)
(***************************************************************************)
EXTENDS Campaigns, Catalog, AimeRecovery, LedgerTheorems, FiniteSetTheorems, SequenceTheorems,
        WellFoundedInduction, TLAPS

-------------------------------------------------------------------------------
(* The game catalog.                                                       *)

USE CatalogAssumption DEF CatalogAssumption

Kept == Record \cup {Absent}

Actions == {"create", "update", "archive", "restore", "revert"}

LEMMA ActionNames ==
    /\ "create" \in Actions /\ "update" \in Actions /\ "archive" \in Actions
    /\ "restore" \in Actions /\ "revert" \in Actions
  BY Zenon DEF Actions

\* A row of the changelog.
Change ==
    [op : Ops \cup Ops \X {"archive", "activate"} \X Boxes, expected : Nat, action : Actions, id : Ids,
     before : Kept, after : Record, reverts : Nat]

\* What a request may ask.
Asked(b) ==
    /\ b.id \in Ids /\ b.expected \in Nat /\ b.change \in Nat
    /\ b.act \in {"create", "update"} => b.name \in Names /\ b.maker \in Makers \cup {NoMaker}
    /\ b.act = "create" => b.expected = 0

Requested ==
    /\ DOMAIN request = Requests
    /\ \A q \in Requests : request[q] # Idle => request[q].op \in Ops /\ Asked(request[q].body)

Referred ==
    /\ installed \subseteq Versions \X (Boxes \cup {NoBox})
    /\ planned.boxes \subseteq Boxes

Shaped ==
    /\ catalog \in [Ids -> Kept]
    /\ changes \in Seq(Change)
    /\ \A i \in DOMAIN changes : catalog[changes[i].id] # Absent

-------------------------------------------------------------------------------
(* Every accepted operation writes rows K of the changelog and, with each, *)
(* the record that it tells of.                                            *)
RowTells(c) ==
    /\ ~Used(c.op)
    /\ c.before = catalog[c.id]
    /\ c.expected # 0 => c.before # Absent /\ c.before.rev = c.expected
    /\ c.before = Absent => c.after.rev = 1
    /\ c.before # Absent => c.after.rev = c.before.rev + 1
    /\ c.after.archived /\ Live(c.id) => ~Blocked(c.id)
    /\ ~c.after.archived => ParentsReady(c.id, c.after)

Tells(K, k) ==
    /\ RowTells(K[k])
    /\ \A p \in Parents(K[k].id, K[k].after), j \in DOMAIN K : K[j].id # p

Told(K) ==
    /\ K \in Seq(Change)
    /\ \A i, j \in DOMAIN K : K[i].id = K[j].id \/ K[i].op = K[j].op => i = j
    /\ \A k \in DOMAIN K : Tells(K, k)
    /\ changes' = changes \o K
    /\ catalog' \in [Ids -> Kept]
    /\ \A k \in DOMAIN K : catalog'[K[k].id] = K[k].after
    /\ \A id \in Ids : (\A k \in DOMAIN K : K[k].id # id) => catalog'[id] = catalog[id]

(* No record is a parent of itself.                                        *)
LEMMA ParentsDiffer ==
    ASSUME NEW id \in Ids, NEW r \in Record
    PROVE  id \notin Parents(id, r)
  BY KindsAssumption DEF KindsAssumption, Parents, Ids, Pairs, Record

LEMMA SavedRecord ==
    ASSUME NEW r \in Record, NEW archived \in BOOLEAN, NEW name \in Names,
           NEW maker \in Makers \cup {NoMaker}
    PROVE  LET s == Saved(r, archived, name, maker) IN
           s \in Record /\ s.rev = r.rev + 1 /\ s.archived = archived /\ s.maker = maker
  BY DEF Saved, Record

LEMMA ArchivedRecord ==
    ASSUME NEW r \in Record
    PROVE  Archived(r) \in Record /\ Archived(r).archived /\ Archived(r).rev = r.rev + 1
  <1>1. r.name \in Names /\ r.maker \in Makers \cup {NoMaker} /\ TRUE \in BOOLEAN
    BY DEF Record
  <1>2. LET s == Saved(r, TRUE, r.name, r.maker) IN
        s \in Record /\ s.rev = r.rev + 1 /\ s.archived = TRUE /\ s.maker = r.maker
    BY <1>1, SavedRecord
  <1> QED
    BY <1>2 DEF Archived

LEMMA RestoredRecord ==
    ASSUME NEW r \in Record
    PROVE  /\ Restored(r) \in Record /\ ~Restored(r).archived /\ Restored(r).rev = r.rev + 1
           /\ Restored(r).maker = r.maker
  <1>1. r.name \in Names /\ r.maker \in Makers \cup {NoMaker} /\ FALSE \in BOOLEAN
    BY DEF Record
  <1>2. LET s == Saved(r, FALSE, r.name, r.maker) IN
        s \in Record /\ s.rev = r.rev + 1 /\ s.archived = FALSE /\ s.maker = r.maker
    BY <1>1, SavedRecord
  <1> QED
    BY <1>2 DEF Restored

LEMMA LinkRecord ==
    ASSUME NEW r \in Kept
    PROVE  /\ Link(r) \in Record /\ ~Link(r).archived
           /\ Link(r).rev = (IF r = Absent THEN 0 ELSE r.rev) + 1
  <1>1. CASE r = Absent
    <2>1. (CHOOSE n \in Names : TRUE) \in Names
      OBVIOUS
    <2> QED
      BY <1>1, <2>1 DEF Link, Record
  <1>2. CASE r # Absent
    BY <1>2, RestoredRecord DEF Kept, Link
  <1> QED
    BY <1>1, <1>2

-------------------------------------------------------------------------------
(* One record and one row.                                                 *)
Fit(q, id, after, action, reverts) ==
    /\ action \in Actions /\ reverts \in Nat
    /\ id \in Ids /\ after \in Record
    /\ action = "create" => catalog[id] = Absent
    /\ request[q].body.expected # 0 =>
          catalog[id] # Absent /\ catalog[id].rev = request[q].body.expected
    /\ catalog[id] = Absent => after.rev = 1
    /\ catalog[id] # Absent => after.rev = catalog[id].rev + 1
    /\ after.archived /\ Live(id) => ~Blocked(id)
    /\ ~after.archived => ParentsReady(id, after)

LEMMA AcceptTells ==
    ASSUME Shaped, Requested, NEW q \in Requests, request[q] # Idle,
           NEW id, NEW after, NEW action, NEW reverts,
           Fit(q, id, after, action, reverts), Accept(q, id, after, action, reverts)
    PROVE  \E K : Told(K)
  <1> DEFINE row == [op |-> request[q].op, expected |-> request[q].body.expected, action |-> action,
                     id |-> id, before |-> catalog[id], after |-> after, reverts |-> reverts]
             K   == <<row>>
  <1>1. catalog \in [Ids -> Kept] /\ changes \in Seq(Change)
    BY DEF Shaped
  <1>0. id \in Ids /\ after \in Record /\ action \in Actions /\ reverts \in Nat
    BY DEF Fit
  <1>2. row \in Change
    BY <1>0, <1>1 DEF Change, Requested, Asked
  <1>3. /\ ~Used(request[q].op)
        /\ catalog' = [catalog EXCEPT ![id] = after]
        /\ changes' = Append(changes, row)
    <2>1. catalog[id] = IF action = "create" THEN Absent ELSE catalog[id]
      BY DEF Fit
    <2> QED
      BY <2>1 DEF Accept
  <1>4. /\ row.op = request[q].op /\ row.expected = request[q].body.expected /\ row.id = id
        /\ row.before = catalog[id] /\ row.after = after
    OBVIOUS
  <1> HIDE DEF row
  <1>5. K \in Seq(Change) /\ DOMAIN K = {1} /\ K[1] = row
    BY <1>2
  <1>6. changes' = changes \o K
    BY <1>1, <1>2, <1>3, AppendIsConcat
  <1>7. catalog' \in [Ids -> Kept] /\ catalog'[id] = after /\ \A d \in Ids : d # id => catalog'[d] = catalog[d]
    BY <1>0, <1>1, <1>3 DEF Kept
  <1>8. \A p \in Parents(id, after) : id # p
    BY <1>0, ParentsDiffer
  <1> HIDE DEF K
  <1>9. Tells(K, 1)
    BY <1>3, <1>4, <1>5, <1>8 DEF Tells, RowTells, Fit
  <1>10. Told(K)
    BY <1>0, <1>4, <1>5, <1>6, <1>7, <1>9 DEF Told
  <1> QED
    BY <1>10

LEMMA CreateTells ==
    ASSUME Shaped, Requested, NEW q \in Requests, request[q] # Idle, Create(q)
    PROVE  \E K : Told(K)
  <1> DEFINE b   == request[q].body
             new == [rev |-> 1, archived |-> FALSE, name |-> b.name, maker |-> b.maker]
  <1>1. b.act = "create" /\ ParentsReady(b.id, new)
    BY DEF Create
  <1>2. PICK id \in Fresh(b.id) : Accept(q, id, new, "create", 0)
    BY DEF Create
  <1>3. Asked(b)
    BY DEF Requested
  <1>4. b.expected = 0 /\ new \in Record /\ new.rev = 1 /\ ~new.archived
    BY <1>1, <1>3 DEF Asked, Record
  <1>5. id \in Ids /\ catalog[id] = Absent
    BY <1>2 DEF Fresh
  <1>6. ParentsReady(id, new)
    <2>1. Parents(id, new) = Parents(b.id, new)
      BY <1>2, <1>3, KindsAssumption DEF Fresh, Parents, Asked, Ids, KindsAssumption
    <2> QED
      BY <1>1, <2>1 DEF ParentsReady
  <1> HIDE DEF new
  <1>7. Fit(q, id, new, "create", 0)
    BY <1>4, <1>5, <1>6, ActionNames DEF Fit
  <1> QED
    BY <1>1, <1>2, <1>7, AcceptTells

LEMMA UpdateTells ==
    ASSUME Shaped, Requested, ParentsAreActive, NEW q \in Requests, request[q] # Idle, Update(q)
    PROVE  \E K : Told(K)
  <1> DEFINE b   == request[q].body
             old == catalog[b.id]
             new == Saved(old, old.archived, b.name, b.maker)
  <1>1. /\ b.act = "update" /\ Found(q)
        /\ b.id \in Series => ParentsReady(b.id, new)
        /\ Accept(q, b.id, new, "update", 0)
    BY DEF Update
  <1>2. Asked(b)
    BY DEF Requested
  <1>3. b.id \in Ids /\ old \in Record /\ old # Absent /\ old.rev = b.expected
    BY <1>1, <1>2 DEF Asked, Found, Shaped, Kept
  <1>4. new \in Record /\ new.rev = old.rev + 1 /\ new.archived = old.archived
    <2>1. b.name \in Names /\ b.maker \in Makers \cup {NoMaker} /\ old.archived \in BOOLEAN
      BY <1>1, <1>2, <1>3 DEF Asked, Record
    <2> HIDE DEF b, old
    <2> QED
      BY <1>3, <2>1, SavedRecord
  <1>5. ~new.archived => ParentsReady(b.id, new)
    <2>1. b.id \notin Series => Parents(b.id, new) = Parents(b.id, old)
      BY DEF Parents
    <2> HIDE DEF new
    <2> QED
      BY <1>1, <1>3, <1>4, <2>1 DEF ParentsAreActive, ParentsReady, Live, Standing
  <1>6. ~(new.archived /\ Live(b.id))
    BY <1>4 DEF Live, Standing
  <1> HIDE DEF new
  <1>7. Fit(q, b.id, new, "update", 0)
    BY <1>3, <1>4, <1>5, <1>6, ActionNames DEF Fit
  <1> QED
    BY <1>1, <1>7, AcceptTells

LEMMA ArchiveTells ==
    ASSUME Shaped, Requested, NEW q \in Requests, request[q] # Idle, Archive(q)
    PROVE  \E K : Told(K)
  <1> DEFINE b   == request[q].body
             new == Archived(catalog[b.id])
  <1>1. Found(q) /\ ~Blocked(b.id) /\ Accept(q, b.id, new, "archive", 0)
    BY DEF Archive
  <1>2. b.id \in Ids /\ catalog[b.id] \in Record /\ catalog[b.id] # Absent /\ catalog[b.id].rev = b.expected
    BY <1>1 DEF Requested, Asked, Found, Shaped, Kept
  <1>3. new \in Record /\ new.archived /\ new.rev = catalog[b.id].rev + 1
    BY <1>2, ArchivedRecord
  <1> HIDE DEF new
  <1>4. Fit(q, b.id, new, "archive", 0)
    BY <1>1, <1>2, <1>3, ActionNames DEF Fit
  <1> QED
    BY <1>1, <1>4, AcceptTells

LEMMA RestoreTells ==
    ASSUME Shaped, Requested, NEW q \in Requests, request[q] # Idle, Restore(q)
    PROVE  \E K : Told(K)
  <1> DEFINE b   == request[q].body
             new == Restored(catalog[b.id])
  <1>1. Found(q) /\ ParentsReady(b.id, catalog[b.id]) /\ Accept(q, b.id, new, "restore", 0)
    BY DEF Restore
  <1>2. b.id \in Ids /\ catalog[b.id] \in Record /\ catalog[b.id] # Absent /\ catalog[b.id].rev = b.expected
    BY <1>1 DEF Requested, Asked, Found, Shaped, Kept
  <1>3. new \in Record /\ ~new.archived /\ new.rev = catalog[b.id].rev + 1 /\ new.maker = catalog[b.id].maker
    BY <1>2, RestoredRecord
  <1> HIDE DEF new
  <1>4. ParentsReady(b.id, new)
    BY <1>1, <1>3 DEF ParentsReady, Parents
  <1>5. Fit(q, b.id, new, "restore", 0)
    BY <1>2, <1>3, <1>4, ActionNames DEF Fit
  <1> QED
    BY <1>1, <1>5, AcceptTells

(* A revert archives, because no snapshot is ever found.                   *)
LEMMA RevertTells ==
    ASSUME Shaped, Requested, NEW q \in Requests, request[q] # Idle, Revert(q)
    PROVE  \E K : Told(K)
  <1> DEFINE b   == request[q].body
             id  == changes[b.change].id
             new == Archived(catalog[id])
  <1>1. /\ b.change \in DOMAIN changes /\ catalog[id].rev = b.expected /\ ~Blocked(id)
        /\ Accept(q, id, new, "revert", b.change)
    BY DEF Revert, Snapshot, Reverted
  <1>2. id \in Ids /\ catalog[id] \in Record /\ catalog[id] # Absent /\ b.change \in Nat
    <2>1. changes[b.change] \in Change
      BY <1>1 DEF Shaped
    <2> QED
      BY <1>1, <2>1 DEF Requested, Asked, Shaped, Kept, Change
  <1>3. new \in Record /\ new.archived /\ new.rev = catalog[id].rev + 1
    BY <1>2, ArchivedRecord
  <1> HIDE DEF new, id
  <1>4. Fit(q, id, new, "revert", b.change)
    BY <1>1, <1>2, <1>3, ActionNames DEF Fit
  <1> QED
    BY <1>1, <1>4, AcceptTells

-------------------------------------------------------------------------------
(* The links of a version: one row for each link.                          *)

(* The elements of a finite set, each once.                                *)
LEMMA SetToSeqIs ==
    ASSUME NEW S, IsFiniteSet(S)
    PROVE  /\ Cardinality(S) \in Nat /\ DOMAIN SetToSeq(S) = 1..Cardinality(S)
           /\ SetToSeq(S) \in Seq(S)
           /\ \A i, j \in DOMAIN SetToSeq(S) : SetToSeq(S)[i] = SetToSeq(S)[j] => i = j
           /\ \A e \in S : \E i \in DOMAIN SetToSeq(S) : SetToSeq(S)[i] = e
  <1> DEFINE n == Cardinality(S)
             s == SetToSeq(S)
  <1>1. n \in Nat /\ \E f \in [1..n -> S] : IsInjective(f)
    BY FS_CardinalityType DEF ExistsBijection, Bijection, Injection
  <1>2. s \in [1..n -> S] /\ IsInjective(s)
    BY <1>1 DEF SetToSeq
  <1> HIDE DEF s
  <1>3. IsFiniteSet(1..n) /\ Cardinality(1..n) = n
    BY <1>1, FS_Interval
  <1>4. s \in Surjection(1..n, S)
    <2>1. s \in Injection(1..n, S)
      BY <1>2 DEF Injection
    <2> QED
      BY <1>3, <2>1, FS_Injection
  <1>5. \A e \in S : \E i \in 1..n : s[i] = e
    BY <1>4 DEF Surjection
  <1>6. s \in Seq(S) /\ DOMAIN s = 1..n
    BY <1>1, <1>2
  <1>7. /\ n \in Nat /\ DOMAIN s = 1..n
        /\ s \in Seq(S)
        /\ \A i, j \in DOMAIN s : s[i] = s[j] => i = j
        /\ \A e \in S : \E i \in DOMAIN s : s[i] = e
    BY <1>1, <1>2, <1>5, <1>6 DEF IsInjective
  <1> QED
    BY <1>7 DEF s

LinkAction(v, c) ==
    IF c \in Linked(v) THEN "archive" ELSE IF catalog[<<v, c>>] = Absent THEN "create" ELSE "restore"

LinkRow(op, v, c, expected) == CompatibilityChange(op, v, c, LinkAction(v, c), expected)

Links(op, v, want, expected) ==
    Linking(op, v, want \ Linked(v), expected) \cup Unlinking(op, v, Linked(v) \ want, expected)

(* Each row is about one cabinet that is linked or unlinked.               *)
LEMMA LinksAre ==
    ASSUME NEW op, NEW v, NEW want, NEW expected, NEW r
    PROVE  r \in Links(op, v, want, expected) <=>
             \E c \in (want \ Linked(v)) \cup (Linked(v) \ want) : r = LinkRow(op, v, c, expected)
  <1>1. r \in Linking(op, v, want \ Linked(v), expected) <=>
          \E c \in want \ Linked(v) : r = LinkRow(op, v, c, expected)
    BY DEF Linking, LinkRow, LinkAction
  <1>2. r \in Unlinking(op, v, Linked(v) \ want, expected) <=>
          \E c \in Linked(v) \ want : r = LinkRow(op, v, c, expected)
    BY DEF Unlinking, LinkRow, LinkAction
  <1> QED
    BY <1>1, <1>2 DEF Links

LEMMA LinkRowIs ==
    ASSUME Shaped, NEW op \in Ops, NEW v \in Versions, NEW want \in SUBSET Boxes, NEW expected,
           ReplaceCompatibilities(op, v, want, expected),
           NEW c \in (want \ Linked(v)) \cup (Linked(v) \ want)
    PROVE  /\ <<v, c>> \in Pairs /\ c \in Boxes /\ Live(v)
           /\ c \notin Linked(v) => Live(c)
           /\ c \in Linked(v) <=> Live(<<v, c>>)
           /\ c \in Linked(v) => c \notin want /\ ~Blocked(<<v, c>>)
                                 /\ expected[c] = catalog[<<v, c>>].rev
  <1>1. /\ Live(v) /\ \A d \in want : Live(d) /\ SeriesOf[d] = SeriesOf[v]
        /\ expected = [d \in Linked(v) |-> catalog[<<v, d>>].rev]
        /\ MayUnlink(v, Linked(v) \ want)
    BY DEF ReplaceCompatibilities
  <1>2. c \in Boxes /\ <<v, c>> \in Pairs
    BY <1>1 DEF Linked, Pairs
  <1> QED
    BY <1>1, <1>2 DEF Linked, MayUnlink

LEMMA LinkRowTells ==
    ASSUME Shaped, NEW op \in Ops, NEW v \in Versions, NEW want \in SUBSET Boxes, NEW expected,
           ReplaceCompatibilities(op, v, want, expected),
           NEW c \in (want \ Linked(v)) \cup (Linked(v) \ want)
    PROVE  LET r == LinkRow(op, v, c, expected) IN
           /\ r \in Change /\ RowTells(r)
           /\ r.id = <<v, c>> /\ \E word \in {"archive", "activate"} : r.op = <<op, word, c>>
           /\ \A p \in Parents(<<v, c>>, r.after) : p \notin Pairs
  <1> DEFINE r   == LinkRow(op, v, c, expected)
             old == catalog[<<v, c>>]
             act == LinkAction(v, c)
  <1>1. /\ <<v, c>> \in Pairs /\ c \in Boxes /\ Live(v)
        /\ c \notin Linked(v) => Live(c)
        /\ c \in Linked(v) <=> Live(<<v, c>>)
        /\ c \in Linked(v) => ~Blocked(<<v, c>>) /\ expected[c] = old.rev
    BY LinkRowIs
  <1>2. /\ r.op = <<op, IF act = "archive" THEN "archive" ELSE "activate", c>>
        /\ r.expected = IF act = "archive" THEN expected[c] ELSE 0
        /\ r.action = act /\ r.id = <<v, c>> /\ r.before = old
        /\ r.after = IF act = "archive" THEN Archived(old) ELSE Link(old)
        /\ r = [op |-> r.op, expected |-> r.expected, action |-> r.action, id |-> r.id, before |-> r.before,
                after |-> r.after, reverts |-> 0]
    BY DEF LinkRow, CompatibilityChange, SubOp
  <1> HIDE DEF r
  <1>3. act \in Actions /\ (act = "archive" <=> c \in Linked(v))
    BY Zenon, ActionNames DEF LinkAction
  <1> HIDE DEF act
  <1>4. <<v, c>> \in Ids /\ old \in Kept
    BY <1>1 DEF Shaped, Ids
  <1>5. \A p \in Parents(<<v, c>>, r.after) : p \in {v, c} /\ p \notin Pairs
    BY <1>1, KindsAssumption DEF Parents, KindsAssumption
  <1>6. ~Used(r.op)
    <2>1. r \in Links(op, v, want, expected)
      BY LinksAre DEF r
    <2> QED
      BY <2>1 DEF ReplaceCompatibilities, Links
  <1>7. \E word \in {"archive", "activate"} : r.op = <<op, word, c>>
    BY <1>2
  <1>8. r.after \in Record /\ r.expected \in Nat /\ RowTells(r)
    <2>1. CASE c \in Linked(v)
      <3>1. old \in Record /\ old # Absent /\ Live(<<v, c>>)
        BY <1>1, <1>4, <2>1 DEF Live, Standing, Kept
      <3>2. r.after \in Record /\ r.after.archived /\ r.after.rev = old.rev + 1
        BY <1>2, <1>3, <2>1, <3>1, ArchivedRecord
      <3>3. r.expected = old.rev /\ r.expected \in Nat
        BY <1>1, <1>2, <1>3, <2>1, <3>1 DEF Record
      <3>4. RowTells(r)
        BY <1>1, <1>2, <1>6, <2>1, <3>1, <3>2, <3>3 DEF RowTells
      <3> QED
        BY <3>2, <3>3, <3>4
    <2>2. CASE c \notin Linked(v)
      <3>1. /\ r.after \in Record /\ ~r.after.archived
            /\ old = Absent => r.after.rev = 1
            /\ old # Absent => r.after.rev = old.rev + 1
        <4>1. Link(old) \in Record /\ ~Link(old).archived
          BY <1>4, LinkRecord
        <4>2. Link(old).rev = (IF old = Absent THEN 0 ELSE old.rev) + 1
          BY <1>4, LinkRecord
        <4>3. r.after = Link(old)
          BY <1>2, <1>3, <2>2
        <4> HIDE DEF old
        <4> QED
          BY <4>1, <4>2, <4>3
      <3>2. r.expected = 0
        BY <1>2, <1>3, <2>2
      <3>3. ParentsReady(<<v, c>>, r.after)
        BY <1>1, <1>5, <2>2 DEF ParentsReady
      <3>4. RowTells(r)
        BY <1>2, <1>6, <3>1, <3>2, <3>3 DEF RowTells
      <3> QED
        BY <3>1, <3>2, <3>4
    <2> QED
      BY <2>1, <2>2
  <1>9. r \in Change
    <2>1. r.op \in Ops \X {"archive", "activate"} \X Boxes
      BY <1>1, <1>7
    <2> QED
      BY <1>2, <1>3, <1>4, <1>8, <2>1 DEF Change
  <1>10. /\ r \in Change /\ RowTells(r)
         /\ r.id = <<v, c>> /\ \E word \in {"archive", "activate"} : r.op = <<op, word, c>>
         /\ \A p \in Parents(<<v, c>>, r.after) : p \notin Pairs
    BY <1>2, <1>5, <1>7, <1>8, <1>9
  <1> QED
    BY <1>10 DEF r

LEMMA ReplaceTells ==
    ASSUME Shaped, NEW op \in Ops, NEW v \in Versions, NEW want \in SUBSET Boxes, NEW expected,
           ReplaceCompatibilities(op, v, want, expected)
    PROVE  \E K : Told(K)
  <1> DEFINE D    == (want \ Linked(v)) \cup (Linked(v) \ want)
             rows == Links(op, v, want, expected)
             row(c) == LinkRow(op, v, c, expected)
             K    == SetToSeq(rows)
  <1>1. /\ catalog' = [id \in Ids |-> IF \E r \in rows : r.id = id
                                        THEN (CHOOSE r \in rows : r.id = id).after
                                        ELSE catalog[id]]
        /\ changes' = changes \o K
    BY DEF ReplaceCompatibilities, Links
  <1>2. \A c \in D : /\ row(c) \in Change /\ RowTells(row(c))
                     /\ row(c).id = <<v, c>>
                     /\ \E word \in {"archive", "activate"} : row(c).op = <<op, word, c>>
                     /\ \A p \in Parents(<<v, c>>, row(c).after) : p \notin Pairs
                     /\ <<v, c>> \in Pairs
    <2> TAKE c \in D
    <2>1. <<v, c>> \in Pairs
      BY LinkRowIs
    <2>2. LET r == row(c) IN
          /\ r \in Change /\ RowTells(r)
          /\ r.id = <<v, c>> /\ \E word \in {"archive", "activate"} : r.op = <<op, word, c>>
          /\ \A p \in Parents(<<v, c>>, r.after) : p \notin Pairs
      BY LinkRowTells
    <2> QED
      BY <2>1, <2>2
  <1>3. \A r : r \in rows <=> \E c \in D : r = row(c)
    BY LinksAre
  <1>4. IsFiniteSet(rows)
    <2> DEFINE f == [c \in D |-> row(c)]
    <2>1. D \subseteq Boxes
      BY DEF Linked
    <2>2. IsFiniteSet(D)
      BY <2>1, FS_Subset
    <2>3. f \in [D -> rows] /\ \A r \in rows : \E c \in D : f[c] = r
      BY <1>3
    <2> HIDE DEF f, D, rows
    <2>4. f \in Surjection(D, rows)
      BY <2>3, Zenon DEF Surjection
    <2> QED
      BY <2>2, <2>4, FS_Surjection
  <1> HIDE DEF D, rows, row
  <1>5. /\ K \in Seq(rows)
        /\ \A i, j \in DOMAIN K : K[i] = K[j] => i = j
        /\ \A r \in rows : \E i \in DOMAIN K : K[i] = r
    BY <1>4, SetToSeqIs
  <1> HIDE DEF K
  <1>6. rows \subseteq Change
    BY <1>2, <1>3
  <1>7. K \in Seq(Change) /\ \A i \in DOMAIN K : K[i] \in rows
    BY <1>5, <1>6
  <1>8. \A r, t \in rows : r.id = t.id \/ r.op = t.op => r = t
    <2> SUFFICES ASSUME NEW r \in rows, NEW t \in rows, r.id = t.id \/ r.op = t.op PROVE r = t
      OBVIOUS
    <2>1. PICK c \in D : r = row(c)
      BY <1>3
    <2>2. PICK d \in D : t = row(d)
      BY <1>3
    <2>3. r.id = <<v, c>> /\ t.id = <<v, d>>
      BY <1>2, <2>1, <2>2
    <2>4. PICK w \in {"archive", "activate"} : r.op = <<op, w, c>>
      BY <1>2, <2>1
    <2>5. PICK z \in {"archive", "activate"} : t.op = <<op, z, d>>
      BY <1>2, <2>2
    <2>6. c = d
      BY <2>3, <2>4, <2>5
    <2> QED
      BY <2>1, <2>2, <2>6
  <1>9. \A r \in rows : r.id \in Pairs /\ RowTells(r) /\ \A p \in Parents(r.id, r.after) : p \notin Pairs
    BY <1>2, <1>3
  <1>10. \A k \in DOMAIN K : Tells(K, k)
    BY <1>7, <1>9 DEF Tells
  <1>11. \A i, j \in DOMAIN K : K[i].id = K[j].id \/ K[i].op = K[j].op => i = j
    BY <1>5, <1>7, <1>8
  <1>12. \A id \in Ids : catalog'[id] = IF \E r \in rows : r.id = id
                                          THEN (CHOOSE r \in rows : r.id = id).after
                                          ELSE catalog[id]
    BY <1>1
  <1>13. \A r \in rows : catalog'[r.id] = r.after
    <2> SUFFICES ASSUME NEW r \in rows PROVE catalog'[r.id] = r.after
      OBVIOUS
    <2>1. r.id \in Ids
      BY <1>6 DEF Change
    <2>2. (CHOOSE t \in rows : t.id = r.id) = r
      BY <1>8
    <2> QED
      BY <1>12, <2>1, <2>2
  <1>14. \A id \in Ids : (\A k \in DOMAIN K : K[k].id # id) => catalog'[id] = catalog[id]
    BY <1>5, <1>12
  <1>15. catalog' \in [Ids -> Kept]
    <2>1. \A id \in Ids : catalog'[id] \in Kept
      <3> TAKE id \in Ids
      <3>1. CASE \E r \in rows : r.id = id
        <4>1. PICK r \in rows : r.id = id
          BY <3>1
        <4> QED
          BY <1>6, <1>13, <4>1 DEF Change, Kept
      <3>2. CASE ~\E r \in rows : r.id = id
        BY <1>12, <3>2 DEF Shaped
      <3> QED
        BY <3>1, <3>2
    <2> QED
      BY <1>1, <2>1
  <1>16. Told(K)
    BY <1>1, <1>7, <1>10, <1>11, <1>13, <1>14, <1>15 DEF Told
  <1> QED
    BY <1>16

-------------------------------------------------------------------------------
(* The changelog grows.                                                    *)

(* A set of numbers up to n has a greatest one: x..n is smallest for it.   *)
LEMMA Greatest ==
    ASSUME NEW n \in Nat, NEW S, S \subseteq 1..n, S # {}
    PROVE  Max(S) \in S /\ \A y \in S : y <= Max(S)
  <1> DEFINE F == {x..n : x \in S}
  <1>1. F \subseteq FiniteSubsetsOf(1..n) /\ F # {}
    <2>1. \A x \in S : x..n \subseteq 1..n /\ IsFiniteSet(x..n)
      BY FS_Interval
    <2>2. ASSUME NEW U \in F PROVE U \in FiniteSubsetsOf(1..n)
      <3>1. PICK x \in S : U = x..n
        OBVIOUS
      <3> QED
        BY ONLY <2>1, <3>1, Zenon DEF FiniteSubsetsOf
    <2>3. F # {}
      <3>1. PICK x \in S : TRUE
        OBVIOUS
      <3>2. x..n \in F
        BY ONLY <3>1, Zenon
      <3> QED
        BY <3>2
    <2> QED
      BY ONLY <2>2, <2>3, Zenon
  <1>2. IsWellFoundedOn(StrictSubsetOrdering(1..n), FiniteSubsetsOf(1..n))
    BY FS_StrictSubsetOrderingWellFounded
  <1> HIDE DEF F
  <1>3. PICK T \in F : \A U \in F : ~ (<<U, T>> \in StrictSubsetOrdering(1..n))
    BY <1>1, <1>2, WFMin
  <1> USE DEF F
  <1>4. PICK m \in S : T = m..n
    OBVIOUS
  <1>5. \A y \in S : y <= m
    <2> SUFFICES ASSUME NEW y \in S, ~(y <= m) PROVE FALSE
      OBVIOUS
    <2>1. y..n \in F /\ y..n \subseteq m..n /\ y..n # m..n
      <3>1. m \in m..n /\ m \notin y..n
        OBVIOUS
      <3> QED
        BY <3>1
    <2>2. y..n \in SUBSET (1..n) /\ m..n \in SUBSET (1..n)
      OBVIOUS
    <2> QED
      BY <1>3, <1>4, <2>1, <2>2 DEF StrictSubsetOrdering
  <1>6. \E x \in S : \A y \in S : x >= y
    BY <1>5
  <1>7. Max(S) \in S /\ \A y \in S : Max(S) >= y
    BY <1>6 DEF Max
  <1> QED
    BY <1>7

LEMMA GreatestIs ==
    ASSUME NEW n \in Nat, NEW S, S \subseteq 1..n, NEW m \in S, \A y \in S : y <= m
    PROVE  Max(S) = m
  <1>1. Max(S) \in S /\ \A y \in S : y <= Max(S)
    BY Greatest
  <1>2. PICK x \in S : x = Max(S)
    BY <1>1
  <1>3. x \in 1..n /\ m \in 1..n /\ m <= x /\ x <= m
    BY <1>1, <1>2
  <1>4. x = m
    BY <1>3
  <1> QED
    BY <1>2, <1>4

RowsOf(ch, id, n) == {i \in 1..n : ch[i].id = id}
LeftOf(ch, id, n) == IF RowsOf(ch, id, n) = {} THEN FirstCatalog[id] ELSE ch[Max(RowsOf(ch, id, n))].after

\* Row i of a changelog starts from where the one before ended.
Follows(ch, i) ==
    LET before == LeftOf(ch, ch[i].id, i - 1) IN
    /\ ch[i].before = before
    /\ ch[i].expected # 0 => before # Absent /\ before.rev = ch[i].expected
    /\ ch[i].after.rev = (IF before = Absent THEN 0 ELSE before.rev) + 1

Complete(ch, cat) ==
    /\ \A i \in 1..Len(ch) : Follows(ch, i)
    /\ \A id \in Ids : cat[id] = LeftOf(ch, id, Len(ch))

\* From row m of ch to row n of dh, no row is about the record.
Untouched(ch, dh, id, m, n) ==
    /\ m \in Nat /\ n \in Nat /\ m <= n
    /\ \A i \in 1..m : dh[i] = ch[i]
    /\ \A i \in (m + 1)..n : dh[i].id # id

(* Rows of other records leave a record as it was.                         *)
LEMMA SameLeft ==
    ASSUME NEW ch, NEW dh, NEW id, NEW m, NEW n, Untouched(ch, dh, id, m, n)
    PROVE  LeftOf(dh, id, n) = LeftOf(ch, id, m)
  <1>1. /\ m \in Nat /\ n \in Nat /\ m <= n
        /\ \A i \in 1..m : dh[i] = ch[i]
        /\ \A i \in (m + 1)..n : dh[i].id # id
    BY DEF Untouched
  <1>2. RowsOf(dh, id, n) = RowsOf(ch, id, m)
    BY <1>1 DEF RowsOf
  <1>3. CASE RowsOf(ch, id, m) = {}
    BY <1>2, <1>3 DEF LeftOf
  <1>4. CASE RowsOf(ch, id, m) # {}
    <2>1. RowsOf(ch, id, m) \subseteq 1..m
      BY DEF RowsOf
    <2>2. Max(RowsOf(ch, id, m)) \in 1..m
      BY <1>1, <1>4, <2>1, Greatest
    <2> QED
      BY <1>1, <1>2, <1>4, <2>2 DEF LeftOf
  <1> QED
    BY <1>3, <1>4

LEMMA LastLeft ==
    ASSUME NEW ch, NEW n \in Nat, NEW k \in 1..n, \A i \in (k + 1)..n : ch[i].id # ch[k].id
    PROVE  LeftOf(ch, ch[k].id, n) = ch[k].after
  <1> DEFINE S == RowsOf(ch, ch[k].id, n)
  <1>1. S \subseteq 1..n /\ k \in S /\ \A y \in S : y <= k
    BY DEF RowsOf
  <1>2. Max(S) = k /\ S # {}
    <2> HIDE DEF S
    <2> QED
      BY <1>1, GreatestIs
  <1> QED
    BY <1>2 DEF LeftOf

\* Rows of different records, each telling what it found and left.
Continues(K, cat, dat) ==
    /\ \A i, j \in DOMAIN K : K[i].id = K[j].id => i = j
    /\ \A k \in DOMAIN K :
          /\ K[k].before = cat[K[k].id]
          /\ K[k].expected # 0 => K[k].before # Absent /\ K[k].before.rev = K[k].expected
          /\ K[k].before = Absent => K[k].after.rev = 1
          /\ K[k].before # Absent => K[k].after.rev = K[k].before.rev + 1
          /\ dat[K[k].id] = K[k].after
    /\ \A id \in Ids : (\A k \in DOMAIN K : K[k].id # id) => dat[id] = cat[id]

(* A changelog that is complete stays so when such rows are added.         *)
LEMMA StaysComplete ==
    ASSUME NEW ch \in Seq(Change), NEW K \in Seq(Change), NEW cat, NEW dat, Complete(ch, cat),
           Continues(K, cat, dat)
    PROVE  Complete(ch \o K, dat)
  <1> USE DEF Continues
  <1> DEFINE dh == ch \o K
             n  == Len(ch)
             m  == Len(K)
  <1>1. /\ n \in Nat /\ m \in Nat /\ Len(dh) = n + m /\ DOMAIN K = 1..m
        /\ \A i \in 1..n : dh[i] = ch[i] /\ ch[i] \in Change
        /\ \A i \in (n + 1)..(n + m) : dh[i] = K[i - n] /\ i - n \in DOMAIN K
        /\ \A k \in 1..m : K[k] \in Change
    OBVIOUS
  <1> HIDE DEF dh, n, m
  <1>2. \A i \in 1..n : Follows(ch, i)
    BY DEF Complete, n
  <1>3. \A id \in Ids : cat[id] = LeftOf(ch, id, n)
    BY DEF Complete, n
  <1>4. ASSUME NEW i \in 1..n PROVE Follows(dh, i)
    <2>1. LeftOf(dh, ch[i].id, i - 1) = LeftOf(ch, ch[i].id, i - 1)
      <3>1. Untouched(ch, dh, ch[i].id, i - 1, i - 1)
        BY <1>1 DEF Untouched
      <3> QED
        BY <3>1, SameLeft
    <2>2. dh[i] = ch[i] /\ Follows(ch, i)
      BY <1>1, <1>2
    <2> QED
      BY <2>1, <2>2 DEF Follows
  <1>5. ASSUME NEW i \in (n + 1)..(n + m) PROVE Follows(dh, i)
    <2> DEFINE c == dh[i]
    <2>1. i - n \in DOMAIN K /\ c = K[i - n] /\ c.id \in Ids
      BY <1>1 DEF Change
    <2>2. LeftOf(dh, c.id, i - 1) = LeftOf(ch, c.id, n)
      <3>1. \A j \in (n + 1)..(i - 1) : dh[j].id # c.id
        <4> TAKE j \in (n + 1)..(i - 1)
        <4>1. j \in (n + 1)..(n + m) /\ j - n # i - n
          BY <1>1
        <4>2. dh[j] = K[j - n] /\ j - n \in DOMAIN K
          BY <1>1, <4>1
        <4> QED
          BY <2>1, <4>1, <4>2
      <3>2. n \in Nat /\ i - 1 \in Nat /\ n <= i - 1 /\ \A j \in 1..n : dh[j] = ch[j]
        BY <1>1
      <3>3. Untouched(ch, dh, c.id, n, i - 1)
        BY <3>1, <3>2 DEF Untouched
      <3> QED
        BY <3>3, SameLeft
    <2>3. /\ c.before = cat[c.id]
          /\ c.expected # 0 => c.before # Absent /\ c.before.rev = c.expected
          /\ c.before = Absent => c.after.rev = 1
          /\ c.before # Absent => c.after.rev = c.before.rev + 1
      BY <2>1
    <2>4. c.before = LeftOf(dh, c.id, i - 1)
      BY <1>3, <2>1, <2>2, <2>3
    <2> QED
      BY <2>3, <2>4 DEF Follows
  <1>6. ASSUME NEW id \in Ids PROVE dat[id] = LeftOf(dh, id, n + m)
    <2>1. CASE \E k \in DOMAIN K : K[k].id = id
      <3>1. PICK k \in DOMAIN K : K[k].id = id
        BY <2>1
      <3>2. n + k \in 1..(n + m) /\ dh[n + k] = K[k] /\ n + m \in Nat
        BY <1>1
      <3>3. \A j \in (n + k + 1)..(n + m) : dh[j].id # id
        <4> TAKE j \in (n + k + 1)..(n + m)
        <4>1. dh[j] = K[j - n] /\ j - n \in DOMAIN K /\ j - n # k
          BY <1>1
        <4> QED
          BY <3>1, <4>1
      <3>4. PICK h \in Nat, l \in Nat : h = n + m /\ l = n + k /\ l \in 1..h
        BY <3>2
      <3>5. \A j \in (l + 1)..h : dh[j].id # dh[l].id
        BY <3>1, <3>2, <3>3, <3>4
      <3>6. l \in 1..h
        BY <3>4
      <3>7. LeftOf(dh, dh[l].id, h) = dh[l].after
        BY ONLY <3>4, <3>5, <3>6, LastLeft
      <3> QED
        BY <3>1, <3>2, <3>4, <3>7
    <2>2. CASE \A k \in DOMAIN K : K[k].id # id
      <3>1. \A j \in (n + 1)..(n + m) : dh[j].id # id
        <4> TAKE j \in (n + 1)..(n + m)
        <4>1. dh[j] = K[j - n] /\ j - n \in DOMAIN K
          BY <1>1
        <4> QED
          BY <2>2, <4>1
      <3>2. n <= n + m /\ n + m \in Nat
        BY <1>1
      <3>3. Untouched(ch, dh, id, n, n + m)
        BY <1>1, <3>1, <3>2 DEF Untouched
      <3>4. LeftOf(dh, id, n + m) = LeftOf(ch, id, n)
        BY <3>3, SameLeft
      <3> QED
        BY <1>3, <2>2, <3>4
    <2> QED
      BY <2>1, <2>2
  <1>7. \A i \in 1..(n + m) : Follows(dh, i)
    <2> TAKE i \in 1..(n + m)
    <2>1. i \in 1..n \/ i \in (n + 1)..(n + m)
      BY <1>1
    <2> QED
      BY <1>4, <1>5, <2>1
  <1>8. Complete(dh, dat)
    BY <1>1, <1>6, <1>7 DEF Complete
  <1> QED
    BY <1>8 DEF dh

-------------------------------------------------------------------------------
(* The inductive invariant.                                                *)

CatalogInv ==
    /\ Shaped /\ Requested /\ Referred
    /\ ParentsAreActive
    /\ Complete(changes, catalog) /\ OperationsApplyOnce

LEMMA ChangeIs ==
    ASSUME NEW c \in Change
    PROVE  c.id \in Ids /\ c.after \in Record /\ c.after # Absent
  BY DEF Change

LEMMA HistoryIs ==
    ASSUME Shaped
    PROVE  HistoryIsComplete <=> Complete(changes, catalog)
  <1>1. \A id, n : RowsFor(id, n) = RowsOf(changes, id, n) /\ Left(id, n) = LeftOf(changes, id, n)
    BY DEF RowsFor, RowsOf, Left, LeftOf
  <1>2. changes \in Seq(Change)
    BY DEF Shaped
  <1>3. Len(changes) \in Nat /\ \A i \in 1..Len(changes) : changes[i] \in Change
    BY <1>2
  <1>4. \A i \in 1..Len(changes) : changes[i].id \in Ids
    BY <1>3, ChangeIs
  <1>5. ASSUME NEW id \in Ids, NEW i \in RowsFor(id, Len(changes))
        PROVE  /\ i \in 1..Len(changes) /\ changes[i].id = id
               /\ Left(id, i - 1) = LeftOf(changes, changes[i].id, i - 1)
    BY <1>1 DEF RowsOf
  <1> DEFINE RowChains(id, i) ==
        LET c == changes[i]
            before == Left(id, i - 1) IN
        /\ c.before = before
        /\ c.expected # 0 => before # Absent /\ before.rev = c.expected
        /\ c.after.rev = (IF before = Absent THEN 0 ELSE before.rev) + 1
  <1>6. ASSUME NEW id \in Ids, NEW i \in RowsFor(id, Len(changes)) PROVE RowChains(id, i) <=> Follows(changes, i)
    BY <1>5, <1>6, Zenon DEF Follows
  <1>8. HistoryIsComplete <=>
          \A id \in Ids :
            /\ \A i \in RowsFor(id, Len(changes)) : RowChains(id, i)
            /\ catalog[id] = Left(id, Len(changes))
    BY Zenon DEF HistoryIsComplete
  <1> HIDE DEF RowChains
  <1>7. \A i \in 1..Len(changes) : i \in RowsFor(changes[i].id, Len(changes))
    BY DEF RowsFor
  <1> QED
    BY <1>1, <1>4, <1>5, <1>6, <1>7, <1>8, Zenon DEF Complete

LEMMA ParentsAreIds ==
    ASSUME NEW id \in Ids, NEW r \in Record
    PROVE  Parents(id, r) \subseteq Ids
  <1>1. id \in Versions \cup Boxes => SeriesOf[id] \in Series
    OBVIOUS
  <1>2. id \in Pairs => id[1] \in Versions /\ id[2] \in Boxes
    BY DEF Pairs
  <1>3. r.maker \in Makers \cup {NoMaker}
    BY DEF Record
  <1> QED
    BY <1>1, <1>2, <1>3 DEF Parents, Ids

(* What the accepted operations leave.                                     *)
LEMMA ToldShape ==
    ASSUME Shaped, NEW K, Told(K)
    PROVE  Shaped'
  <1>1. changes' \in Seq(Change) /\ catalog' \in [Ids -> Kept]
    BY DEF Shaped, Told
  <1>2. /\ changes \in Seq(Change) /\ K \in Seq(Change) /\ changes' = changes \o K
        /\ \A i \in DOMAIN changes : changes[i].id \in Ids /\ catalog[changes[i].id] # Absent
        /\ \A k \in DOMAIN K : K[k].after # Absent /\ catalog'[K[k].id] = K[k].after
    <2>1. changes \in Seq(Change) /\ K \in Seq(Change) /\ changes' = changes \o K
      BY DEF Shaped, Told
    <2>2. \A i \in DOMAIN changes : changes[i] \in Change
      BY <2>1
    <2>3. \A k \in DOMAIN K : K[k] \in Change
      BY <2>1
    <2> QED
      BY <2>1, <2>2, <2>3, ChangeIs DEF Shaped, Told
  <1>3. ASSUME NEW id \in Ids, catalog[id] # Absent PROVE catalog'[id] # Absent
    <2>1. CASE \E k \in DOMAIN K : K[k].id = id
      BY <1>2, <2>1
    <2>2. CASE \A k \in DOMAIN K : K[k].id # id
      BY <1>3, <2>2 DEF Told
    <2> QED
      BY <2>1, <2>2
  <1>4. ASSUME NEW i \in DOMAIN changes' PROVE catalog'[changes'[i].id] # Absent
    <2>1. \/ i \in DOMAIN changes /\ changes'[i] = changes[i]
          \/ \E k \in DOMAIN K : changes'[i] = K[k]
      BY ONLY <1>2, <1>4
    <2> QED
      BY <1>2, <1>3, <2>1, ZenonT(30)
  <1> QED
    BY <1>1, <1>4 DEF Shaped

LEMMA ToldParents ==
    ASSUME Shaped, ParentsAreActive, NEW K, Told(K)
    PROVE  ParentsAreActive'
  <1>1. catalog \in [Ids -> Kept] /\ catalog' \in [Ids -> Kept]
    BY DEF Shaped, Told
  <1>2. \A k \in DOMAIN K : K[k].id \in Ids /\ K[k].after # Absent
    <2>1. \A k \in DOMAIN K : K[k] \in Change
      BY DEF Told
    <2> QED
      BY <2>1, ChangeIs
  <1> SUFFICES ASSUME NEW id \in Ids, Standing(catalog'[id]),
                      NEW p \in Parents(id, catalog'[id])
               PROVE  Standing(catalog'[p])
    BY DEF ParentsAreActive, ParentsReady, Live
  <1>3. p \in Ids
    <2>1. catalog'[id] \in Record
      BY <1>1 DEF Standing, Kept
    <2> QED
      BY <2>1, ParentsAreIds
  <1>4. CASE \E k \in DOMAIN K : K[k].id = id
    <2>1. PICK k \in DOMAIN K : K[k].id = id
      BY <1>4
    <2>2. catalog'[id] = K[k].after /\ ~K[k].after.archived
      BY <2>1 DEF Told, Standing
    <2>3. Live(p) /\ \A j \in DOMAIN K : K[j].id # p
      BY <2>1, <2>2, ZenonT(60) DEF Told, Tells, RowTells, ParentsReady
    <2>4. catalog'[p] = catalog[p]
      BY <1>3, <2>3 DEF Told
    <2> QED
      BY <2>3, <2>4 DEF Live
  <1>5. CASE \A k \in DOMAIN K : K[k].id # id
    <2>1. catalog'[id] = catalog[id] /\ Live(id)
      BY <1>5 DEF Told, Live
    <2>2. Live(p)
      BY <2>1 DEF ParentsAreActive, ParentsReady
    <2>3. HasChildren(p)
      BY <2>1 DEF HasChildren
    <2>4. CASE \E k \in DOMAIN K : K[k].id = p
      <3>1. PICK k \in DOMAIN K : K[k].id = p
        BY <2>4
      <3>2. ~(K[k].after.archived /\ Live(p))
        BY <2>3, <3>1 DEF Told, Tells, RowTells, Blocked
      <3> QED
        BY <1>2, <2>2, <3>1, <3>2 DEF Told, Standing
    <2>5. CASE \A k \in DOMAIN K : K[k].id # p
      BY <1>3, <2>2, <2>5 DEF Told, Live
    <2> QED
      BY <2>4, <2>5
  <1> QED
    BY <1>4, <1>5

LEMMA ToldHistory ==
    ASSUME Shaped, Complete(changes, catalog), OperationsApplyOnce, NEW K, Told(K)
    PROVE  Complete(changes', catalog') /\ OperationsApplyOnce'
  <1>1. changes \in Seq(Change) /\ K \in Seq(Change) /\ changes' = changes \o K
    BY DEF Shaped, Told
  <1>2. Complete(changes', catalog')
    <2>1. \A k \in DOMAIN K :
             /\ K[k].before = catalog[K[k].id]
             /\ K[k].expected # 0 => K[k].before # Absent /\ K[k].before.rev = K[k].expected
             /\ K[k].before = Absent => K[k].after.rev = 1
             /\ K[k].before # Absent => K[k].after.rev = K[k].before.rev + 1
             /\ catalog'[K[k].id] = K[k].after
      BY DEF Told, Tells, RowTells
    <2>2. \A i, j \in DOMAIN K : K[i].id = K[j].id => i = j
      BY DEF Told
    <2>3. \A id \in Ids : (\A k \in DOMAIN K : K[k].id # id) => catalog'[id] = catalog[id]
      BY DEF Told
    <2>4. Continues(K, catalog, catalog')
      BY <2>1, <2>2, <2>3 DEF Continues
    <2>5. Complete(changes \o K, catalog')
      BY <1>1, <2>4, StaysComplete
    <2> QED
      BY <1>1, <2>5
  <1>3. \A i \in DOMAIN changes, k \in DOMAIN K : changes[i].op # K[k].op
    BY DEF Told, Tells, RowTells, Used
  <1>4. \A i, j \in DOMAIN K : K[i].op = K[j].op => i = j
    BY DEF Told
  <1>5. OperationsApplyOnce'
    <2> SUFFICES ASSUME NEW i \in DOMAIN changes', NEW j \in DOMAIN changes',
                        changes'[i].op = changes'[j].op
                 PROVE  i = j
      BY DEF OperationsApplyOnce
    <2>1. \A l \in DOMAIN changes' :
            \/ l \in DOMAIN changes /\ changes'[l] = changes[l]
            \/ l - Len(changes) \in DOMAIN K /\ changes'[l] = K[l - Len(changes)] /\ l \in Nat
      BY <1>1
    <2> QED
      BY <1>1, <1>3, <1>4, <2>1 DEF OperationsApplyOnce
  <1> QED
    BY <1>2, <1>5

(* What an editor sends is what Asked says.                                *)
LEMMA BodiesAsk ==
    ASSUME Shaped, NEW b \in CatalogBodies
    PROVE  Asked(b)
  <1>1. /\ catalog \in [Ids -> Kept] /\ changes \in Seq(Change)
        /\ \A i \in DOMAIN changes : catalog[changes[i].id] # Absent
    BY DEF Shaped
  <1>2. \A id \in Ids : catalog[id] # Absent => catalog[id].rev \in Nat
    BY <1>1 DEF Kept, Record
  <1>3. \A i \in DOMAIN changes : changes[i].id \in Ids /\ i \in Nat
    <2>1. \A i \in DOMAIN changes : changes[i] \in Change /\ i \in Nat
      BY <1>1
    <2> QED
      BY <2>1, ChangeIs
  <1>4. CASE b \in Creations
    <2>1. PICK id \in Ids, n \in Names, m \in Makers \cup {NoMaker} :
            b = Body("create", id, 0, n, m, 0)
      BY <1>4 DEF Creations
    <2> QED
      BY <2>1 DEF Asked, Body
  <1>5. CASE b \in Updates
    <2>1. PICK id \in Shown, n \in Names, m \in Makers \cup {NoMaker} :
            b = Body("update", id, catalog[id].rev, n, m, 0)
      BY <1>5 DEF Updates
    <2> QED
      BY <1>2, <2>1 DEF Asked, Body, Shown
  <1>6. ASSUME NEW act \in {"archive", "restore"}, b \in Shelvings(act) PROVE Asked(b)
    <2>1. PICK id \in Shown : b = Body(act, id, catalog[id].rev, "", NoMaker, 0)
      BY <1>6 DEF Shelvings
    <2> QED
      BY <1>2, <1>6, <2>1 DEF Asked, Body, Shown
  <1>7. CASE b \in Reverts
    <2>1. PICK i \in ShownChanges :
            b = Body("revert", changes[i].id, catalog[changes[i].id].rev, "", NoMaker, i)
      BY <1>7 DEF Reverts
    <2> QED
      BY <1>1, <1>2, <1>3, <2>1 DEF Asked, Body, ShownChanges
  <1> QED
    BY <1>4, <1>5, <1>6, <1>7 DEF CatalogBodies

LEMMA EnterKeeps ==
    ASSUME Shaped, Requested, NEW b \in CatalogBodies, NEW q \in Requests, NEW op \in Ops, Enter(q, op, b)
    PROVE  Requested' /\ UNCHANGED <<catalog, changes, installed, planned>>
  <1>1. Asked(b)
    BY BodiesAsk
  <1>2. /\ request' = [request EXCEPT ![q] = [act |-> b.act, op |-> op, body |-> b]]
        /\ UNCHANGED <<catalog, changes, installed, planned>>
    BY DEF Enter
  <1>3. DOMAIN request' = Requests
    BY <1>2 DEF Requested
  <1>4. ASSUME NEW p \in Requests, request'[p] # Idle PROVE request'[p].op \in Ops /\ Asked(request'[p].body)
    <2>1. CASE p = q
      BY <1>1, <1>2, <2>1 DEF Requested
    <2>2. CASE p # q
      BY <1>2, <1>4, <2>2 DEF Requested
    <2> QED
      BY <2>1, <2>2
  <1> QED
    BY <1>2, <1>3, <1>4 DEF Requested, Asked

(* A request ends as it is answered.                                       *)
LEMMA AnswerKeeps ==
    ASSUME Requested, NEW q \in Requests,
           Refuse(q) \/ Create(q) \/ Update(q) \/ Archive(q) \/ Restore(q) \/ Revert(q)
    PROVE  Requested' /\ UNCHANGED <<installed, planned>>
  <1>1. request' = [request EXCEPT ![q] = Idle] /\ UNCHANGED <<installed, planned>>
    <2>1. CASE Refuse(q)
      BY <2>1 DEF Refuse
    <2>2. CASE Create(q)
      BY <2>2 DEF Create, Accept
    <2>3. CASE Update(q)
      BY <2>3 DEF Update, Accept
    <2>4. CASE Archive(q)
      BY <2>4 DEF Archive, Accept
    <2>5. CASE Restore(q)
      BY <2>5 DEF Restore, Accept
    <2>6. CASE Revert(q)
      BY <2>6 DEF Revert, Accept
    <2> QED
      BY <2>1, <2>2, <2>3, <2>4, <2>5, <2>6
  <1> QED
    BY <1>1 DEF Requested, Asked

(* A step is an accepted operation or leaves the catalog as it is.         *)
LEMMA Steps ==
    ASSUME Shaped, Requested, Referred, ParentsAreActive, CatalogNext
    PROVE  /\ (\E K : Told(K)) \/ UNCHANGED <<catalog, changes>>
           /\ Requested' /\ Referred'
  <1>1. CASE \E b \in CatalogBodies, q \in Requests, op \in Ops : Enter(q, op, b)
    BY <1>1, EnterKeeps DEF Referred
  <1>2. CASE \E q \in Requests :
               request[q] # Idle /\ (Refuse(q) \/ Create(q) \/ Update(q) \/ Archive(q) \/ Restore(q) \/ Revert(q))
    <2>1. PICK q \in Requests :
            request[q] # Idle /\ (Refuse(q) \/ Create(q) \/ Update(q) \/ Archive(q) \/ Restore(q) \/ Revert(q))
      BY <1>2
    <2>2. Requested' /\ UNCHANGED <<installed, planned>>
      BY <2>1, AnswerKeeps
    <2>3. (\E K : Told(K)) \/ UNCHANGED <<catalog, changes>>
      <3>1. CASE Refuse(q)
        BY <3>1 DEF Refuse
      <3>2. CASE Create(q)
        BY <2>1, <3>2, CreateTells
      <3>3. CASE Update(q)
        BY <2>1, <3>3, UpdateTells
      <3>4. CASE Archive(q)
        BY <2>1, <3>4, ArchiveTells
      <3>5. CASE Restore(q)
        BY <2>1, <3>5, RestoreTells
      <3>6. CASE Revert(q)
        BY <2>1, <3>6, RevertTells
      <3> QED
        BY <2>1, <3>1, <3>2, <3>3, <3>4, <3>5, <3>6
    <2> QED
      BY <2>2, <2>3 DEF Referred
  <1>3. ASSUME NEW op \in Ops, NEW v \in Versions, NEW want \in SUBSET Boxes,
               ReplaceCompatibilities(op, v, want, [c \in Linked(v) |-> catalog[<<v, c>>].rev])
        PROVE  (\E K : Told(K)) /\ Requested' /\ Referred'
    <2>1. UNCHANGED <<request, installed, planned>>
      BY <1>3 DEF ReplaceCompatibilities
    <2>2. \E K : Told(K)
      BY <1>3, ReplaceTells
    <2> QED
      BY <2>1, <2>2 DEF Requested, Referred
  <1>4. ASSUME NEW row \in Versions \X (Boxes \cup {NoBox}), Install(row) \/ Uninstall(row)
        PROVE  UNCHANGED <<catalog, changes>> /\ Requested' /\ Referred'
    BY <1>4 DEF Install, Uninstall, Requested, Referred
  <1>5. ASSUME NEW st, NEW vs, NEW boxes \in SUBSET Boxes, Plan(st, vs, boxes)
        PROVE  UNCHANGED <<catalog, changes>> /\ Requested' /\ Referred'
    BY <1>5 DEF Plan, Requested, Referred
  <1>6. CASE EndPlan
    BY <1>6 DEF EndPlan, NoPlan, Requested, Referred
  <1> QED
    BY <1>1, <1>2, <1>3, <1>4, <1>5, <1>6 DEF CatalogNext

LEMMA InitHolds ==
    ASSUME CatalogInit
    PROVE  CatalogInv
  <1>1. /\ catalog = FirstCatalog /\ changes = <<>> /\ request = [q \in Requests |-> Idle]
        /\ installed = {} /\ planned = NoPlan
    BY DEF CatalogInit
  <1>2. Shaped
    BY <1>1 DEF Shaped, Kept
  <1>3. Requested /\ Referred
    BY <1>1 DEF Requested, Referred, NoPlan
  <1>4. ParentsAreActive
    BY <1>1, FirstAssumption DEF ParentsAreActive, ParentsReady, Live
  <1>5. Complete(changes, catalog)
    <2>1. Len(changes) = 0 /\ 1..0 = {}
      BY <1>1
    <2>2. \A id : RowsOf(changes, id, 0) = {}
      BY <2>1 DEF RowsOf
    <2> QED
      BY <1>1, <2>1, <2>2 DEF Complete, LeftOf
  <1>6. OperationsApplyOnce
    BY <1>1 DEF OperationsApplyOnce
  <1> QED
    BY <1>2, <1>3, <1>4, <1>5, <1>6 DEF CatalogInv

LEMMA StepKeeps ==
    ASSUME CatalogInv, [CatalogNext]_catalogVars
    PROVE  CatalogInv'
  <1>1. CASE CatalogNext
    <2>1. (\E K : Told(K)) \/ UNCHANGED <<catalog, changes>>
      BY <1>1, Steps DEF CatalogInv
    <2>2. Requested' /\ Referred'
      BY <1>1, Steps DEF CatalogInv
    <2>3. CASE \E K : Told(K)
      <3>1. PICK K : Told(K)
        BY <2>3
      <3>2. Shaped' /\ ParentsAreActive' /\ Complete(changes', catalog') /\ OperationsApplyOnce'
        BY <3>1, ToldShape, ToldParents, ToldHistory DEF CatalogInv
      <3> QED
        BY <2>2, <3>2 DEF CatalogInv
    <2>4. CASE UNCHANGED <<catalog, changes>>
      <3>1. Shaped' /\ ParentsAreActive' /\ Complete(changes', catalog') /\ OperationsApplyOnce'
        BY <2>4 DEF CatalogInv, Shaped, ParentsAreActive, ParentsReady, Live, OperationsApplyOnce
      <3> QED
        BY <2>2, <3>1 DEF CatalogInv
    <2> QED
      BY <2>1, <2>3, <2>4
  <1>2. CASE UNCHANGED catalogVars
    BY <1>2 DEF catalogVars, CatalogInv, Shaped, Requested, Referred, ParentsAreActive, ParentsReady, Live,
                OperationsApplyOnce
  <1> QED
    BY <1>1, <1>2

(* What is archived was not in use.                                        *)
LEMMA StepFrees ==
    ASSUME CatalogInv, [CatalogNext]_catalogVars, NEW id \in Ids, Live(id), ~Live(id)'
    PROVE  /\ ~\E row \in installed : id \in {row, row[1], row[2]}
           /\ planned.status # "ended" => id \notin planned.versions \cup planned.boxes
  <1>1. ~UNCHANGED <<catalog, changes>>
    BY DEF Live
  <1>2. PICK K : Told(K)
    BY <1>1, Steps DEF CatalogInv, catalogVars
  <1>3. PICK k \in DOMAIN K : K[k].id = id
    BY <1>2 DEF Told, Live
  <1>4. K[k].after # Absent /\ catalog'[id] = K[k].after
    <2>1. K[k] \in Change
      BY <1>2 DEF Told
    <2> QED
      BY <1>2, <1>3, <2>1, ChangeIs DEF Told
  <1>5. K[k].after.archived
    BY <1>4 DEF Live, Standing
  <1>6. ~Blocked(id)
    BY <1>2, <1>3, <1>5 DEF Told, Tells, RowTells
  <1>7. planned.boxes \subseteq Boxes
    BY DEF CatalogInv, Referred
  <1> QED
    BY <1>6, <1>7 DEF Blocked, IsInstalled, IsPlanned

-------------------------------------------------------------------------------
(* The inductive invariant holds: editors' requests overlap, and catalog,  *)
(* changelog and references stay in step (mutate, revert,                  *)
(* ReplaceCompatibilities).                                                *)
THEOREM CatalogKeeps == CatalogSpec => []CatalogInv
  <1>1. CatalogInit => CatalogInv
    BY InitHolds
  <1>2. CatalogInv /\ [CatalogNext]_catalogVars => CatalogInv'
    BY StepKeeps
  <1> QED
    BY <1>1, <1>2, PTL DEF CatalogSpec

(* What is active stands on active records, whatever the order of archive, *)
(* restore, update, revert and replacement, and what is in use is not      *)
(* archived (ensureRestorable, applyValues, blockingReferences).           *)
THEOREM CatalogHolds == CatalogSpec => CatalogStands
  <1>1. CatalogInv => CatalogTypeOK /\ ParentsAreActive
    <2> SUFFICES ASSUME CatalogInv PROVE CatalogTypeOK /\ ParentsAreActive
      OBVIOUS
    <2>1. \A id \in Ids : catalog[id] # Absent => catalog[id] \in Record
      BY DEF CatalogInv, Shaped, Kept
    <2>2. \A i \in DOMAIN changes : changes[i].id \in Ids /\ changes[i].after # Absent
      <3>1. \A i \in DOMAIN changes : changes[i] \in Change
        BY DEF CatalogInv, Shaped
      <3> QED
        BY <3>1, ChangeIs
    <2> QED
      BY <2>1, <2>2 DEF CatalogInv, CatalogTypeOK, Record, Referred
  <1>2. CatalogInv /\ [CatalogNext]_catalogVars =>
          [\A id \in Ids : Live(id) /\ ~Live(id)' =>
             /\ ~\E row \in installed : id \in {row, row[1], row[2]}
             /\ planned.status # "ended" => id \notin planned.versions \cup planned.boxes]_catalogVars
    BY StepFrees
  <1> QED
    BY <1>1, <1>2, CatalogKeeps, PTL DEF CatalogSpec, CatalogStands, InUseIsKept

(* The changelog tells every change of every record, in order and once,    *)
(* for requests that overlap and are sent again (findReplay, saveChange).  *)
THEOREM AllIsTold == CatalogSpec => []ChangesAreTold
  <1>1. CatalogInv => ChangesAreTold
    BY HistoryIs DEF CatalogInv, ChangesAreTold
  <1> QED
    BY <1>1, CatalogKeeps, PTL

-------------------------------------------------------------------------------
(* Update campaigns.                                                       *)

HIDE CatalogAssumption DEF CatalogAssumption
USE CampaignsAssumption DEF CampaignsAssumption

-------------------------------------------------------------------------------
(* What is true at any time.                                               *)

\* A state of the games of an arcade: only games that stand there, only rows
\* whose cabinet runs their version.
GoodRow     == {r \in Row : Supported(r.version, r.cabinet)}
At(a)       == {g \in Games : ArcadeOf[g] = a}
HallRows(a) == UNION {[S -> GoodRow] : S \in SUBSET At(a)}
HallState   == UNION {[arcade : {a}, rows : HallRows(a)] : a \in Halls}

StatesStand ==
    /\ states \in Seq(HallState)
    /\ present \in [Halls -> DOMAIN states]
    /\ \A a \in Halls : states[present[a]].arcade = a

ReportRow == [user : Users, game : Games, result : {"still_old", "updated"}, verified : BOOLEAN,
              at : Nat, state : Nat]

\* Reports name states that had their game, and come in the order of time.
ReportsStand ==
    /\ reports \in Seq(ReportRow)
    /\ \A i \in DOMAIN reports :
         /\ reports[i].state \in DOMAIN states
         /\ reports[i].game \in DOMAIN states[reports[i].state].rows
         /\ reports[i].at <= day
    /\ \A i, j \in DOMAIN reports : i <= j => reports[i].at <= reports[j].at

CampaignStands == campaign = NoCampaign \/ (campaign \in CampaignBody /\ Valid(campaign))

RestStands == listed \subseteq Halls /\ day \in 0..EndOfTime

\* The reports of a user on a game.
Says(rs, u, g, result) ==
    {i \in DOMAIN rs : rs[i].user = u /\ rs[i].game = g /\ rs[i].result = result}

Granted(log, u, kind) == \E e \in log : e.user = u /\ e.kind = kind

OnceEach(log) == \A e, f \in log : e.user = f.user /\ e.kind = f.kind => e = f

OldPaid(log, rs) ==
    \A u \in Named, g \in Games :
        Granted(log, u, <<"campaign-still-old", g>>) <=>
            \E i \in Says(rs, u, g, "still_old") : rs[i].verified

NewPaid(log, rs) ==
    \A u \in Named, g \in Games :
        Granted(log, u, <<"campaign", g>>) <=> Says(rs, u, g, "updated") # {}

\* More than the bypass reward was given for a first report from the arcade.
FullyPaid(log, rs) ==
    \A e \in log, u \in Named, g \in Games :
        e.user = u /\ e.kind = <<"campaign", g>> /\ e.diff > BypassReward =>
            \E i \in Says(rs, u, g, "updated") :
                rs[i].verified /\ \A j \in Says(rs, u, g, "updated") : i <= j

PurseStands ==
    /\ OnceEach(purse.log) /\ OldPaid(purse.log, reports)
    /\ NewPaid(purse.log, reports) /\ FullyPaid(purse.log, reports)

CampaignsInv == StatesStand /\ ReportsStand /\ CampaignStands /\ RestStands /\ PurseStands

-------------------------------------------------------------------------------
(* The beginning.                                                          *)

LEMMA HallsAre ==
    /\ IsFiniteSet(Halls) /\ \A g \in Games : ArcadeOf[g] \in Halls
    /\ \A a \in Halls : \E g \in Games : a = ArcadeOf[g]
  <1> DEFINE f == [g \in Games |-> ArcadeOf[g]]
  <1>1. f \in Surjection(Games, Halls)
    BY Zenon DEF Surjection, Halls
  <1>2. IsFiniteSet(Halls)
    <2> HIDE DEF f
    <2> QED
      BY <1>1, FS_Surjection
  <1> QED
    BY <1>2 DEF Halls

LEMMA StateIs ==
    ASSUME NEW s
    PROVE  s \in HallState <=>
             /\ s = [arcade |-> s.arcade, rows |-> s.rows] /\ s.arcade \in Halls
             /\ \E S \in SUBSET At(s.arcade) : s.rows \in [S -> GoodRow]
  <1>1. s \in HallState <=> \E a \in Halls : s \in [arcade : {a}, rows : HallRows(a)]
    BY Zenon DEF HallState
  <1>2. \A a, r : r \in HallRows(a) <=> \E S \in SUBSET At(a) : r \in [S -> GoodRow]
    BY Zenon DEF HallRows
  <1>3. \A a : s \in [arcade : {a}, rows : HallRows(a)] <=>
                 s = [arcade |-> s.arcade, rows |-> s.rows] /\ s.arcade = a /\ s.rows \in HallRows(a)
    OBVIOUS
  <1> QED
    BY <1>1, <1>2, <1>3

LEMMA FirstStates ==
    ASSUME NEW a \in Halls
    PROVE  FirstState(a) \in HallState /\ FirstState(a).arcade = a
  <1> DEFINE rows == [g \in At(a) |-> FirstRows[g]]
  <1>1. At(a) \subseteq Games /\ \A g \in Games : FirstRows[g] \in GoodRow
    BY DEF At, GoodRow
  <1>2. rows \in [At(a) -> GoodRow]
    BY <1>1
  <1>3. FirstState(a) = [arcade |-> a, rows |-> rows]
    BY DEF FirstState, At
  <1> QED
    BY <1>2, <1>3 DEF HallState, HallRows

LEMMA CampaignsInitial == CampaignsInit => CampaignsInv
  <1> SUFFICES ASSUME CampaignsInit PROVE CampaignsInv
    OBVIOUS
  <1> DEFINE n == Cardinality(Halls)
             f == SetToSeq(Halls)
  <1>1. /\ n \in Nat /\ f \in [1..n -> Halls]
        /\ \A a \in Halls : \E i \in 1..n : f[i] = a
    <2>1. /\ n \in Nat /\ f \in Seq(Halls) /\ DOMAIN f = 1..n
          /\ \A a \in Halls : \E i \in DOMAIN f : f[i] = a
      BY HallsAre, SetToSeqIs, Zenon
    <2> HIDE DEF f, n
    <2> QED
      BY <2>1
  <1>2. states = [i \in 1..n |-> FirstState(f[i])]
    BY DEF CampaignsInit
  <1> HIDE DEF f, n
  <1>3. \A i \in 1..n : states[i] \in HallState /\ states[i].arcade = f[i]
    <2> TAKE i \in 1..n
    <2>1. f[i] \in Halls /\ states[i] = FirstState(f[i])
      BY <1>1, <1>2
    <2> QED
      BY <2>1, FirstStates
  <1>4. states \in Seq(HallState) /\ DOMAIN states = 1..n
    <2>1. states = [i \in 1..n |-> states[i]]
      BY <1>2
    <2>2. states \in [1..n -> HallState]
      BY <1>3, <2>1
    <2> QED
      BY <1>1, <2>2, SeqDef
  <1>5. \A a \in Halls : present[a] \in DOMAIN states /\ states[present[a]].arcade = a
    <2> TAKE a \in Halls
    <2>1. \E i \in DOMAIN states : states[i].arcade = a
      BY <1>1, <1>3, <1>4
    <2>2. present[a] = CHOOSE i \in DOMAIN states : states[i].arcade = a
      BY DEF CampaignsInit
    <2> QED
      BY <2>1, <2>2
  <1>6. StatesStand
    <2>1. present = [a \in Halls |-> present[a]]
      BY DEF CampaignsInit
    <2>2. present \in [Halls -> DOMAIN states]
      BY <1>5, <2>1
    <2> QED
      BY <1>4, <1>5, <2>2 DEF StatesStand
  <1>7. reports = <<>> /\ purse.log = {} /\ campaign = NoCampaign /\ listed = Halls /\ day = 0
    BY DEF CampaignsInit
  <1>8. ReportsStand
    BY <1>7 DEF ReportsStand
  <1>9. PurseStands
    <2>1. \A u, g, r : Says(reports, u, g, r) = {}
      BY <1>7 DEF Says
    <2>2. \A u, k : ~ Granted(purse.log, u, k)
      BY <1>7 DEF Granted
    <2> QED
      BY <1>7, <2>1, <2>2 DEF PurseStands, OnceEach, OldPaid, NewPaid, FullyPaid
  <1> QED
    BY <1>6, <1>7, <1>8, <1>9 DEF CampaignsInv, CampaignStands, RestStands

-------------------------------------------------------------------------------
(* The states of the games: a move adds one, none ever changes.            *)

Grown == \A i \in DOMAIN states : i \in DOMAIN states' /\ states'[i] = states[i]

LEMMA RowsAre ==
    ASSUME StatesStand, NEW a \in Halls
    PROVE  /\ present[a] \in DOMAIN states
           /\ \E S \in SUBSET At(a) : Rows(a) \in [S -> GoodRow]
  <1>1. present[a] \in DOMAIN states /\ states[present[a]] \in HallState
    BY DEF StatesStand
  <1>2. states[present[a]].arcade = a
    BY DEF StatesStand
  <1> QED
    BY <1>1, <1>2, StateIs DEF Rows

LEMMA RowOfIs ==
    ASSUME StatesStand, NEW g \in Games, Installed(g)
    PROVE  RowOf(g) \in Row /\ Supported(RowOf(g).version, RowOf(g).cabinet)
  <1>1. PICK S \in SUBSET At(ArcadeOf[g]) : Rows(ArcadeOf[g]) \in [S -> GoodRow]
    BY RowsAre, HallsAre
  <1> QED
    BY <1>1 DEF RowOf, Installed, GoodRow

LEMMA MoveKeeps ==
    ASSUME StatesStand, NEW a \in Halls, NEW rows, MoveTo(a, rows), rows \in HallRows(a)
    PROVE  /\ StatesStand' /\ Grown
           /\ present'[a] \in DOMAIN states' /\ present'[a] \notin DOMAIN states
           /\ states'[present'[a]].rows = rows
  <1> DEFINE n == Len(states)
             s == [arcade |-> a, rows |-> rows]
  <1>1. s \in HallState
    BY DEF HallState
  <1>2. n \in Nat /\ DOMAIN states = 1..n /\ states \in Seq(HallState)
    BY DEF StatesStand
  <1>3. states' = Append(states, s) /\ present' = [present EXCEPT ![a] = n + 1]
    BY DEF MoveTo
  <1>4. /\ states' \in Seq(HallState) /\ DOMAIN states' = 1..(n + 1)
        /\ \A i \in 1..n : states'[i] = states[i]
        /\ states'[n + 1] = s
    BY <1>1, <1>2, <1>3
  <1>5. present \in [Halls -> 1..n] /\ \A b \in Halls : states[present[b]].arcade = b
    BY <1>2 DEF StatesStand
  <1>6. present' \in [Halls -> 1..(n + 1)] /\ present'[a] = n + 1
        /\ \A b \in Halls : b # a => present'[b] = present[b]
    BY <1>2, <1>3, <1>5
  <1>7. \A b \in Halls : states'[present'[b]].arcade = b
    BY <1>4, <1>5, <1>6
  <1>8. StatesStand'
    BY <1>4, <1>6, <1>7 DEF StatesStand
  <1> QED
    BY <1>2, <1>4, <1>6, <1>8 DEF Grown

LEMMA MovedRows ==
    ASSUME StatesStand, NEW g \in Games, Installed(g), NEW v \in VersionIds, CanMove(g, v)
    PROVE  /\ Moved(g, v) \in HallRows(ArcadeOf[g])
           /\ g \in DOMAIN Moved(g, v) /\ Moved(g, v)[g].version = v
  <1> DEFINE a == ArcadeOf[g]
             rows == Rows(a)
             new == Moved(g, v)
  <1>1. PICK S \in SUBSET At(a) : rows \in [S -> GoodRow]
    BY RowsAre, HallsAre
  <1>2. g \in S
    BY <1>1 DEF Installed
  <1>3. new = [rows EXCEPT ![g].version = v]
    BY DEF Moved
  <1>4. \A h \in S : rows[h] \in Row
    BY <1>1 DEF GoodRow
  <1> HIDE DEF rows, new
  <1>5. DOMAIN new = S /\ \A h \in S : new[h] \in Row
    BY <1>1, <1>2, <1>3, <1>4 DEF Row
  <1>6. new[g].version = v
    BY <1>1, <1>2, <1>3, <1>4 DEF Row
  <1>7. \A h \in S : new[h] \in GoodRow
    BY <1>5 DEF CanMove, GoodRow, new
  <1>8. new = [h \in S |-> new[h]]
    BY <1>1, <1>3
  <1>9. new \in [S -> GoodRow]
    BY <1>7, <1>8
  <1>10. new \in HallRows(a)
    BY <1>9 DEF HallRows
  <1> QED
    BY <1>2, <1>5, <1>6, <1>10 DEF new

LEMMA EditKeeps ==
    ASSUME StatesStand, NEW g \in Games,
           \/ RemoveGame(g)
           \/ \E p \in Supports : EditGame(g, p[1], p[2])
    PROVE  StatesStand' /\ Grown /\ present' # present
  <1> DEFINE a == ArcadeOf[g]
             old == Rows(a)
  <1>1. PICK S \in SUBSET At(a) : old \in [S -> GoodRow]
    BY RowsAre, HallsAre
  <1>2. g \in S /\ a \in Halls
    BY <1>1, HallsAre DEF Installed, RemoveGame, EditGame
  <1>3. \E rows \in HallRows(a) : MoveTo(a, rows)
    <2>1. CASE RemoveGame(g)
      <3> DEFINE rows == [h \in DOMAIN old \ {g} |-> old[h]]
      <3>1. rows \in [S \ {g} -> GoodRow] /\ S \ {g} \in SUBSET At(a)
        BY <1>1
      <3>2. rows \in HallRows(a)
        BY <3>1 DEF HallRows
      <3>3. MoveTo(a, rows)
        BY <2>1 DEF RemoveGame
      <3> QED
        BY <3>2, <3>3
    <2>2. ASSUME NEW p \in Supports, EditGame(g, p[1], p[2]) PROVE \E rows \in HallRows(a) : MoveTo(a, rows)
      <3> DEFINE row == [version |-> p[1], cabinet |-> p[2]]
                 rows == [old EXCEPT ![g] = row]
      <3>1. p[1] \in VersionIds /\ p[2] \in CabinetIds /\ Supported(p[1], p[2])
        BY <2>2 DEF VersionIds, CabinetIds, EditGame
      <3>2. row \in GoodRow
        BY <3>1 DEF GoodRow, Row
      <3>3. rows \in [S -> GoodRow]
        BY <1>1, <3>2
      <3>4. rows \in HallRows(a)
        BY <3>3 DEF HallRows
      <3>5. MoveTo(a, rows)
        BY <2>2 DEF EditGame
      <3> QED
        BY <3>4, <3>5
    <2> QED
      BY <2>1, <2>2
  <1>4. PICK rows \in HallRows(a) : MoveTo(a, rows)
    BY <1>3
  <1>5. StatesStand' /\ Grown /\ present'[a] \notin DOMAIN states
    BY <1>2, <1>4, MoveKeeps
  <1>6. present[a] \in DOMAIN states
    BY <1>2, RowsAre
  <1> QED
    BY <1>5, <1>6

-------------------------------------------------------------------------------
(* Reports and what they pay.                                              *)

\* The log new is log and perhaps a grant of this kind to user u, who has one now.
Grants(log, new, u, kind, diff) ==
    /\ \A k : \A v \in Named : Granted(new, v, k) <=> Granted(log, v, k) \/ (v = u /\ k = kind)
    /\ OnceEach(log) => OnceEach(new)
    /\ \A e \in new :
         \/ e \in log
         \/ e.user = u /\ e.kind = kind /\ e.diff = diff /\ ~ Granted(log, u, kind)

LEMMA AwardGrants ==
    ASSUME NEW x, NEW u, NEW kind, NEW diff, NEW at, diff # 0
    PROVE  Grants(x.log, Award(x, u, kind, diff, at).log, u, kind, diff)
  <1> DEFINE y == Award(x, u, kind, diff, at)
             row == LedgerRow(u, kind, diff, at)
  <1>1. Has(x, u, kind) <=> Granted(x.log, u, kind)
    BY Zenon DEF Has, Granted
  <1>2. ASSUME y = x, u \notin Named \/ Granted(x.log, u, kind)
        PROVE  Grants(x.log, y.log, u, kind, diff)
    <2>1. Grants(x.log, x.log, u, kind, diff)
      BY <1>2, Zenon DEF Grants
    <2> QED
      BY <1>2, <2>1, Zenon
  <1>3. ASSUME u \in Named, ~ Granted(x.log, u, kind), y.log = x.log \cup {row}
        PROVE  Grants(x.log, y.log, u, kind, diff)
    <2>1. row.user = u /\ row.kind = kind /\ row.diff = diff
      BY DEF LedgerRow
    <2> HIDE DEF y, row
    <2>2. \A k : \A v \in Named : Granted(y.log, v, k) <=> Granted(x.log, v, k) \/ (v = u /\ k = kind)
      BY <1>3, <2>1, Zenon DEF Granted
    <2>3. OnceEach(x.log) => OnceEach(y.log)
      BY <1>3, <2>1, Zenon DEF OnceEach, Granted
    <2>4. \A e \in y.log :
            \/ e \in x.log
            \/ e.user = u /\ e.kind = kind /\ e.diff = diff /\ ~ Granted(x.log, u, kind)
      BY <1>3, <2>1, Zenon
    <2> QED
      BY <2>2, <2>3, <2>4, Zenon DEF Grants
  <1>4. \/ y = x /\ (u \notin Named \/ Has(x, u, kind))
        \/ u \in Named /\ ~Has(x, u, kind) /\ Pays(x, y, row)
    BY AwardRow
  <1>5. Pays(x, y, row) => y.log = x.log \cup {row}
    BY Zenon DEF Pays
  <1> QED
    BY <1>1, <1>2, <1>3, <1>4, <1>5, Zenon

(* A row added to the reports.                                             *)
Adds(rs, ss, row) ==
    /\ DOMAIN ss = DOMAIN rs \cup {Len(rs) + 1} /\ Len(rs) + 1 \notin DOMAIN rs
    /\ \A i \in DOMAIN rs : ss[i] = rs[i] /\ i <= Len(rs) + 1 /\ ~(Len(rs) + 1 <= i)
    /\ ss[Len(rs) + 1] = row
    /\ \A i \in DOMAIN ss : i <= i

LEMMA AppendAdds ==
    ASSUME NEW rs \in Seq(ReportRow), NEW row \in ReportRow
    PROVE  Adds(rs, Append(rs, row), row)
  BY DEF Adds

LEMMA SaysMore ==
    ASSUME NEW rs, NEW ss, NEW row, Adds(rs, ss, row), NEW u, NEW g, NEW result
    PROVE  \A i : i \in Says(ss, u, g, result) <=>
             \/ i \in Says(rs, u, g, result)
             \/ i = Len(rs) + 1 /\ row.user = u /\ row.game = g /\ row.result = result
  <1> DEFINE n == Len(rs) + 1
  <1>1. DOMAIN ss = DOMAIN rs \cup {n} /\ n \notin DOMAIN rs /\ ss[n] = row
        /\ \A i \in DOMAIN rs : ss[i] = rs[i]
    BY Zenon DEF Adds
  <1> HIDE DEF n
  <1>2. \A i : i \in Says(ss, u, g, result) <=>
                 \/ i \in Says(rs, u, g, result)
                 \/ i = n /\ row.user = u /\ row.game = g /\ row.result = result
    BY <1>1, Zenon DEF Says
  <1> QED
    BY <1>2, Zenon DEF n

\* What every step leaves as it is: who is owed what for other reports.
LEMMA OldPaidStays ==
    ASSUME NEW log, NEW new, NEW rs, NEW ss, NEW row, Adds(rs, ss, row), OldPaid(log, rs),
           row.result = "updated" \/ ~row.verified,
           \A v \in Named, g \in Games : Granted(new, v, <<"campaign-still-old", g>>) <=>
                                            Granted(log, v, <<"campaign-still-old", g>>)
    PROVE  OldPaid(new, ss)
  <1> SUFFICES ASSUME NEW v \in Named, NEW g \in Games
               PROVE  (\E i \in Says(ss, v, g, "still_old") : ss[i].verified) <=>
                      (\E i \in Says(rs, v, g, "still_old") : rs[i].verified)
    BY Zenon DEF OldPaid
  <1>1. \A i \in Says(rs, v, g, "still_old") : i \in DOMAIN rs /\ ss[i] = rs[i]
    BY Zenon DEF Says, Adds
  <1>2. \A i : i \in Says(ss, v, g, "still_old") <=>
                 \/ i \in Says(rs, v, g, "still_old")
                 \/ i = Len(rs) + 1 /\ row.user = v /\ row.game = g /\ row.result = "still_old"
    BY SaysMore
  <1>3. ss[Len(rs) + 1] = row
    BY Zenon DEF Adds
  <1>4. "still_old" # "updated"
    OBVIOUS
  <1> QED
    BY <1>1, <1>2, <1>3, <1>4, Zenon

LEMMA NewPaidStays ==
    ASSUME NEW log, NEW new, NEW rs, NEW ss, NEW row, Adds(rs, ss, row),
           NewPaid(log, rs), FullyPaid(log, rs), row.result = "still_old",
           \A v \in Named, g \in Games : Granted(new, v, <<"campaign", g>>) <=>
                                            Granted(log, v, <<"campaign", g>>),
           \A e \in new, g \in Games : e.kind = <<"campaign", g>> => e \in log
    PROVE  NewPaid(new, ss) /\ FullyPaid(new, ss)
  <1>1. "still_old" # "updated"
    OBVIOUS
  <1>2. \A v, g : Says(ss, v, g, "updated") = Says(rs, v, g, "updated")
    <2> TAKE v, g
    <2>1. \A i : i \in Says(ss, v, g, "updated") <=> i \in Says(rs, v, g, "updated")
      BY <1>1, SaysMore
    <2> QED
      BY <2>1
  <1>3. NewPaid(new, ss)
    BY <1>2, Zenon DEF NewPaid
  <1>4. FullyPaid(new, ss)
    <2> SUFFICES ASSUME NEW e \in new, NEW v \in Named, NEW g \in Games,
                        e.user = v, e.kind = <<"campaign", g>>, e.diff > BypassReward
                 PROVE  \E i \in Says(ss, v, g, "updated") :
                          ss[i].verified /\ \A j \in Says(ss, v, g, "updated") : i <= j
      BY Zenon DEF FullyPaid
    <2>1. PICK i \in Says(rs, v, g, "updated") :
                 rs[i].verified /\ \A j \in Says(rs, v, g, "updated") : i <= j
      BY Zenon DEF FullyPaid
    <2>2. ss[i] = rs[i]
      BY <2>1, Zenon DEF Adds, Says
    <2> QED
      BY <1>2, <2>1, <2>2, Zenon
  <1> QED
    BY <1>3, <1>4

LEMMA NewPaidMore ==
    ASSUME NEW log, NEW new, NEW rs, NEW ss, NEW row, Adds(rs, ss, row),
           NewPaid(log, rs), FullyPaid(log, rs), row.result = "updated",
           \A k : \A v \in Named : Granted(new, v, k) <=>
             Granted(log, v, k) \/ (v = row.user /\ k = <<"campaign", row.game>>),
           \A e \in new :
             \/ e \in log
             \/ /\ e.user = row.user /\ e.kind = <<"campaign", row.game>>
                /\ ~ Granted(log, row.user, <<"campaign", row.game>>)
                /\ e.diff > BypassReward => row.verified
    PROVE  NewPaid(new, ss) /\ FullyPaid(new, ss)
  <1> DEFINE n == Len(rs) + 1
  <1>1. \A v, g : \A i : i \in Says(ss, v, g, "updated") <=>
                    i \in Says(rs, v, g, "updated") \/ (i = n /\ row.user = v /\ row.game = g)
    BY SaysMore
  <1>2. /\ ss[n] = row /\ n <= n /\ \A i \in DOMAIN rs : ss[i] = rs[i] /\ i <= n
    BY Zenon DEF Adds
  <1>3. \A v, g : Says(rs, v, g, "updated") \subseteq DOMAIN rs
    BY Zenon DEF Says
  <1>4. \A g, h : <<"campaign", g>> = <<"campaign", h>> => g = h
    OBVIOUS
  <1> HIDE DEF n
  <1>5. NewPaid(new, ss)
    <2> SUFFICES ASSUME NEW v \in Named, NEW g \in Games
                 PROVE  Granted(new, v, <<"campaign", g>>) <=> Says(ss, v, g, "updated") # {}
      BY Zenon DEF NewPaid
    <2>1. Granted(log, v, <<"campaign", g>>) <=> \E i : i \in Says(rs, v, g, "updated")
      BY Zenon DEF NewPaid
    <2>2. Granted(new, v, <<"campaign", g>>) <=>
            Granted(log, v, <<"campaign", g>>) \/ (v = row.user /\ g = row.game)
      BY <1>4, Zenon
    <2>3. Says(ss, v, g, "updated") # {} <=> \E i : i \in Says(ss, v, g, "updated")
      OBVIOUS
    <2> QED
      BY <1>1, <2>1, <2>2, <2>3, Zenon
  <1>6. FullyPaid(new, ss)
    <2> SUFFICES ASSUME NEW e \in new, NEW v \in Named, NEW g \in Games,
                        e.user = v, e.kind = <<"campaign", g>>, e.diff > BypassReward
                 PROVE  \E i \in Says(ss, v, g, "updated") :
                          ss[i].verified /\ \A j \in Says(ss, v, g, "updated") : i <= j
      BY Zenon DEF FullyPaid
    <2>1. CASE e \in log
      <3>1. PICK i \in Says(rs, v, g, "updated") :
                   rs[i].verified /\ \A j \in Says(rs, v, g, "updated") : i <= j
        BY <2>1, Zenon DEF FullyPaid
      <3>2. i \in DOMAIN rs /\ ss[i] = rs[i] /\ i <= n
        BY <1>2, <1>3, <3>1, Zenon
      <3>3. i \in Says(ss, v, g, "updated") /\ ss[i].verified
        BY <1>1, <3>1, <3>2
      <3>4. \A j \in Says(ss, v, g, "updated") : i <= j
        BY <1>1, <3>1, <3>2
      <3> QED
        BY <3>3, <3>4, Zenon
    <2>2. CASE e.user = row.user /\ e.kind = <<"campaign", row.game>> /\ row.verified
                 /\ ~ Granted(log, row.user, <<"campaign", row.game>>)
      <3>1. v = row.user /\ g = row.game
        BY <1>4, <2>2, Zenon
      <3>2. Says(rs, v, g, "updated") = {}
        BY <2>2, <3>1, Zenon DEF NewPaid
      <3>3. \A i : i \in Says(ss, v, g, "updated") <=> i = n
        BY <1>1, <3>1, <3>2
      <3>4. n \in Says(ss, v, g, "updated") /\ ss[n].verified
        BY <1>2, <2>2, <3>3, Zenon
      <3>5. \A j \in Says(ss, v, g, "updated") : n <= j
        BY <1>2, <3>3
      <3> QED
        BY <3>4, <3>5, Zenon
    <2> QED
      BY <2>1, <2>2, Zenon
  <1> QED
    BY <1>5, <1>6

LEMMA OldPaidMore ==
    ASSUME NEW log, NEW new, NEW rs, NEW ss, NEW row, Adds(rs, ss, row), OldPaid(log, rs),
           row.result = "still_old", row.verified,
           \A k : \A v \in Named : Granted(new, v, k) <=>
             Granted(log, v, k) \/ (v = row.user /\ k = <<"campaign-still-old", row.game>>)
    PROVE  OldPaid(new, ss)
  <1> SUFFICES ASSUME NEW v \in Named, NEW g \in Games
               PROVE  Granted(new, v, <<"campaign-still-old", g>>) <=>
                        \E i \in Says(ss, v, g, "still_old") : ss[i].verified
    BY Zenon DEF OldPaid
  <1>1. Granted(log, v, <<"campaign-still-old", g>>) <=>
          \E i \in Says(rs, v, g, "still_old") : rs[i].verified
    BY Zenon DEF OldPaid
  <1>2. \A h : <<"campaign-still-old", g>> = <<"campaign-still-old", h>> => g = h
    OBVIOUS
  <1>3. Granted(new, v, <<"campaign-still-old", g>>) <=>
          Granted(log, v, <<"campaign-still-old", g>>) \/ (v = row.user /\ g = row.game)
    BY <1>2, Zenon
  <1>4. \A i : i \in Says(ss, v, g, "still_old") <=>
                 i \in Says(rs, v, g, "still_old") \/ (i = Len(rs) + 1 /\ row.user = v /\ row.game = g)
    BY SaysMore
  <1>5. ss[Len(rs) + 1] = row
    BY Zenon DEF Adds
  <1>6. \A i \in Says(rs, v, g, "still_old") : ss[i] = rs[i]
    BY Zenon DEF Adds, Says
  <1> QED
    BY <1>1, <1>3, <1>4, <1>5, <1>6, Zenon

LEMMA ReportKeeps ==
    ASSUME StatesStand, ReportsStand, StatesStand', Grown, day \in Nat, day' = day,
           NEW u \in Users, NEW g \in Games, NEW result \in {"still_old", "updated"},
           NEW bypass \in BOOLEAN, Report(u, g, result, bypass),
           g \in DOMAIN states'[present'[ArcadeOf[g]]].rows
    PROVE  /\ ReportsStand'
           /\ \E row \in ReportRow :
                /\ Adds(reports, reports', row) /\ reports' = Append(reports, row)
                /\ row.user = u /\ row.game = g /\ row.result = result
                /\ row.verified <=> ~bypass
                /\ row.state = present'[ArcadeOf[g]]
  <1> DEFINE k == present'[ArcadeOf[g]]
             row == [user |-> u, game |-> g, result |-> result, verified |-> ~bypass, at |-> day,
                     state |-> k]
             n == Len(reports) + 1
  <1>1. k \in DOMAIN states' /\ k \in Nat
    <2>1. ArcadeOf[g] \in Halls
      BY HallsAre
    <2> QED
      BY <2>1 DEF StatesStand
  <1>2. row \in ReportRow
    BY <1>1 DEF ReportRow
  <1>3. reports' = Append(reports, row)
    BY DEF Report
  <1>4. row.user = u /\ row.game = g /\ row.result = result /\ row.verified = ~bypass
        /\ row.state = k /\ row.at = day
    OBVIOUS
  <1> HIDE DEF row
  <1>5. Adds(reports, reports', row)
    BY <1>2, <1>3, AppendAdds DEF ReportsStand
  <1>6. /\ reports' \in Seq(ReportRow)
        /\ DOMAIN reports' = DOMAIN reports \cup {n}
        /\ reports'[n] = row /\ \A i \in DOMAIN reports : reports'[i] = reports[i] /\ i <= n /\ ~(n <= i)
    <2>1. reports' \in Seq(ReportRow)
      BY <1>2, <1>3 DEF ReportsStand
    <2> QED
      BY <1>5, <2>1 DEF Adds
  <1> HIDE DEF n
  <1>7. \A i \in DOMAIN reports' : /\ reports'[i].state \in DOMAIN states'
                                   /\ reports'[i].game \in DOMAIN states'[reports'[i].state].rows
                                   /\ reports'[i].at <= day'
    <2> TAKE i \in DOMAIN reports'
    <2>1. CASE i = n
      <3>1. day <= day'
        OBVIOUS
      <3> QED
        BY <1>1, <1>4, <1>6, <2>1, <3>1
    <2>2. CASE i \in DOMAIN reports
      BY <1>6, <2>2 DEF ReportsStand, Grown
    <2> QED
      BY <1>6, <2>1, <2>2
  <1>8. \A i, j \in DOMAIN reports' : i <= j => reports'[i].at <= reports'[j].at
    <2>1. row.at = day /\ row.at <= row.at
      BY <1>4
    <2>2. \A i \in DOMAIN reports : reports[i].at <= day
      BY DEF ReportsStand
    <2>3. \A i, j \in DOMAIN reports : i <= j => reports[i].at <= reports[j].at
      BY DEF ReportsStand
    <2> QED
      BY <1>6, <2>1, <2>2, <2>3
  <1>9. ReportsStand'
    BY <1>6, <1>7, <1>8 DEF ReportsStand
  <1> QED
    BY <1>2, <1>3, <1>4, <1>5, <1>9

LEMMA Shifts ==
    ASSUME StatesStand, NEW g \in Games, NEW v \in VersionIds, NEW w, Installed(g),
           RowOf(g).version \in {v, w},
           IF RowOf(g).version = w
             THEN CanMove(g, v) /\ MoveTo(ArcadeOf[g], Moved(g, v))
             ELSE UNCHANGED <<states, present>>
    PROVE  /\ StatesStand' /\ Grown
           /\ g \in DOMAIN states'[present'[ArcadeOf[g]]].rows
           /\ states'[present'[ArcadeOf[g]]].rows[g].version = v
  <1>1. ArcadeOf[g] \in Halls
    BY HallsAre
  <1>2. CASE RowOf(g).version = w
    <2>1. /\ Moved(g, v) \in HallRows(ArcadeOf[g])
          /\ g \in DOMAIN Moved(g, v) /\ Moved(g, v)[g].version = v
      BY <1>2, MovedRows
    <2>2. /\ StatesStand' /\ Grown
          /\ states'[present'[ArcadeOf[g]]].rows = Moved(g, v)
      BY <1>1, <1>2, <2>1, MoveKeeps
    <2> QED
      BY <2>1, <2>2
  <1>3. CASE RowOf(g).version # w
    <2>1. states' = states /\ present' = present /\ RowOf(g).version = v
      BY <1>3
    <2>2. StatesStand' /\ Grown
      BY <2>1 DEF StatesStand, Grown
    <2> QED
      BY <2>1, <2>2 DEF RowOf, Rows, Installed
  <1> QED
    BY <1>2, <1>3

LEMMA ActiveCampaign ==
    ASSUME CampaignStands, Active
    PROVE  /\ campaign \in CampaignBody /\ campaign.from \in VersionIds /\ campaign.to \in VersionIds
           /\ campaign.from # campaign.to /\ campaign.reward \in Nat /\ campaign.reward > 0
  <1>1. campaign # NoCampaign
    BY DEF Active, NoCampaign
  <1>2. campaign \in CampaignBody /\ Valid(campaign)
    BY <1>1 DEF CampaignStands
  <1>3. campaign.from \in VersionIds /\ campaign.to \in VersionIds /\ campaign.reward \in Nat
    BY <1>2 DEF CampaignBody
  <1>4. campaign.from # campaign.to /\ campaign.reward > 0
    BY <1>2 DEF Valid
  <1> QED
    BY <1>2, <1>3, <1>4

\* What a report leaves behind.
Described(g, result, version) ==
    \E row \in ReportRow :
       /\ Adds(reports, reports', row) /\ reports' = Append(reports, row)
       /\ row.game = g /\ row.result = result /\ row.state = present'[ArcadeOf[g]]
       /\ states'[row.state].rows[g].version = version

LEMMA KindsDiffer ==
    /\ \A g, h : <<"campaign-still-old", g>> # <<"campaign", h>>
    /\ "still_old" # "updated" /\ "still_old" \in {"still_old", "updated"}
    /\ "updated" \in {"still_old", "updated"}
  OBVIOUS

LEMMA StillOldKeeps ==
    ASSUME CampaignsInv, NEW u \in Users, NEW g \in Games, NEW bypass \in BOOLEAN,
           ReportStillOld(u, g, bypass)
    PROVE  CampaignsInv' /\ Grown /\ Described(g, "still_old", campaign.from)
  <1>1. /\ campaign \in CampaignBody /\ campaign.from \in VersionIds /\ campaign.from # campaign.to
        /\ campaign.reward \in Nat /\ campaign.reward > 0
    BY ActiveCampaign DEF ReportStillOld, Admitted, CampaignsInv
  <1>2. Installed(g) /\ RowOf(g).version \in {campaign.from, campaign.to}
    BY DEF ReportStillOld, Admitted, Target
  <1>3. IF RowOf(g).version = campaign.to
          THEN CanMove(g, campaign.from) /\ MoveTo(ArcadeOf[g], Moved(g, campaign.from))
          ELSE UNCHANGED <<states, present>>
    BY DEF ReportStillOld
  <1>4. /\ StatesStand' /\ Grown
        /\ g \in DOMAIN states'[present'[ArcadeOf[g]]].rows
        /\ states'[present'[ArcadeOf[g]]].rows[g].version = campaign.from
    BY <1>1, <1>2, <1>3, Shifts DEF CampaignsInv
  <1>5. /\ StillOldPay(u, g, bypass) /\ Report(u, g, "still_old", bypass)
        /\ campaign' = campaign /\ listed' = listed /\ day' = day /\ day \in Nat
    BY DEF ReportStillOld, CampaignsInv, RestStands
  <1>6. /\ ReportsStand'
        /\ \E row \in ReportRow :
             /\ Adds(reports, reports', row) /\ reports' = Append(reports, row)
             /\ row.user = u /\ row.game = g /\ row.result = "still_old"
             /\ row.verified <=> ~bypass
             /\ row.state = present'[ArcadeOf[g]]
    BY <1>4, <1>5, ReportKeeps DEF CampaignsInv
  <1>7. PICK row \in ReportRow :
             /\ Adds(reports, reports', row) /\ reports' = Append(reports, row)
             /\ row.user = u /\ row.game = g /\ row.result = "still_old"
             /\ row.verified <=> ~bypass
             /\ row.state = present'[ArcadeOf[g]]
    BY <1>6
  <1>9. Described(g, "still_old", campaign.from)
    BY <1>4, <1>7 DEF Described
  <1> DEFINE kind == <<"campaign-still-old", g>>
             log == purse.log
             new == purse'.log
  <1>10. OnceEach(log) /\ OldPaid(log, reports) /\ NewPaid(log, reports) /\ FullyPaid(log, reports)
    BY DEF CampaignsInv, PurseStands
  <1>11. PurseStands'
    <2>1. CASE bypass
      <3>1. new = log
        BY <1>5, <2>1 DEF StillOldPay
      <3> HIDE DEF log, new
      <3>2. ~ row.verified
        BY <1>7, <2>1, Zenon
      <3>3. OldPaid(new, reports')
        BY <1>7, <1>10, <3>1, <3>2, OldPaidStays
      <3>4. NewPaid(new, reports') /\ FullyPaid(new, reports')
        BY <1>7, <1>10, <3>1, NewPaidStays
      <3> QED
        BY <1>10, <3>1, <3>3, <3>4 DEF PurseStands, new
    <2>2. CASE ~bypass
      <3>1. purse' = Award(purse, u, kind, campaign.reward, day)
        BY <1>5, <2>2 DEF StillOldPay
      <3>2. campaign.reward # 0
        BY <1>1
      <3> DEFINE y == Award(purse, u, kind, campaign.reward, day)
      <3> HIDE DEF kind
      <3>3. Grants(purse.log, y.log, u, kind, campaign.reward)
        BY <3>2, AwardGrants
      <3>4. y.log = new
        BY <3>1
      <3> HIDE DEF y, log, new
      <3>5. /\ \A k : \A v \in Named : Granted(new, v, k) <=> Granted(log, v, k) \/ (v = u /\ k = kind)
            /\ OnceEach(new)
            /\ \A e \in new : e \in log \/ e.kind = kind
        BY <1>10, <3>3, <3>4, Zenon DEF log, Grants
      <3>6. row.verified /\ row.user = u /\ kind = <<"campaign-still-old", row.game>>
        BY <1>7, <2>2, Zenon DEF kind
      <3>7. OldPaid(new, reports')
        BY <1>7, <1>10, <3>5, <3>6, OldPaidMore
      <3>8. \A v \in Named, h \in Games :
              Granted(new, v, <<"campaign", h>>) <=> Granted(log, v, <<"campaign", h>>)
        BY <3>5, KindsDiffer, Zenon DEF kind
      <3>9. \A e \in new, h \in Games : e.kind = <<"campaign", h>> => e \in log
        BY <3>5, KindsDiffer, Zenon DEF kind
      <3>10. NewPaid(new, reports') /\ FullyPaid(new, reports')
        BY <1>7, <1>10, <3>8, <3>9, NewPaidStays
      <3> QED
        BY <3>5, <3>7, <3>10 DEF PurseStands, new
    <2> QED
      BY <2>1, <2>2
  <1>12. CampaignStands' /\ RestStands'
    BY <1>5 DEF CampaignsInv, CampaignStands, RestStands, Valid, NoCampaign
  <1> QED
    BY <1>4, <1>6, <1>9, <1>11, <1>12 DEF CampaignsInv

(* The number of the last report that passes a test, or 0.                 *)
LastOf(S) == IF S = {} THEN 0 ELSE Max(S)

LEMMA LastOfIs ==
    ASSUME NEW n \in Nat, NEW S, S \subseteq 1..n
    PROVE  /\ LastOf(S) \in 0..n /\ (LastOf(S) = 0 <=> S = {}) /\ \A y \in S : y <= LastOf(S)
           /\ LastOf(S) # 0 => LastOf(S) \in S
  <1>1. CASE S = {}
    BY <1>1 DEF LastOf
  <1>2. CASE S # {}
    <2>1. Max(S) \in S /\ \A y \in S : y <= Max(S)
      BY <1>2, Greatest
    <2> QED
      BY <1>2, <2>1 DEF LastOf
  <1> QED
    BY <1>1, <1>2

LEMMA LatestOfIs ==
    ASSUME NEW u, NEW g
    PROVE  LatestOf(u, g) = LastOf({i \in DOMAIN reports : reports[i].user = u /\ reports[i].game = g})
  BY Zenon DEF LatestOf, Latest, LastOf

LEMMA LatestForIs ==
    ASSUME NEW g, NEW result
    PROVE  LatestFor(g, result) =
             LastOf({i \in DOMAIN reports : reports[i].game = g /\ reports[i].result = result})
  BY Zenon DEF LatestFor, Latest, LastOf

LEMMA UpdatedKeeps ==
    ASSUME CampaignsInv, NEW u \in Users, NEW g \in Games, NEW bypass \in BOOLEAN,
           ReportUpdated(u, g, bypass)
    PROVE  CampaignsInv' /\ Grown /\ Described(g, "updated", campaign.to)
  <1>1. /\ campaign \in CampaignBody /\ campaign.to \in VersionIds /\ campaign.from # campaign.to
        /\ campaign.reward \in Nat /\ campaign.reward > 0
    BY ActiveCampaign DEF ReportUpdated, Admitted, CampaignsInv
  <1>2. Installed(g) /\ RowOf(g).version \in {campaign.to, campaign.from}
    BY DEF ReportUpdated, Admitted, Target
  <1>3. IF RowOf(g).version = campaign.from
          THEN CanMove(g, campaign.to) /\ MoveTo(ArcadeOf[g], Moved(g, campaign.to))
          ELSE UNCHANGED <<states, present>>
    BY DEF ReportUpdated
  <1>4. /\ StatesStand' /\ Grown
        /\ g \in DOMAIN states'[present'[ArcadeOf[g]]].rows
        /\ states'[present'[ArcadeOf[g]]].rows[g].version = campaign.to
    BY <1>1, <1>2, <1>3, Shifts DEF CampaignsInv
  <1>5. /\ UpdatedPay(u, g, bypass) /\ Report(u, g, "updated", bypass)
        /\ campaign' = campaign /\ listed' = listed /\ day' = day /\ day \in Nat
    BY DEF ReportUpdated, CampaignsInv, RestStands
  <1>6. /\ ReportsStand'
        /\ \E row \in ReportRow :
             /\ Adds(reports, reports', row) /\ reports' = Append(reports, row)
             /\ row.user = u /\ row.game = g /\ row.result = "updated"
             /\ row.verified <=> ~bypass
             /\ row.state = present'[ArcadeOf[g]]
    BY <1>4, <1>5, ReportKeeps DEF CampaignsInv
  <1>7. PICK row \in ReportRow :
             /\ Adds(reports, reports', row) /\ reports' = Append(reports, row)
             /\ row.user = u /\ row.game = g /\ row.result = "updated"
             /\ row.verified <=> ~bypass
             /\ row.state = present'[ArcadeOf[g]]
    BY <1>6
  <1>9. Described(g, "updated", campaign.to)
    BY <1>4, <1>7 DEF Described
  <1> DEFINE kind == <<"campaign", g>>
             log == purse.log
             new == purse'.log
             i == LatestOf(u, g)
             diff == IF bypass THEN BypassReward ELSE campaign.reward
  <1>10. OnceEach(log) /\ OldPaid(log, reports) /\ NewPaid(log, reports) /\ FullyPaid(log, reports)
    BY DEF CampaignsInv, PurseStands
  <1>11. /\ \A k : \A v \in Named : Granted(new, v, k) <=> Granted(log, v, k) \/ (v = u /\ k = kind)
         /\ OnceEach(new)
         /\ \A e \in new :
              \/ e \in log
              \/ e.user = u /\ e.kind = kind /\ ~ Granted(log, u, kind) /\ e.diff = diff
    <2>1. CASE i # 0 /\ reports[i].result = "updated"
      <3>1. purse' = purse
        BY <1>5, <2>1 DEF UpdatedPay
      <3>2. i \in Says(reports, u, g, "updated")
        <4> DEFINE n == Len(reports)
                   S == {j \in DOMAIN reports : reports[j].user = u /\ reports[j].game = g}
        <4>1. DOMAIN reports = 1..n /\ n \in Nat
          BY DEF CampaignsInv, ReportsStand
        <4>2. i = LastOf(S)
          BY LatestOfIs
        <4>3. S \subseteq 1..n
          BY <4>1
        <4> HIDE DEF S, i, n
        <4>4. i \in S
          BY <2>1, <4>1, <4>2, <4>3, LastOfIs
        <4> QED
          BY <2>1, <4>4, Zenon DEF Says, S
      <3>3. u \in Named => Granted(log, u, kind)
        BY <1>10, <3>2, Zenon DEF NewPaid
      <3>4. new = log
        BY <3>1
      <3> HIDE DEF kind, log, new, i, diff
      <3>5. \A k : \A v \in Named : Granted(new, v, k) <=> Granted(log, v, k) \/ (v = u /\ k = kind)
        BY <3>3, <3>4, Zenon
      <3> QED
        BY <1>10, <3>4, <3>5, Zenon
    <2>2. CASE ~(i # 0 /\ reports[i].result = "updated")
      <3>1. purse' = Award(purse, u, kind, diff, day)
        BY <1>5, <2>2 DEF UpdatedPay
      <3>2. diff # 0
        BY <1>1 DEF BypassReward
      <3> DEFINE y == Award(purse, u, kind, diff, day)
      <3> HIDE DEF kind, diff
      <3>3. Grants(purse.log, y.log, u, kind, diff)
        BY <3>2, AwardGrants
      <3>4. y.log = new
        BY <3>1
      <3> HIDE DEF y, log, new, i
      <3>5. Grants(log, new, u, kind, diff)
        BY <3>3, <3>4 DEF log
      <3> QED
        BY <1>10, <3>5, Zenon DEF Grants
    <2> QED
      BY <2>1, <2>2
  <1>12. ~bypass => row.verified
    BY <1>7, Zenon
  <1>13. diff > BypassReward => row.verified
    <2>1. diff > BypassReward => ~bypass
      BY DEF BypassReward
    <2> QED
      BY <1>12, <2>1, Zenon
  <1>14. PurseStands'
    <2> HIDE DEF log, new, i, diff
    <2>1. row.user = u /\ row.result = "updated" /\ kind = <<"campaign", row.game>>
      BY <1>7
    <2> HIDE DEF kind
    <2>2. \A k : \A v \in Named : Granted(new, v, k) <=>
            Granted(log, v, k) \/ (v = row.user /\ k = <<"campaign", row.game>>)
      BY <1>11, <2>1, Zenon
    <2>3. \A e \in new :
            \/ e \in log
            \/ /\ e.user = row.user /\ e.kind = <<"campaign", row.game>>
               /\ ~ Granted(log, row.user, <<"campaign", row.game>>)
               /\ e.diff > BypassReward => row.verified
      BY <1>11, <1>13, <2>1, Zenon
    <2>4. NewPaid(new, reports') /\ FullyPaid(new, reports')
      BY <1>7, <1>10, <2>1, <2>2, <2>3, NewPaidMore
    <2>5. \A v \in Named, h \in Games :
            Granted(new, v, <<"campaign-still-old", h>>) <=> Granted(log, v, <<"campaign-still-old", h>>)
      BY <1>11, KindsDiffer, Zenon DEF kind
    <2>6. OldPaid(new, reports')
      BY <1>7, <1>10, <2>1, <2>5, OldPaidStays
    <2> QED
      BY <1>11, <2>4, <2>6 DEF PurseStands, new
  <1>15. CampaignStands' /\ RestStands'
    BY <1>5 DEF CampaignsInv, CampaignStands, RestStands, Valid, NoCampaign
  <1> QED
    BY <1>4, <1>6, <1>9, <1>14, <1>15 DEF CampaignsInv

-------------------------------------------------------------------------------
(* Every step.                                                             *)

(* Reports and rewards stay while no state is changed.                     *)
LEMMA QuietKeeps ==
    ASSUME CampaignsInv, StatesStand', Grown, UNCHANGED <<reports, purse>>,
           day' \in 0..EndOfTime, day <= day', listed' \subseteq Halls, CampaignStands'
    PROVE  CampaignsInv'
  <1>1. ReportsStand'
    <2>1. \A i \in DOMAIN reports : reports[i].at \in Nat /\ reports[i].at <= day
      <3>1. reports \in Seq(ReportRow) /\ \A i \in DOMAIN reports : reports[i].at <= day
        BY DEF CampaignsInv, ReportsStand
      <3>2. \A row \in ReportRow : row.at \in Nat
        BY DEF ReportRow
      <3>3. \A i \in DOMAIN reports : reports[i] \in ReportRow
        BY <3>1
      <3> QED
        BY <3>1, <3>2, <3>3, Zenon
    <2>2. day \in Nat /\ day' \in Nat
      BY DEF CampaignsInv, RestStands
    <2>3. \A i \in DOMAIN reports : reports[i].at <= day'
      <3> TAKE i \in DOMAIN reports
      <3>1. ASSUME NEW t \in Nat, t <= day PROVE t <= day'
        BY ONLY <3>1, <2>2, day <= day'
      <3> QED
        BY <2>1, <3>1
    <2> QED
      BY <2>3 DEF CampaignsInv, ReportsStand, Grown
  <1>2. PurseStands'
    BY DEF CampaignsInv, PurseStands
  <1> QED
    BY <1>1, <1>2 DEF CampaignsInv, RestStands

LEMMA SavedStands ==
    ASSUME CampaignsInv, NEW b \in Bodies, Save(b)
    PROVE  CampaignStands'
  BY DEF Save, CampaignStands, Valid, NoCampaign

LEMMA EndedStands ==
    ASSUME CampaignsInv, EndCampaign
    PROVE  CampaignStands'
  <1> DEFINE b == [campaign EXCEPT !.status = "ended"]
  <1>1. campaign \in CampaignBody /\ Valid(campaign)
    BY DEF EndCampaign, CampaignsInv, CampaignStands
  <1>2. b \in CampaignBody
    BY <1>1 DEF CampaignBody
  <1>3. /\ b.reward = campaign.reward /\ b.from = campaign.from /\ b.to = campaign.to
        /\ b.start = campaign.start /\ b.end = campaign.end
        /\ b.cabinetScope = campaign.cabinetScope /\ b.cabinets = campaign.cabinets
        /\ b.countryScope = campaign.countryScope /\ b.countries = campaign.countries
    BY <1>1 DEF CampaignBody
  <1>4. Valid(b)
    <2> HIDE DEF b
    <2> QED
      BY <1>1, <1>3 DEF Valid
  <1>5. campaign' = b
    BY DEF EndCampaign
  <1>6. Valid(campaign') = Valid(b)
    BY <1>5
  <1>7. (CampaignStands)' <=> campaign' = NoCampaign' \/ (campaign' \in CampaignBody /\ Valid(campaign'))
    BY DEF CampaignStands, NoCampaign, Valid
  <1> HIDE DEF b
  <1> QED
    BY <1>2, <1>4, <1>5, <1>6, <1>7

LEMMA SameStates ==
    ASSUME StatesStand, UNCHANGED <<states, present>>
    PROVE  StatesStand' /\ Grown
  BY DEF StatesStand, Grown

LEMMA CampaignsStep ==
    ASSUME CampaignsInv, [CampaignsNext]_campaignVars
    PROVE  CampaignsInv' /\ Grown
  <1>1. /\ StatesStand /\ CampaignStands /\ listed \subseteq Halls
        /\ day \in 0..EndOfTime /\ day <= day
    BY DEF CampaignsInv, RestStands
  <1>2. ASSUME UNCHANGED <<states, present, reports, purse, day>>, listed' \subseteq Halls, CampaignStands'
        PROVE  CampaignsInv' /\ Grown
    BY <1>1, <1>2, QuietKeeps, SameStates
  <1>3. campaign' = campaign => CampaignStands'
    BY <1>1 DEF CampaignStands, NoCampaign, Valid
  <1>4. ASSUME NEW b \in Bodies, Save(b) PROVE CampaignsInv' /\ Grown
    BY <1>1, <1>2, <1>4, SavedStands DEF Save
  <1>5. CASE EndCampaign
    BY <1>1, <1>2, <1>5, EndedStands DEF EndCampaign
  <1>6. ASSUME NEW u \in Users, NEW g \in Games, NEW bypass \in BOOLEAN,
               ReportStillOld(u, g, bypass) \/ ReportUpdated(u, g, bypass)
        PROVE  CampaignsInv' /\ Grown
    BY <1>6, StillOldKeeps, UpdatedKeeps
  <1>7. ASSUME NEW u \in Users, NEW a \in Halls, VisitHall(u, a) PROVE CampaignsInv' /\ Grown
    BY <1>1, <1>2, <1>3, <1>7 DEF VisitHall
  <1>8. ASSUME NEW g \in Games, RemoveGame(g) \/ \E p \in Supports : EditGame(g, p[1], p[2])
        PROVE  CampaignsInv' /\ Grown
    <2>1. StatesStand' /\ Grown
      BY <1>1, <1>8, EditKeeps
    <2>2. UNCHANGED <<campaign, listed, reports, purse, day>>
      BY <1>8 DEF RemoveGame, EditGame
    <2> QED
      BY <1>1, <1>3, <2>1, <2>2, QuietKeeps
  <1>9. ASSUME NEW a \in Halls, SetListed(a) PROVE CampaignsInv' /\ Grown
    BY <1>1, <1>2, <1>3, <1>9 DEF SetListed
  <1>10. CASE NextDay
    <2>1. day' \in 0..EndOfTime /\ day <= day' /\ UNCHANGED <<campaign, states, present, listed, reports, purse>>
      BY <1>1, <1>10 DEF NextDay
    <2> QED
      BY <1>1, <1>3, <2>1, QuietKeeps, SameStates
  <1>11. CASE UNCHANGED campaignVars
    BY <1>1, <1>2, <1>3, <1>11 DEF campaignVars
  <1>12. \/ \E b \in Bodies : Save(b)
         \/ EndCampaign
         \/ \E u \in Users, g \in Games, bypass \in BOOLEAN :
               ReportStillOld(u, g, bypass) \/ ReportUpdated(u, g, bypass)
         \/ \E u \in Users, a \in Halls : VisitHall(u, a)
         \/ \E g \in Games : RemoveGame(g) \/ \E p \in Supports : EditGame(g, p[1], p[2])
         \/ \E a \in Halls : SetListed(a)
         \/ NextDay
         \/ UNCHANGED campaignVars
    BY Zenon DEF CampaignsNext, CreateCampaign, UpdateCampaign
  <1> QED
    BY <1>4, <1>5, <1>6, <1>7, <1>8, <1>9, <1>10, <1>11, <1>12, Zenon

THEOREM CampaignsKeep == CampaignsSpec => []CampaignsInv
  <1>1. CampaignsInit => CampaignsInv
    BY CampaignsInitial
  <1>2. CampaignsInv /\ [CampaignsNext]_campaignVars => CampaignsInv'
    BY CampaignsStep
  <1> QED
    BY <1>1, <1>2, PTL DEF CampaignsSpec

-------------------------------------------------------------------------------
(* Rewards follow from reports.                                            *)

LEMMA CampaignsTyped ==
    ASSUME CampaignsInv
    PROVE  CampaignsTypeOK
  <1>1. StatesStand /\ ReportsStand /\ CampaignStands /\ RestStands
    BY DEF CampaignsInv
  <1>2. campaign = NoCampaign \/ campaign.status \in {"draft", "active", "ended"}
    BY <1>1 DEF CampaignStands, CampaignBody
  <1>3. \A a \in Halls : present[a] \in DOMAIN states /\ states[present[a]].arcade = a
    BY <1>1 DEF StatesStand
  <1>4. ASSUME NEW i \in DOMAIN states, NEW g \in DOMAIN states[i].rows
        PROVE  /\ ArcadeOf[g] = states[i].arcade
               /\ Supported(states[i].rows[g].version, states[i].rows[g].cabinet)
    <2>1. states[i] \in HallState
      BY <1>1 DEF StatesStand
    <2>2. PICK S \in SUBSET At(states[i].arcade) : states[i].rows \in [S -> GoodRow]
      BY <2>1, StateIs
    <2>3. g \in At(states[i].arcade) /\ states[i].rows[g] \in GoodRow
      BY <2>2
    <2> QED
      BY <2>3 DEF At, GoodRow
  <1>5. ASSUME NEW i \in DOMAIN reports
        PROVE  /\ reports[i].state \in DOMAIN states
               /\ reports[i].game \in DOMAIN states[reports[i].state].rows
               /\ reports[i].at \in 0..day
    <2>1. reports[i] \in ReportRow /\ reports[i].at <= day
      BY <1>1 DEF ReportsStand
    <2>2. reports[i].at \in Nat
      BY <2>1 DEF ReportRow
    <2>3. reports[i].at \in 0..day
      BY <1>1, <2>1, <2>2 DEF RestStands
    <2> QED
      BY <1>1, <2>3 DEF ReportsStand
  <1>6. listed \subseteq Halls /\ day \in 0..EndOfTime
    BY <1>1 DEF RestStands
  <1> QED
    BY <1>2, <1>3, <1>4, <1>5, <1>6, Zenon DEF CampaignsTypeOK

GrantsOf(log, u, kind) == {e \in log : e.user = u /\ e.kind = kind}

LEMMA CountGrants ==
    ASSUME NEW log, OnceEach(log), NEW u, NEW kind
    PROVE  Cardinality(GrantsOf(log, u, kind)) = IF Granted(log, u, kind) THEN 1 ELSE 0
  <1> DEFINE E == {e \in log : e.user = u /\ e.kind = kind}
  <1>1. CASE Granted(log, u, kind)
    <2>1. PICK e \in log : e.user = u /\ e.kind = kind
      BY <1>1 DEF Granted
    <2>2. E = {e}
      BY <2>1 DEF OnceEach
    <2>3. Cardinality({e}) = 1
      BY FS_Singleton
    <2> QED
      BY <1>1, <2>2, <2>3 DEF GrantsOf
  <1>2. CASE ~ Granted(log, u, kind)
    <2>1. E = {}
      BY <1>2 DEF Granted
    <2>2. Cardinality(E) = 0
      BY <2>1, FS_EmptySet
    <2> QED
      BY <1>2, <2>2 DEF GrantsOf
  <1> QED
    BY <1>1, <1>2

(* A set of numbers from 1 has a least one.                                *)
LEMMA Least ==
    ASSUME NEW n \in Nat, NEW S, S \subseteq 1..n, S # {}
    PROVE  \E i \in S : \A j \in S : i <= j
  <1> DEFINE B == {b \in 1..n : (n + 1) - b \in S}
  <1>1. B \subseteq 1..n /\ B # {}
    <2>1. PICK i \in S : i \in 1..n
      OBVIOUS
    <2>2. (n + 1) - i \in 1..n /\ (n + 1) - ((n + 1) - i) = i
      BY <2>1
    <2> QED
      BY <2>1, <2>2
  <1> HIDE DEF B
  <1>2. Max(B) \in B /\ \A b \in B : b <= Max(B)
    BY <1>1, Greatest
  <1>3. PICK m \in B : \A b \in B : b <= m
    BY <1>2
  <1>4. m \in 1..n /\ (n + 1) - m \in S
    BY <1>3 DEF B
  <1>5. ASSUME NEW j \in S PROVE (n + 1) - m <= j
    <2>1. j \in 1..n /\ (n + 1) - j \in 1..n /\ (n + 1) - ((n + 1) - j) = j
      OBVIOUS
    <2>2. (n + 1) - j \in B
      BY <2>1 DEF B
    <2>3. (n + 1) - j <= m
      BY <1>3, <2>2
    <2> QED
      BY <1>4, <2>1, <2>3
  <1> QED
    BY <1>4, <1>5

LEMMA FirstIs ==
    ASSUME NEW S, S \subseteq Int, NEW i \in S, \A j \in S : i <= j
    PROVE  Min(S) = i
  <1>1. Min(S) \in S /\ \A y \in S : Min(S) <= y
    BY DEF Min
  <1>2. PICK x \in S : x = Min(S)
    BY <1>1
  <1>3. x \in Int /\ i \in Int /\ x <= i /\ i <= x
    BY <1>1, <1>2
  <1>4. x = i
    BY ONLY <1>3
  <1> QED
    BY <1>2, <1>4

LEMMA CampaignRewards ==
    ASSUME CampaignsInv
    PROVE  RewardsAreEarned
  <1>1. /\ OnceEach(purse.log) /\ OldPaid(purse.log, reports)
        /\ NewPaid(purse.log, reports) /\ FullyPaid(purse.log, reports)
    BY DEF CampaignsInv, PurseStands
  <1>2. ASSUME NEW u \in Named, NEW g \in Games
        PROVE  /\ Cardinality(GrantsOf(purse.log, u, <<"campaign-still-old", g>>)) =
                    IF \E i \in Says(reports, u, g, "still_old") : reports[i].verified THEN 1 ELSE 0
               /\ Cardinality(GrantsOf(purse.log, u, <<"campaign", g>>)) =
                    IF Says(reports, u, g, "updated") = {} THEN 0 ELSE 1
               /\ \A e \in GrantsOf(purse.log, u, <<"campaign", g>>) :
                    e.diff > BypassReward => reports[Min(Says(reports, u, g, "updated"))].verified
    <2>1. /\ Cardinality(GrantsOf(purse.log, u, <<"campaign-still-old", g>>)) =
               IF Granted(purse.log, u, <<"campaign-still-old", g>>) THEN 1 ELSE 0
          /\ Cardinality(GrantsOf(purse.log, u, <<"campaign", g>>)) =
               IF Granted(purse.log, u, <<"campaign", g>>) THEN 1 ELSE 0
      BY <1>1, CountGrants
    <2>2. /\ Granted(purse.log, u, <<"campaign-still-old", g>>) <=>
               \E i \in Says(reports, u, g, "still_old") : reports[i].verified
          /\ Granted(purse.log, u, <<"campaign", g>>) <=> Says(reports, u, g, "updated") # {}
      BY <1>1, Zenon DEF OldPaid, NewPaid
    <2>3. ASSUME NEW e \in purse.log, e.user = u, e.kind = <<"campaign", g>>, e.diff > BypassReward
          PROVE  reports[Min(Says(reports, u, g, "updated"))].verified
      <3> DEFINE S == Says(reports, u, g, "updated")
      <3>1. PICK i \in S : reports[i].verified /\ \A j \in S : i <= j
        BY <1>1, <2>3, Zenon DEF FullyPaid
      <3>2. S \subseteq Int
        BY DEF Says, CampaignsInv, ReportsStand
      <3> HIDE DEF S
      <3>3. Min(S) = i
        BY <3>1, <3>2, FirstIs
      <3> QED
        BY <3>1, <3>3, Zenon DEF S
    <2>4. \A e \in GrantsOf(purse.log, u, <<"campaign", g>>) :
            e.diff > BypassReward => reports[Min(Says(reports, u, g, "updated"))].verified
      BY <2>3, Zenon DEF GrantsOf
    <2>5. /\ Cardinality(GrantsOf(purse.log, u, <<"campaign-still-old", g>>)) =
               IF \E i \in Says(reports, u, g, "still_old") : reports[i].verified THEN 1 ELSE 0
          /\ Cardinality(GrantsOf(purse.log, u, <<"campaign", g>>)) =
               IF Says(reports, u, g, "updated") = {} THEN 0 ELSE 1
      BY <2>1, <2>2
    <2> QED
      BY <2>4, <2>5
  <1> QED
    BY <1>2, Zenon DEF RewardsAreEarned, Says, GrantsOf

-------------------------------------------------------------------------------
(* What a step may never do.                                               *)

\* No report, or one that fits the state it leaves.
Reporting ==
    \/ reports' = reports
    \/ \E g \in Games :
          \/ Described(g, "updated", campaign.to)
          \/ Described(g, "still_old", campaign.from) /\ (RowOf(g).version = campaign.to => present' # present)

LEMMA StillOldMoves ==
    ASSUME CampaignsInv, NEW u \in Users, NEW g \in Games, NEW bypass \in BOOLEAN,
           ReportStillOld(u, g, bypass), RowOf(g).version = campaign.to
    PROVE  present' # present
  <1>1. StatesStand /\ CampaignStands /\ Active /\ Installed(g) /\ ArcadeOf[g] \in Halls
    BY HallsAre DEF CampaignsInv, ReportStillOld, Admitted, Target
  <1>2. CanMove(g, campaign.from) /\ MoveTo(ArcadeOf[g], Moved(g, campaign.from))
    BY DEF ReportStillOld
  <1>3. campaign.from \in VersionIds
    BY <1>1, ActiveCampaign
  <1>4. Moved(g, campaign.from) \in HallRows(ArcadeOf[g])
    BY <1>1, <1>2, <1>3, MovedRows
  <1>5. present'[ArcadeOf[g]] \notin DOMAIN states
    BY <1>1, <1>2, <1>4, MoveKeeps
  <1>6. present[ArcadeOf[g]] \in DOMAIN states
    BY <1>1, RowsAre
  <1> QED
    BY <1>5, <1>6

LEMMA StepReports ==
    ASSUME CampaignsInv, [CampaignsNext]_campaignVars
    PROVE  Reporting /\ day <= day' /\ day \in Nat /\ day' \in Nat
  <1>1. day \in Nat
    BY DEF CampaignsInv, RestStands
  <1>2. CASE UNCHANGED <<reports, day>>
    BY <1>1, <1>2 DEF Reporting
  <1>3. ASSUME NEW u \in Users, NEW g \in Games, NEW bypass \in BOOLEAN, ReportStillOld(u, g, bypass)
        PROVE  Reporting /\ day' = day
    <2>1. Described(g, "still_old", campaign.from)
      BY <1>3, StillOldKeeps
    <2>2. RowOf(g).version = campaign.to => present' # present
      BY <1>3, StillOldMoves
    <2> QED
      BY <1>3, <2>1, <2>2, Zenon DEF Reporting, ReportStillOld
  <1>4. ASSUME NEW u \in Users, NEW g \in Games, NEW bypass \in BOOLEAN, ReportUpdated(u, g, bypass)
        PROVE  Reporting /\ day' = day
    <2>1. Described(g, "updated", campaign.to)
      BY <1>4, UpdatedKeeps
    <2> QED
      BY <1>4, <2>1, Zenon DEF Reporting, ReportUpdated
  <1>5. CASE NextDay
    BY <1>1, <1>5 DEF NextDay, Reporting
  <1>6. \/ UNCHANGED <<reports, day>>
        \/ NextDay
        \/ \E u \in Users, g \in Games, bypass \in BOOLEAN :
              ReportStillOld(u, g, bypass) \/ ReportUpdated(u, g, bypass)
    BY Zenon DEF CampaignsNext, campaignVars, CreateCampaign, UpdateCampaign, Save, EndCampaign, VisitHall,
                 RemoveGame, EditGame, SetListed
  <1> QED
    BY <1>1, <1>2, <1>3, <1>4, <1>5, <1>6

LEMMA ReportDescribes ==
    ASSUME CampaignsInv, [CampaignsNext]_campaignVars, Len(reports') > Len(reports)
    PROVE  LET r == reports'[Len(reports')] IN
           /\ r.state = present'[ArcadeOf[r.game]]
           /\ states'[r.state].rows[r.game].version =
                IF r.result = "updated" THEN campaign.to ELSE campaign.from
  <1>1. reports \in Seq(ReportRow)
    BY DEF CampaignsInv, ReportsStand
  <1>2. reports' # reports
    <2>1. Len(reports) \in Nat
      BY <1>1
    <2> QED
      BY <2>1
  <1>3. ASSUME NEW row \in ReportRow, reports' = Append(reports, row)
        PROVE  reports'[Len(reports')] = row
    BY <1>1, <1>3
  <1>4. PICK g \in Games : \/ Described(g, "updated", campaign.to)
                           \/ Described(g, "still_old", campaign.from)
    BY <1>2, StepReports, Zenon DEF Reporting
  <1>5. CASE Described(g, "updated", campaign.to)
    <2>1. PICK row \in ReportRow :
             /\ reports' = Append(reports, row)
             /\ row.game = g /\ row.result = "updated" /\ row.state = present'[ArcadeOf[g]]
             /\ states'[row.state].rows[g].version = campaign.to
      BY <1>5 DEF Described
    <2> QED
      BY <1>3, <2>1
  <1>6. CASE Described(g, "still_old", campaign.from)
    <2>1. PICK row \in ReportRow :
             /\ reports' = Append(reports, row)
             /\ row.game = g /\ row.result = "still_old" /\ row.state = present'[ArcadeOf[g]]
             /\ states'[row.state].rows[g].version = campaign.from
      BY <1>6 DEF Described
    <2> QED
      BY <1>3, <2>1
  <1> QED
    BY <1>4, <1>5, <1>6

-------------------------------------------------------------------------------
(* The review of an updated machine.                                       *)

Weight(row) == IF row.verified THEN 2 ELSE 1
Weights(rs) == [i \in DOMAIN rs |-> Weight(rs[i])]
Weighs(rs, S) == MapThenSumSet(LAMBDA i : IF rs[i].verified THEN 2 ELSE 1, S)

SinceOf(rs, g) ==
    {i \in DOMAIN rs :
        /\ rs[i].game = g /\ rs[i].result = "updated"
        /\ i > LastOf({j \in DOMAIN rs : rs[j].game = g /\ rs[j].result = "still_old"})}

LEMMA WeighsIsSum ==
    ASSUME NEW rs, NEW E, E \subseteq DOMAIN rs
    PROVE  Weighs(rs, E) = SumOver(Weights(rs), E)
  <1> DEFINE F       == Weights(rs)
             P(s, f) == IF s = {} THEN 0 ELSE (IF rs[Choice(s)].verified THEN 2 ELSE 1) + f[s \ {Choice(s)}]
             Q(s, f) == IF s = {} THEN 0 ELSE F[Choice(s)] + f[s \ {Choice(s)}]
  <1>1. ASSUME NEW f PROVE [s \in SUBSET E |-> P(s, f)] = [s \in SUBSET E |-> Q(s, f)]
    <2>1. ASSUME NEW s \in SUBSET E, s # {}
          PROVE  F[Choice(s)] = IF rs[Choice(s)].verified THEN 2 ELSE 1
      <3>1. Choice(s) \in E
        BY <2>1 DEF Choice
      <3> QED
        BY <3>1 DEF Weights, Weight
    <2>2. ASSUME NEW s \in SUBSET E PROVE P(s, f) = Q(s, f)
      <3> HIDE DEF F
      <3> QED
        BY <2>1
    <2> HIDE DEF P, Q
    <2> QED
      BY <2>2
  <1>2. Weighs(rs, E) = (CHOOSE f : f = [s \in SUBSET E |-> P(s, f)])[E]
    BY Zenon DEF Weighs, MapThenSumSet, MapThenFoldSet, Choice
  <1>3. SumOver(F, E) = (CHOOSE f : f = [s \in SUBSET E |-> Q(s, f)])[E]
    BY Zenon DEF SumOver, MapThenSumSet, MapThenFoldSet, Choice
  <1>4. (CHOOSE f : f = [s \in SUBSET E |-> P(s, f)]) = (CHOOSE f : f = [s \in SUBSET E |-> Q(s, f)])
    <2>1. \A f : f = [s \in SUBSET E |-> P(s, f)] <=> f = [s \in SUBSET E |-> Q(s, f)]
      <3> HIDE DEF P, Q
      <3> QED
        BY <1>1
    <2> HIDE DEF P, Q
    <2> QED
      BY <2>1, Zenon
  <1> QED
    BY <1>2, <1>3, <1>4

LEMMA UnderReviewIs ==
    ASSUME NEW g
    PROVE  UnderReview(g) <=>
             /\ Updated(g) /\ SinceOf(reports, g) # {}
             /\ reports[Min(SinceOf(reports, g))].at + Window > day
             /\ Weighs(reports, SinceOf(reports, g)) < 2
  BY Zenon DEF UnderReview, Since, SinceOf, Weighs, LatestFor, Latest, LastOf

LEMMA UnderReviewNext ==
    ASSUME NEW g, UnderReview(g)'
    PROVE  /\ reports'[Min(SinceOf(reports', g))].at + Window > day'
           /\ Weighs(reports', SinceOf(reports', g)) < 2
  <1>1. UnderReview(g)' =>
          /\ reports'[Min(SinceOf(reports', g))].at + Window > day'
          /\ Weighs(reports', SinceOf(reports', g)) < 2
    BY Zenon DEF UnderReview, Since, SinceOf, Weighs, LatestFor, Latest, LastOf, MapThenSumSet, MapThenFoldSet,
                 Min, Max
  <1> QED
    BY <1>1

LEMMA SinceIs ==
    ASSUME NEW g
    PROVE  Since(g) = SinceOf(reports, g)
  BY Zenon DEF Since, SinceOf, LatestFor, Latest, LastOf

\* What a report that is not a wrong one adds to the reports in question.
LEMMA SinceGrows ==
    ASSUME NEW rs \in Seq(ReportRow), NEW ss \in Seq(ReportRow), NEW row \in ReportRow, Adds(rs, ss, row),
           NEW g, row.game # g \/ row.result = "updated"
    PROVE  /\ SinceOf(rs, g) \subseteq SinceOf(ss, g)
           /\ SinceOf(ss, g) \subseteq SinceOf(rs, g) \cup {Len(rs) + 1}
           /\ \A i \in SinceOf(rs, g) : ss[i] = rs[i] /\ i <= Len(rs) + 1
  <1> DEFINE n    == Len(rs) + 1
             A    == {j \in DOMAIN rs : rs[j].game = g /\ rs[j].result = "still_old"}
             B    == {j \in DOMAIN ss : ss[j].game = g /\ ss[j].result = "still_old"}
  <1>1. /\ DOMAIN ss = DOMAIN rs \cup {n} /\ ss[n] = row
        /\ \A i \in DOMAIN rs : ss[i] = rs[i] /\ i <= n
    BY Zenon DEF Adds
  <1>2. "still_old" # "updated"
    OBVIOUS
  <1>3. \A j : j \in B <=> j \in A
    <2> HIDE DEF n
    <2> QED
      BY <1>1, <1>2, Zenon
  <1>4. A = B
    <2> HIDE DEF A, B
    <2> QED
      BY <1>3
  <1>5. /\ SinceOf(rs, g) = {i \in DOMAIN rs : rs[i].game = g /\ rs[i].result = "updated" /\ i > LastOf(A)}
        /\ SinceOf(ss, g) = {i \in DOMAIN ss : ss[i].game = g /\ ss[i].result = "updated" /\ i > LastOf(B)}
    BY Zenon DEF SinceOf
  <1> HIDE DEF A, B, n
  <1>6. \A i \in SinceOf(rs, g) : i \in SinceOf(ss, g) /\ ss[i] = rs[i] /\ i <= n
    BY <1>1, <1>4, <1>5, Zenon
  <1>7. \A i \in SinceOf(ss, g) : i \in SinceOf(rs, g) \/ i = n
    BY <1>1, <1>4, <1>5, Zenon
  <1> QED
    BY <1>6, <1>7 DEF n

LEMMA ReviewGoesOn ==
    ASSUME NEW rs \in Seq(ReportRow), NEW ss \in Seq(ReportRow),
           NEW g, SinceOf(rs, g) # {}, SinceOf(rs, g) \subseteq SinceOf(ss, g),
           \A i \in SinceOf(rs, g) : ss[i] = rs[i],
           \A i \in SinceOf(rs, g), j \in SinceOf(ss, g) : j \in SinceOf(rs, g) \/ i <= j
    PROVE  /\ ss[Min(SinceOf(ss, g))] = rs[Min(SinceOf(rs, g))]
           /\ Min(SinceOf(rs, g)) \in DOMAIN rs
           /\ Weighs(rs, SinceOf(rs, g)) \in Int /\ Weighs(ss, SinceOf(ss, g)) \in Int
           /\ Weighs(rs, SinceOf(rs, g)) <= Weighs(ss, SinceOf(ss, g))
  <1> DEFINE S == SinceOf(rs, g)
             T == SinceOf(ss, g)
             n == Len(rs)
             m == Len(ss)
  <1>1. S \subseteq DOMAIN rs /\ T \subseteq DOMAIN ss
    BY Zenon DEF SinceOf
  <1>2. DOMAIN rs = 1..n /\ n \in Nat /\ DOMAIN ss = 1..m /\ m \in Nat
    OBVIOUS
  <1>3. S # {} /\ S \subseteq T /\ \A i \in S : ss[i] = rs[i]
    OBVIOUS
  <1>4. \A i \in S, j \in T : j \in S \/ i <= j
    OBVIOUS
  <1> HIDE DEF S, T, n, m
  <1>5. PICK i \in S : \A j \in S : i <= j
    BY <1>1, <1>2, <1>3, Least
  <1>6. \A j \in T : i <= j
    BY <1>4, <1>5
  <1>7. S \subseteq Int /\ T \subseteq Int /\ i \in T
    BY <1>1, <1>2, <1>3
  <1>8. Min(S) = i /\ Min(T) = i
    BY <1>5, <1>6, <1>7, FirstIs
  <1>9. IsFiniteSet(T)
    <2>1. IsFiniteSet(1..m)
      BY ONLY <1>2, FS_Interval
    <2> QED
      BY <1>1, <1>2, <2>1, FS_Subset
  <1>10. IsFiniteSet(S)
    BY <1>3, <1>9, FS_Subset
  <1>11. \A j \in T : Weights(ss)[j] \in Int /\ Weights(ss)[j] >= 0
    BY <1>1 DEF Weights, Weight
  <1>12. \A j \in S : Weights(rs)[j] = Weights(ss)[j]
    BY <1>1, <1>3 DEF Weights
  <1>13. Summable(Weights(ss), T) /\ Summable(Weights(ss), S)
    BY <1>3, <1>9, <1>10, <1>11 DEF Summable
  <1>14. SumOver(Weights(rs), S) = SumOver(Weights(ss), S)
    BY <1>10, <1>12, SumSame
  <1>15. SumOver(Weights(ss), S) <= SumOver(Weights(ss), T)
    BY <1>3, <1>11, <1>13, SumMonotone
  <1>16. SumOver(Weights(ss), S) \in Int /\ SumOver(Weights(ss), T) \in Int
    BY <1>13, SumType
  <1>17. Weighs(rs, S) = SumOver(Weights(rs), S) /\ Weighs(ss, T) = SumOver(Weights(ss), T)
    BY <1>1, WeighsIsSum
  <1>18. ss[Min(T)] = rs[Min(S)] /\ Min(S) \in DOMAIN rs
    BY <1>1, <1>3, <1>8
  <1> QED
    BY <1>14, <1>15, <1>16, <1>17, <1>18 DEF S, T

LEMMA ReviewIsOver ==
    ASSUME CampaignsInv, [CampaignsNext]_campaignVars, NEW g \in Games,
           campaign' = campaign, present' = present,
           Updated(g), Since(g) # {}, ~ UnderReview(g)
    PROVE  ~ UnderReview(g)'
  <1> SUFFICES ASSUME UnderReview(g)' PROVE FALSE
    OBVIOUS
  <1> DEFINE S == SinceOf(reports, g)
             T == SinceOf(reports', g)
  <1>1. reports \in Seq(ReportRow) /\ reports' \in Seq(ReportRow)
    BY CampaignsStep DEF CampaignsInv, ReportsStand
  <1>2. /\ S # {} /\ S \subseteq T
        /\ \A i \in S : reports'[i] = reports[i]
        /\ \A i \in S, j \in T : j \in S \/ i <= j
    <2>1. S # {}
      BY SinceIs
    <2>2. CASE reports' = reports
      BY <2>1, <2>2, Zenon
    <2>3. ASSUME NEW row \in ReportRow, Adds(reports, reports', row), row.game # g \/ row.result = "updated"
          PROVE  /\ S \subseteq T
                 /\ \A i \in S : reports'[i] = reports[i]
                 /\ \A i \in S, j \in T : j \in S \/ i <= j
      <3>1. /\ S \subseteq T /\ T \subseteq S \cup {Len(reports) + 1}
            /\ \A i \in S : reports'[i] = reports[i] /\ i <= Len(reports) + 1
        BY <1>1, <2>3, SinceGrows
      <3> HIDE DEF S, T
      <3> QED
        BY <3>1
    <2>4. ASSUME NEW h \in Games, Described(h, "updated", campaign.to)
          PROVE  \E row \in ReportRow : Adds(reports, reports', row) /\ (row.game # g \/ row.result = "updated")
      BY <2>4, Zenon DEF Described
    <2>5. ASSUME NEW h \in Games, Described(h, "still_old", campaign.from), RowOf(h).version # campaign.to
          PROVE  \E row \in ReportRow : Adds(reports, reports', row) /\ (row.game # g \/ row.result = "updated")
      <3>1. h # g
        BY <2>5, Zenon DEF Updated, ListedAt
      <3> QED
        BY <2>5, <3>1, Zenon DEF Described
    <2>6. \/ reports' = reports
          \/ \E row \in ReportRow : Adds(reports, reports', row) /\ (row.game # g \/ row.result = "updated")
      BY <2>4, <2>5, StepReports, Zenon DEF Reporting
    <2> HIDE DEF S, T
    <2> QED
      BY <2>1, <2>2, <2>3, <2>6, Zenon
  <1>3. /\ reports'[Min(T)] = reports[Min(S)] /\ Min(S) \in DOMAIN reports
        /\ Weighs(reports, S) \in Int /\ Weighs(reports', T) \in Int
        /\ Weighs(reports, S) <= Weighs(reports', T)
    BY <1>1, <1>2, ReviewGoesOn
  <1>4. reports'[Min(T)].at + Window > day' /\ Weighs(reports', T) < 2
    BY UnderReviewNext
  <1>5. ~ (reports[Min(S)].at + Window > day /\ Weighs(reports, S) < 2)
    BY <1>2, UnderReviewIs
  <1> DEFINE t == reports[Min(S)].at
  <1>6. t \in Nat
    <2>1. reports[Min(S)] \in ReportRow
      <3> HIDE DEF S
      <3> QED
        BY <1>1, <1>3
    <2> QED
      BY <2>1 DEF ReportRow
  <1>7. t + Window > day' /\ ~ (t + Window > day /\ Weighs(reports, S) < 2)
    BY <1>3, <1>4, <1>5
  <1>8. day \in Nat /\ day' \in Nat /\ day <= day' /\ Window \in Nat
    BY StepReports
  <1> HIDE DEF t, S, T
  <1> QED
    BY ONLY <1>3, <1>4, <1>6, <1>7, <1>8

(* The pages of the campaign keep what was reported: a report is stored    *)
(* with the state it left its arcade in, and a question that was answered  *)
(* is not asked again (CheckCampaign, the review of the detail page).      *)
THEOREM StepsMeant == CampaignsSpec => StepsAreMeant
  <1> DEFINE Describes ==
               Len(reports') > Len(reports) =>
                 LET r == reports'[Len(reports')] IN
                 /\ r.state = present'[ArcadeOf[r.game]]
                 /\ states'[r.state].rows[r.game].version =
                      IF r.result = "updated" THEN campaign.to ELSE campaign.from
             Answered ==
               \A g \in Games :
                 /\ campaign # NoCampaign /\ campaign' = campaign /\ present' = present
                 /\ listed' = listed
                 /\ Updated(g) /\ Since(g) # {} /\ ~UnderReview(g)
                 => ~UnderReview(g)'
  <1>1. ASSUME CampaignsInv, [CampaignsNext]_campaignVars PROVE Describes
    BY <1>1, ReportDescribes
  <1>2. ASSUME CampaignsInv, [CampaignsNext]_campaignVars PROVE Answered
    BY <1>2, ReviewIsOver
  <1>3. CampaignsInv /\ [CampaignsNext]_campaignVars => Describes /\ Answered
    BY <1>1, <1>2
  <1> QED
    BY <1>3, CampaignsKeep, PTL DEF CampaignsSpec, StepsAreMeant, ReportsDescribeStates, ReviewEnds

-------------------------------------------------------------------------------
(* What users are invited to report.                                       *)

\* A game takes a version its cabinet runs: the other rows are supported already.
LEMMA MovesAre ==
    ASSUME StatesStand, NEW g \in Games, Installed(g), NEW v, Supported(v, RowOf(g).cabinet)
    PROVE  CanMove(g, v)
  <1> DEFINE rows == Rows(ArcadeOf[g])
             new == Moved(g, v)
  <1>1. PICK S \in SUBSET At(ArcadeOf[g]) : rows \in [S -> GoodRow]
    BY RowsAre, HallsAre
  <1>2. g \in S /\ rows[g] \in Row /\ Supported(v, rows[g].cabinet)
    BY <1>1 DEF Installed, GoodRow, RowOf
  <1>3. new = [rows EXCEPT ![g].version = v]
    BY DEF Moved
  <1> SUFFICES ASSUME NEW h \in DOMAIN new PROVE Supported(new[h].version, new[h].cabinet)
    BY DEF CanMove
  <1> HIDE DEF rows, new
  <1>4. h \in S
    BY <1>1, <1>3
  <1>5. CASE h = g
    <2>1. new[g].version = v /\ new[g].cabinet = rows[g].cabinet
      BY <1>1, <1>2, <1>3 DEF Row
    <2> QED
      BY <1>2, <1>5, <2>1
  <1>6. CASE h # g
    <2>1. new[h] = rows[h]
      BY <1>1, <1>3, <1>4, <1>6
    <2> QED
      BY <1>1, <1>4, <2>1 DEF GoodRow
  <1> QED
    BY <1>5, <1>6

LEMMA PendingHeard ==
    ASSUME StatesStand, CampaignStands, NEW g \in Games, NEW u, Pending(g)
    PROVE  Heard(g, "updated", u, TRUE) /\ ~ Updated(g)
  <1>1. /\ Active /\ ArcadeOf[g] \in listed /\ CountryMatches(ArcadeOf[g]) /\ Installed(g)
        /\ RowOf(g).version = campaign.from /\ InCabinets(RowOf(g).cabinet)
        /\ Supported(campaign.to, RowOf(g).cabinet)
    BY Zenon DEF Pending, ListedAt
  <1>2. CanMove(g, campaign.to)
    BY <1>1, MovesAre
  <1>3. Target(g)
    BY <1>1, Zenon DEF Target
  <1>4. Admitted(u, g, TRUE)
    BY <1>1, <1>3, Zenon DEF Admitted
  <1>5. Heard(g, "updated", u, TRUE)
    BY <1>2, <1>4 DEF Heard
  <1>6. campaign.from # campaign.to
    BY <1>1, ActiveCampaign
  <1> QED
    BY <1>1, <1>5, <1>6, Zenon DEF Updated, ListedAt

LEMMA UpdatedHeard ==
    ASSUME StatesStand, CampaignStands, NEW g \in Games, NEW u, Updated(g)
    PROVE  /\ Heard(g, "updated", u, TRUE)
           /\ CanRevert(g) /\ Supported(campaign.from, RowOf(g).cabinet) => Heard(g, "still_old", u, TRUE)
  <1>1. /\ Active /\ ArcadeOf[g] \in listed /\ CountryMatches(ArcadeOf[g]) /\ Installed(g)
        /\ RowOf(g).version = campaign.to /\ InCabinets(RowOf(g).cabinet)
    BY Zenon DEF Updated, ListedAt
  <1>2. campaign.from # campaign.to
    BY <1>1, ActiveCampaign
  <1>3. Target(g)
    BY <1>1, <1>2, Zenon DEF Target
  <1>4. Admitted(u, g, TRUE)
    BY <1>1, <1>3, Zenon DEF Admitted
  <1>5. Heard(g, "updated", u, TRUE)
    BY <1>1, <1>2, <1>4 DEF Heard
  <1>6. ASSUME CanRevert(g), Supported(campaign.from, RowOf(g).cabinet) PROVE Heard(g, "still_old", u, TRUE)
    <2>1. CanMove(g, campaign.from)
      BY <1>1, <1>6, MovesAre
    <2> QED
      BY <1>4, <1>6, <2>1 DEF Heard
  <1> QED
    BY <1>5, <1>6

\* A late enough report that a game has the new version allows a revert.
LEMMA RevertAllowed ==
    ASSUME ReportsStand, RestStands, NEW g, NEW i \in DOMAIN reports,
           reports[i].game = g, reports[i].result = "updated", reports[i].at >= day - Window
    PROVE  CanRevert(g)
  <1> DEFINE S == {j \in DOMAIN reports : reports[j].game = g /\ reports[j].result = "updated"}
             n == Len(reports)
             l == LastOf(S)
  <1>1. n \in Nat /\ DOMAIN reports = 1..n /\ \A j \in DOMAIN reports : reports[j] \in ReportRow
    BY DEF ReportsStand
  <1>2. S \subseteq 1..n /\ i \in S
    BY <1>1
  <1>3. LatestFor(g, "updated") = l
    BY LatestForIs
  <1> HIDE DEF S
  <1>4. l \in S /\ i <= l /\ l # 0
    BY <1>1, <1>2, LastOfIs
  <1> HIDE DEF l, n
  <1>5. reports[i].at <= reports[l].at
    BY <1>1, <1>2, <1>4 DEF ReportsStand
  <1>6. reports[i].at \in Nat /\ reports[l].at \in Nat /\ day \in Nat /\ Window \in Nat
    BY <1>1, <1>2, <1>4 DEF ReportRow, RestStands
  <1>7. reports[l].at >= day - Window
    BY ONLY <1>5, <1>6, reports[i].at >= day - Window
  <1> QED
    BY <1>3, <1>4, <1>7 DEF CanRevert, InWindow

LEMMA ReviewRevertible ==
    ASSUME ReportsStand, RestStands, NEW g, UnderReview(g)
    PROVE  CanRevert(g)
  <1> DEFINE S == SinceOf(reports, g)
             i == Min(S)
  <1>1. S # {} /\ reports[i].at + Window > day
    BY UnderReviewIs
  <1>2. Len(reports) \in Nat /\ DOMAIN reports = 1..Len(reports)
    BY DEF ReportsStand
  <1>3. S \subseteq 1..Len(reports) /\ \A j \in S : reports[j].game = g /\ reports[j].result = "updated"
    BY <1>2 DEF SinceOf
  <1>4. i \in S
    <2> HIDE DEF S
    <2>1. PICK k \in S : \A j \in S : k <= j
      BY <1>1, <1>2, <1>3, Least
    <2>2. Min(S) = k
      BY <1>2, <1>3, <2>1, FirstIs
    <2> QED
      BY <2>2
  <1> HIDE DEF S, i
  <1>5. i \in DOMAIN reports /\ reports[i] \in ReportRow
    BY <1>2, <1>3, <1>4 DEF ReportsStand
  <1>6. reports[i].at \in Nat /\ day \in Nat /\ Window \in Nat
    BY <1>5 DEF ReportRow, RestStands
  <1>7. reports[i].at >= day - Window
    BY ONLY <1>1, <1>6
  <1> QED
    BY <1>3, <1>4, <1>5, <1>7, RevertAllowed

LEMMA ShownMeans ==
    ASSUME ReportsStand, RestStands, NEW g, ShownRevertible(g)
    PROVE  CanRevert(g) /\ Updated(g)
  <1> DEFINE S == {i \in CheckRows : reports[i].game = g /\ reports[i].result = "updated"}
  <1>1. Updated(g) /\ S # {} /\ InWindow(Max(S))
    BY Zenon DEF ShownRevertible
  <1>2. Len(reports) \in Nat /\ DOMAIN reports = 1..Len(reports)
    BY DEF ReportsStand
  <1>3. S \subseteq 1..Len(reports) /\ \A j \in S : reports[j].game = g /\ reports[j].result = "updated"
    BY <1>2 DEF CheckRows
  <1> HIDE DEF S
  <1>4. Max(S) \in S
    <2>1. LastOf(S) = Max(S) /\ LastOf(S) # 0
      BY <1>1, <1>2, <1>3, LastOfIs DEF LastOf
    <2> QED
      BY <1>2, <1>3, <2>1, LastOfIs
  <1>5. reports[Max(S)].at >= day - Window
    BY <1>1 DEF InWindow
  <1> QED
    BY <1>1, <1>2, <1>3, <1>4, <1>5, RevertAllowed

\* The map counts arcade by arcade, the list counts games.
Listings(v, compatible) == {g \in Games : ListedAt(g, v, compatible)}

Nearby(v, compatible) == [a \in Halls |-> NearbyCount(a, v, compatible)]

LEMMA OnMapIsSum ==
    ASSUME NEW v, NEW compatible
    PROVE  OnMap(v, compatible) = SumOver(Nearby(v, compatible), Halls)
  <1> DEFINE N(a)    == NearbyCount(a, v, compatible)
             F       == Nearby(v, compatible)
             P(s, f) == IF s = {} THEN 0 ELSE N(Choice(s)) + f[s \ {Choice(s)}]
             Q(s, f) == IF s = {} THEN 0 ELSE F[Choice(s)] + f[s \ {Choice(s)}]
  <1>1. ASSUME NEW f PROVE [s \in SUBSET Halls |-> P(s, f)] = [s \in SUBSET Halls |-> Q(s, f)]
    <2>1. ASSUME NEW s \in SUBSET Halls, s # {}
          PROVE  F[Choice(s)] = N(Choice(s))
      <3>1. Choice(s) \in Halls
        BY <2>1 DEF Choice
      <3> HIDE DEF N
      <3>2. F = [a \in Halls |-> N(a)]
        BY DEF Nearby, N
      <3> HIDE DEF F
      <3> QED
        BY <3>1, <3>2
    <2>2. ASSUME NEW s \in SUBSET Halls PROVE P(s, f) = Q(s, f)
      <3> HIDE DEF F, N
      <3> QED
        BY <2>1
    <2> HIDE DEF P, Q
    <2> QED
      BY <2>2
  <1>2. OnMap(v, compatible) = (CHOOSE f : f = [s \in SUBSET Halls |-> P(s, f)])[Halls]
    BY Zenon DEF OnMap, MapThenSumSet, MapThenFoldSet, Choice
  <1>3. SumOver(F, Halls) = (CHOOSE f : f = [s \in SUBSET Halls |-> Q(s, f)])[Halls]
    BY Zenon DEF SumOver, MapThenSumSet, MapThenFoldSet, Choice
  <1>4. (CHOOSE f : f = [s \in SUBSET Halls |-> P(s, f)]) = (CHOOSE f : f = [s \in SUBSET Halls |-> Q(s, f)])
    <2>1. \A f : f = [s \in SUBSET Halls |-> P(s, f)] <=> f = [s \in SUBSET Halls |-> Q(s, f)]
      <3> HIDE DEF P, Q
      <3> QED
        BY <1>1
    <2> HIDE DEF P, Q
    <2> QED
      BY <2>1, Zenon
  <1> QED
    BY <1>2, <1>3, <1>4

LEMMA NearbyCountIs ==
    ASSUME StatesStand, Active, NEW a \in Halls, NEW v, NEW compatible
    PROVE  NearbyCount(a, v, compatible) = Cardinality(Part(Listings(v, compatible), ArcadeOf, a))
  <1> DEFINE S == {g \in DOMAIN Rows(a) : /\ Rows(a)[g].version = v /\ InCabinets(Rows(a)[g].cabinet)
                                          /\ compatible => Supported(campaign.to, Rows(a)[g].cabinet)}
             T == Part(Listings(v, compatible), ArcadeOf, a)
  <1>1. /\ a \in listed /\ CountryMatches(a) => NearbyCount(a, v, compatible) = Cardinality(S)
        /\ ~ (a \in listed /\ CountryMatches(a)) => NearbyCount(a, v, compatible) = 0
    BY Zenon DEF NearbyCount
  <1>2. \A g : g \in DOMAIN Rows(a) => g \in Games /\ ArcadeOf[g] = a
    BY RowsAre DEF At
  <1>3. \A g : g \in T <=>
          /\ g \in DOMAIN Rows(a) /\ a \in listed /\ CountryMatches(a)
          /\ Rows(a)[g].version = v /\ InCabinets(Rows(a)[g].cabinet)
          /\ compatible => Supported(campaign.to, Rows(a)[g].cabinet)
    BY <1>2, Zenon DEF Part, Listings, ListedAt, Installed, RowOf
  <1>4. CASE a \in listed /\ CountryMatches(a)
    <2>1. \A g : g \in S <=> g \in T
      BY <1>3, <1>4, Zenon
    <2> HIDE DEF S, T
    <2>2. S = T
      BY <2>1, SetExtensionality, Zenon
    <2> QED
      BY <1>1, <1>4, <2>2 DEF T
  <1>5. CASE ~ (a \in listed /\ CountryMatches(a))
    <2>1. \A g : g \notin T
      BY <1>3, <1>5, Zenon
    <2> HIDE DEF S, T
    <2>2. T = {}
      BY <2>1, SetExtensionality, Zenon
    <2> QED
      BY <1>1, <1>5, <2>2, FS_EmptySet DEF T
  <1> QED
    BY <1>4, <1>5

LEMMA OnMapIs ==
    ASSUME StatesStand, Active, NEW v, NEW compatible
    PROVE  /\ OnMap(v, compatible) = Cardinality(Listings(v, compatible))
           /\ IsFiniteSet(Listings(v, compatible))
  <1> DEFINE G == Listings(v, compatible)
             c == Nearby(v, compatible)
  <1>1. G \subseteq Games
    BY DEF Listings
  <1>2. IsFiniteSet(G)
    BY <1>1, FS_Subset
  <1>3. \A a \in Halls : c[a] = Cardinality(Part(G, ArcadeOf, a))
    <2> TAKE a \in Halls
    <2>1. c[a] = NearbyCount(a, v, compatible)
      BY Zenon DEF Nearby
    <2> QED
      BY <2>1, NearbyCountIs
  <1>4. \A g \in G : ArcadeOf[g] \in Halls
    BY <1>1, HallsAre
  <1> HIDE DEF G, c
  <1>5. SumOver(c, Halls) = Cardinality(G)
    BY <1>2, <1>3, <1>4, HallsAre, SumOfParts
  <1> QED
    BY <1>2, <1>5, OnMapIsSum DEF G, c

LEMMA MapCounts ==
    ASSUME StatesStand
    PROVE  NearbyTarget = IF \E g \in Games : Pending(g) THEN TargetCount ELSE 0
  <1> DEFINE A == Listings(campaign.from, TRUE)
             B == Listings(campaign.to, FALSE)
  <1>1. A = {g \in Games : Pending(g)} /\ B = {g \in Games : Updated(g)}
    BY Zenon DEF Listings, Pending, Updated
  <1>2. TargetCount = Cardinality(A) + Cardinality(B)
    BY <1>1, Zenon DEF TargetCount
  <1>3. (\E g \in Games : Pending(g)) <=> A # {}
    BY <1>1
  <1> HIDE DEF A, B
  <1>4. CASE ~ Active
    <2>1. \A g \in Games : ~ Pending(g)
      BY <1>4, Zenon DEF Pending, ListedAt
    <2>2. NearbyTarget = 0
      BY <1>4 DEF NearbyTarget
    <2> QED
      BY <2>1, <2>2
  <1>5. CASE Active
    <2>1. /\ OnMap(campaign.from, TRUE) = Cardinality(A) /\ OnMap(campaign.to, FALSE) = Cardinality(B)
          /\ IsFiniteSet(A)
      BY <1>5, OnMapIs DEF A, B
    <2>2. Cardinality(A) = 0 <=> A = {}
      BY <2>1, FS_EmptySet
    <2> QED
      BY <1>2, <1>3, <1>5, <2>1, <2>2 DEF NearbyTarget
  <1> QED
    BY <1>4, <1>5

LEMMA PromptsHonest ==
    ASSUME CampaignsInv
    PROVE  PromptsAreHonest
  <1> USE DEF CampaignsInv
  <1>1. ASSUME NEW g \in Games, NEW u \in Users, CampaignPage(g) \in {"pending", "still_old"}
        PROVE  Heard(g, "updated", u, TRUE)
    <2>1. Pending(g)
      BY <1>1 DEF CampaignPage
    <2> QED
      BY <2>1, PendingHeard
  <1>2. ASSUME NEW g \in Games, NEW u \in Users, g \in Prompts
        PROVE  Heard(g, "updated", u, TRUE)
    <2>1. Pending(g) \/ Updated(g)
      BY <1>2, Zenon DEF Prompts, UnderReview
    <2> QED
      BY <2>1, PendingHeard, UpdatedHeard
  <1>3. ASSUME NEW g \in Games, NEW u \in Users, g \in Prompts \/ ShownRevertible(g), Updated(g),
               Supported(campaign.from, RowOf(g).cabinet)
        PROVE  Heard(g, "still_old", u, TRUE)
    <2>1. UnderReview(g) \/ ShownRevertible(g)
      <3>1. ~ Pending(g)
        BY <1>3, PendingHeard
      <3> QED
        BY <1>3, <3>1, Zenon DEF Prompts
    <2>2. CanRevert(g)
      BY <2>1, ReviewRevertible, ShownMeans
    <2> QED
      BY <1>3, <2>2, UpdatedHeard
  <1>4. NearbyTarget = IF \E g \in Games : Pending(g) THEN TargetCount ELSE 0
    BY MapCounts
  <1> HIDE DEF CampaignsInv
  <1> QED
    BY <1>1, <1>2, <1>3, <1>4, Zenon DEF PromptsAreHonest

(* Every reward was earned once by a report, and whatever a page of the    *)
(* campaign invites a user to report is accepted (CheckCampaign,           *)
(* AwardExpTx, loadCampaignRowsByVersion, loadNearbyCampaignArcadeCounts). *)
THEOREM CampaignsHold == CampaignsSpec => []CampaignsAddUp
  <1>1. CampaignsInv => CampaignsAddUp
    BY CampaignsTyped, CampaignRewards, PromptsHonest DEF CampaignsAddUp
  <1> QED
    BY <1>1, CampaignsKeep, PTL

-------------------------------------------------------------------------------
(* Notifications, announcements and the watch over the game network.       *)

HIDE CampaignsAssumption DEF CampaignsAssumption
USE NotificationsAssumption DEF NotificationsAssumption

-------------------------------------------------------------------------------
(* Notifications: what is true at any time.                                *)

AccountsStand == account \in [Members -> Account]

Born == \A u \in Members : account[u].born <= clock

FlagsStand == flag \in [Flags -> {None} \cup [where : Arcades, author : Members]]

\* The notifications are of accounts that are there, and numbered.
InboxStands ==
    /\ inbox \subseteq Entry /\ seq \in 0..MaxSeq
    /\ \A n \in inbox : n.seq <= seq /\ account[n.user].state # "absent"
    /\ \A n, m \in inbox : n.seq = m.seq => n = m

\* A report is one of an arcade.
Reported(event, where) == event[1] = "report_created" => where \in Arcades

BrowsersStand ==
    /\ device \in [Endpoints -> Device \cup {None}]
    /\ pref \in [Arcades \X Endpoints -> {"unset", "on", "off"}]
    /\ queue \subseteq Push /\ \A d \in queue : Reported(d.event, d.where)

Telling(s) == <<"announcement", s>>

\* What is true of a story: of the rows in the inbox, and of who was told.
StoryTold(s) ==
    /\ \A n \in inbox : n.event = Telling(s) =>
          /\ account[n.user].born <= story[s].at /\ n.copy = story[s].locales
          /\ story[s].status # "draft"
    /\ \A u \in story[s].audience :
          /\ account[u].state # "absent" /\ account[u].born <= story[s].at
          /\ ActiveAccount(u) /\ (u <= story[s].cursor \/ story[s].sent) => HasNotice(u, Telling(s))
    /\ story[s].quiet => \A d \in queue : d.event # Telling(s)

StoriesStand ==
    /\ story \in [Announcements -> Story]
    /\ \A s \in Announcements :
          /\ story[s].status = "draft" => story[s].cursor = 0 /\ ~story[s].sent /\ story[s].audience = {}
          /\ story[s].status = "published" => HasTexts(story[s].texts, story[s].locales)
          /\ story[s].at <= clock
          /\ StoryTold(s)

\* What a reader has seen, from the newest on; what else it is due is older than the next page's first.
Reading == [user : Members, locale : Locales, seen : Seq(Entry), next : Entry \cup {None},
            due : SUBSET (Events \X Nat), lost : BOOLEAN]

PagesStand(b) ==
    /\ b \in Reading
    /\ \A i, j \in DOMAIN b.seen : i < j => b.seen[i].seq > b.seen[j].seq
    /\ b.next # None => \A i \in DOMAIN b.seen : b.seen[i].seq >= b.next.seq
    /\ ~b.lost => \A k \in b.due :
          k \in Keys(ToSet(b.seen)) \/ (b.next # None /\ k[2] < b.next.seq)

NoticesInv ==
    /\ AccountsStand /\ Born /\ FlagsStand /\ InboxStands /\ BrowsersStand /\ StoriesStand
    /\ clock \in 0..MaxClock /\ PushesAreTheirs /\ OptOutIsKept
    /\ browse = None \/ PagesStand(browse)

-------------------------------------------------------------------------------
(* Batches of accounts, and the rows they get.                             *)

Self(S) == [u \in S |-> u]

LEMMA MembersAre ==
    /\ Members \subseteq Nat /\ Members \subseteq Int /\ \A u \in Members : u >= 1
    /\ \A S \in SUBSET Members : IsFiniteSet(S) /\ Cardinality(S) \in Nat /\ Distinct(S, Self(S))
  <1> DEFINE n == Cardinality(Members)
  <1>1. n \in Nat
    BY FS_CardinalityType
  <1>2. Members = 1..n
    OBVIOUS
  <1> HIDE DEF n
  <1>3. Members \subseteq Nat /\ Members \subseteq Int /\ \A u \in Members : u >= 1
    BY <1>1, <1>2
  <1>4. ASSUME NEW S \in SUBSET Members PROVE IsFiniteSet(S) /\ Cardinality(S) \in Nat /\ Distinct(S, Self(S))
    <2>1. IsFiniteSet(S) /\ Cardinality(S) \in Nat
      BY FS_Subset, FS_CardinalityType
    <2> QED
      BY <1>3, <2>1 DEF Distinct, Self
  <1> QED
    BY <1>3, <1>4

LEMMA FirstOfIs ==
    ASSUME NEW S \in SUBSET Members, NEW n \in Nat
    PROVE  /\ FirstOf(S, n) \subseteq S
           /\ \A u \in FirstOf(S, n), v \in S : v <= u => v \in FirstOf(S, n)
           /\ Cardinality(FirstOf(S, n)) < n => FirstOf(S, n) = S
  <1> DEFINE F == FirstOf(S, n)
             P(u) == Place(S, Self(S), u)
  <1>1. Distinct(S, Self(S)) /\ \A u \in S : Self(S)[u] = u
    BY MembersAre DEF Self
  <1>2. \A u \in S : UpTo(S, Self(S), u) = {v \in S : v <= u}
    BY <1>1 DEF UpTo
  <1>3. \A u : u \in F <=> u \in S /\ P(u) <= n
    BY <1>2 DEF FirstOf, Place
  <1>4. \A u \in S : P(u) \in Nat
    <2> TAKE u \in S
    <2>1. P(u) \in 1..Cardinality(S)
      BY <1>1, PlaceIs
    <2>2. Cardinality(S) \in Nat
      BY MembersAre
    <2> HIDE DEF P
    <2> QED
      BY <2>1, <2>2
  <1>5. \A u, v \in S : v <= u => P(v) <= P(u)
    BY <1>1, PlaceIs
  <1>6. F \subseteq S /\ \A u \in F, v \in S : v <= u => v \in F
    <2> HIDE DEF F, P
    <2>1. ASSUME NEW u \in F, NEW v \in S, v <= u PROVE v \in F
      <3>1. P(v) <= P(u) /\ P(u) <= n /\ P(v) \in Nat /\ P(u) \in Nat
        BY <1>3, <1>4, <1>5, <2>1
      <3>2. P(v) <= n
        BY ONLY <3>1, n \in Nat
      <3> QED
        BY <1>3, <3>2
    <2> QED
      BY <1>3, <2>1
  <1>7. ASSUME Cardinality(F) < n, F # S PROVE FALSE
    <2>1. PICK u \in S : u \notin F
      BY <1>6, <1>7
    <2>2. P(u) > n /\ P(u) \in Nat
      BY <1>3, <1>4, <2>1
    <2>3. P(u) <= Cardinality(S) /\ Cardinality(S) \in Nat
      BY <1>1, PlaceIs, MembersAre
    <2> DEFINE g == [v \in F |-> P(v)]
    <2>4. \A v \in F : P(v) \in 1..n
      <3> TAKE v \in F
      <3>1. P(v) \in 1..Cardinality(S) /\ v \in S
        BY <1>1, <1>6, PlaceIs
      <3>2. P(v) <= n
        BY <1>3
      <3> HIDE DEF P
      <3> QED
        BY <2>3, <3>1, <3>2
    <2>5. ASSUME NEW i \in 1..n PROVE \E v \in F : g[v] = i
      <3>1. i \in 1..Cardinality(S) /\ i <= n
        <4> HIDE DEF P
        <4> QED
          BY <2>2, <2>3
      <3>2. PICK v \in S : P(v) = i
        BY <1>1, <3>1, PlacesTaken
      <3>3. v \in F
        BY <1>3, <3>1, <3>2
      <3> QED
        BY <3>2, <3>3
    <2>6. g \in Surjection(F, 1..n)
      <3>1. g \in [F -> 1..n]
        BY <2>4
      <3> HIDE DEF g
      <3> QED
        BY <2>5, <3>1, Zenon DEF Surjection
    <2>7. IsFiniteSet(F) /\ Cardinality(F) \in Nat /\ Cardinality(1..n) = n
      BY <1>6, MembersAre, FS_Interval
    <2>8. Cardinality(1..n) <= Cardinality(F)
      <3> HIDE DEF g
      <3> QED
        BY <2>6, <2>7, FS_Surjection
    <2> HIDE DEF F
    <2> QED
      BY <1>7, <2>7, <2>8
  <1> QED
    BY <1>6, <1>7

\* New rows: of accounts that had none, numbered from the last number on.
News(new, to, event, where, copy) ==
    /\ new \subseteq Entry /\ Cardinality(new) \in Nat /\ Reported(event, where)
    /\ \A n \in new : /\ n.user \in to /\ n.event = event /\ n.where = where /\ n.copy = copy
                      /\ seq < n.seq /\ n.seq <= seq + Cardinality(new)
    /\ \A n, m \in new : n.seq = m.seq => n = m
    /\ \A u \in to : ActiveAccount(u) => HasNotice(u, event) \/ \E n \in new : n.user = u /\ n.event = event

LEMMA NewEntriesAre ==
    ASSUME seq \in 0..MaxSeq, NEW to \in SUBSET Members, NEW event \in Events,
           NEW where \in Arcades \cup {None}, NEW copy \in SUBSET Locales, Reported(event, where),
           seq + Cardinality(NewEntries(to, event, where, copy)) <= MaxSeq
    PROVE  /\ News(NewEntries(to, event, where, copy), to, event, where, copy)
           /\ \A n \in NewEntries(to, event, where, copy) : ActiveAccount(n.user)
  <1> DEFINE fresh == {u \in to : ActiveAccount(u) /\ ~HasNotice(u, event)}
             P(u) == Place(fresh, Self(fresh), u)
             row(u) == InboxEntry(u, event, where, copy, seq + P(u))
             new == NewEntries(to, event, where, copy)
             c == Cardinality(fresh)
  <1>1. fresh \in SUBSET Members
    OBVIOUS
  <1>2. Distinct(fresh, Self(fresh)) /\ c \in Nat /\ IsFiniteSet(fresh)
    BY <1>1, MembersAre
  <1>3. \A u \in fresh : UpTo(fresh, Self(fresh), u) = {v \in fresh : v <= u}
    BY DEF UpTo, Self
  <1>4. new = {row(u) : u \in fresh}
    <2>1. \A u \in fresh : Cardinality({v \in fresh : v <= u}) = P(u)
      BY <1>3 DEF Place
    <2>2. new = {InboxEntry(u, event, where, copy, seq + Cardinality({v \in fresh : v <= u})) : u \in fresh}
      BY Zenon DEF NewEntries
    <2> HIDE DEF fresh, P
    <2> QED
      BY <2>1, <2>2
  <1>5. \A u \in fresh : P(u) \in 1..c /\ \A v \in fresh : P(u) = P(v) => u = v
    <2> HIDE DEF fresh
    <2> QED
      BY <1>2, PlaceIs
  <1> HIDE DEF P, c
  <1>6. \A u \in fresh : /\ row(u) = [user |-> u, event |-> event, where |-> where, copy |-> copy,
                                      read |-> FALSE, seq |-> seq + P(u)]
                         /\ P(u) \in Nat /\ P(u) >= 1 /\ P(u) <= c
    BY <1>2, <1>5 DEF InboxEntry
  <1>11. \A u : row(u).user = u /\ row(u).event = event /\ row(u).seq = seq + P(u)
    BY DEF InboxEntry
  <1>7. Cardinality(new) = c
    <2> DEFINE f == [u \in fresh |-> row(u)]
    <2>1. \A u, v \in fresh : row(u) = row(v) => u = v
      <3> TAKE u, v \in fresh
      <3>1. row(u).user = u /\ row(v).user = v
        BY <1>11, Zenon
      <3> HIDE DEF row
      <3> QED
        BY <3>1
    <2>2. f \in [fresh -> new] /\ \A n \in new : \E u \in fresh : f[u] = n
      BY <1>4
    <2>3. f \in Injection(fresh, new) /\ f \in Surjection(fresh, new)
      <3>1. \A u, v \in fresh : f[u] = f[v] => u = v
        BY <2>1
      <3> HIDE DEF f, fresh, new
      <3> QED
        BY <2>2, <3>1, Zenon DEF Injection, IsInjective, Surjection
    <2> HIDE DEF f, fresh, new
    <2> QED
      BY <1>2, <2>3, FS_Surjection DEF c
  <1>8. ASSUME NEW n \in new
        PROVE  /\ n \in Entry /\ n.user \in to /\ n.event = event /\ n.where = where /\ n.copy = copy
               /\ ActiveAccount(n.user) /\ seq < n.seq /\ n.seq <= seq + Cardinality(new)
    <2>1. PICK u \in fresh : n = row(u)
      BY <1>4
    <2>2. seq \in Nat /\ MaxSeq \in Nat /\ seq + c <= MaxSeq
      BY <1>7
    <2>3. seq + P(u) \in 1..MaxSeq /\ seq < seq + P(u) /\ seq + P(u) <= seq + c
      <3>1. P(u) \in Nat /\ P(u) >= 1 /\ P(u) <= c
        BY <1>6
      <3> QED
        BY ONLY <1>2, <2>2, <3>1
    <2>4. n = [user |-> u, event |-> event, where |-> where, copy |-> copy,
               read |-> FALSE, seq |-> seq + P(u)]
      BY <1>6, <2>1
    <2>5. u \in to /\ u \in Members /\ ActiveAccount(u)
      OBVIOUS
    <2> HIDE DEF fresh, new
    <2> QED
      BY <1>7, <2>3, <2>4, <2>5 DEF Entry
  <1>9. \A n, m \in new : n.seq = m.seq => n = m
    <2> TAKE n, m \in new
    <2>1. PICK u \in fresh : n = row(u)
      BY <1>4
    <2>2. PICK v \in fresh : m = row(v)
      BY <1>4
    <2>3. n.seq = seq + P(u) /\ m.seq = seq + P(v) /\ P(u) \in Nat /\ P(v) \in Nat /\ seq \in Nat
      <3>1. n.seq = seq + P(u) /\ m.seq = seq + P(v)
        <4> HIDE DEF row
        <4> QED
          BY <1>11, <2>1, <2>2, Zenon
      <3>2. P(u) \in Nat /\ P(v) \in Nat
        BY <1>6, Zenon
      <3> QED
        BY <3>1, <3>2
    <2>4. n.seq = m.seq => P(u) = P(v)
      BY ONLY <2>3
    <2> QED
      BY <1>5, <2>1, <2>2, <2>4
  <1>10. ASSUME NEW u \in to, ActiveAccount(u), ~ HasNotice(u, event)
         PROVE  \E n \in new : n.user = u /\ n.event = event
    <2>1. u \in fresh
      BY <1>10
    <2>2. row(u) \in new
      BY <1>4, <2>1
    <2> HIDE DEF row, new
    <2> QED
      BY <1>11, <2>2, Zenon
  <1>12. new \subseteq Entry /\ Cardinality(new) \in Nat
    <2> HIDE DEF fresh, new
    <2> QED
      BY <1>2, <1>7, <1>8
  <1>13. \A u \in to : ActiveAccount(u) => HasNotice(u, event) \/ \E n \in new : n.user = u /\ n.event = event
    BY <1>10, Zenon
  <1> QED
    BY <1>8, <1>9, <1>12, <1>13, Zenon DEF News

-------------------------------------------------------------------------------
(* What steps keep.                                                        *)

LEMMA NoticesInitial == NoticeInit => NoticesInv
  <1> SUFFICES ASSUME NoticeInit PROVE NoticesInv
    OBVIOUS
  <1>1. AccountsStand
    <2>1. account \in [Members -> {NoAccount} \cup
                     [state : {"active"}, born : {0}, role : {"member", "staff"}, owns : {{}}] \cup
                     [state : {"active"}, born : {0}, role : {"owner"}, owns : (SUBSET Arcades) \ {{}}]]
      BY DEF NoticeInit
    <2> QED
      BY <2>1 DEF AccountsStand, Account, NoAccount
  <1>2. FlagsStand /\ InboxStands /\ BrowsersStand /\ PushesAreTheirs /\ OptOutIsKept /\ clock \in 0..MaxClock
        /\ browse = None
    BY DEF NoticeInit, FlagsStand, InboxStands, BrowsersStand, PushesAreTheirs, OptOutIsKept
  <1>3. StoriesStand
    <2>1. story = [s \in Announcements |-> Draft] /\ inbox = {} /\ queue = {} /\ clock = 0
      BY DEF NoticeInit
    <2>2. Draft \in Story
      BY DEF Draft, Story
    <2>3. \A s \in Announcements : StoryTold(s)
      BY <2>1 DEF StoryTold, Draft
    <2> QED
      BY <2>1, <2>2, <2>3 DEF StoriesStand, Draft
  <1>4. Born
    <2>1. clock = 0 /\ \A u \in Members : account[u].born = 0
      BY DEF NoticeInit, NoAccount
    <2> QED
      BY <2>1 DEF Born
  <1> QED
    BY <1>1, <1>2, <1>3, <1>4 DEF NoticesInv

\* Accounts come and go, once each.
AccountsGo ==
    /\ AccountsStand'
    /\ \A u \in Members : account[u].state # "absent" =>
          /\ account'[u].state # "absent" /\ account'[u].born = account[u].born
          /\ account'[u].state = "active" => account[u].state = "active"
    /\ \A u \in Members : account'[u].born \in {account[u].born, clock}

LEMMA AccountsSame ==
    ASSUME AccountsStand, account' = account
    PROVE  AccountsGo
  BY DEF AccountsGo, AccountsStand

LEMMA BornStays ==
    ASSUME AccountsStand, Born, AccountsGo, clock \in Nat, clock' \in Nat, clock <= clock'
    PROVE  Born'
  <1>1. ASSUME NEW u \in Members PROVE account'[u].born <= clock'
    <2>1. account'[u].born \in {account[u].born, clock} /\ account[u].born <= clock /\ account[u].born \in Nat
      BY DEF AccountsGo, AccountsStand, Account, Born
    <2> QED
      BY <2>1
  <1> QED
    BY <1>1 DEF Born

\* Nobody is told of a story, and nobody loses what they were told.
NoNews(s) ==
    /\ \A u : HasNotice(u, Telling(s)) => HasNotice(u, Telling(s))'
    /\ \A n \in inbox' : n.event = Telling(s) =>
          \E m \in inbox : m.user = n.user /\ m.event = n.event /\ m.copy = n.copy
    /\ \A d \in queue' : d.event = Telling(s) => \E c \in queue : c.event = d.event

\* A story is as it was, but for its texts.
SameStory(s) ==
    /\ story'[s].locales = story[s].locales /\ story'[s].at = story[s].at
    /\ story'[s].cursor = story[s].cursor /\ story'[s].sent = story[s].sent
    /\ story'[s].quiet = story[s].quiet /\ story'[s].audience = story[s].audience
    /\ story'[s].status = "draft" => story[s].status = "draft"

LEMMA StoryStays ==
    ASSUME InboxStands, StoriesStand, AccountsGo, NEW s \in Announcements, NoNews(s), SameStory(s)
    PROVE  StoryTold(s)'
  <1>1. StoryTold(s) /\ story[s] \in Story /\ \A u \in story[s].audience : u \in Members
    BY DEF StoriesStand, Story
  <1>2. ASSUME NEW n \in inbox', n.event = Telling(s)
        PROVE  /\ account'[n.user].born <= story'[s].at /\ n.copy = story'[s].locales
               /\ story'[s].status # "draft"
    <2>1. PICK m \in inbox : m.user = n.user /\ m.event = n.event /\ m.copy = n.copy
      BY <1>2, Zenon DEF NoNews
    <2>2. m.user \in Members /\ account[m.user].state # "absent"
      BY DEF InboxStands, Entry
    <2>3. /\ account[m.user].born <= story[s].at /\ m.copy = story[s].locales
          /\ story[s].status # "draft"
      BY <1>1, <1>2, <2>1, Zenon DEF StoryTold
    <2>4. account'[m.user].born = account[m.user].born
      BY <2>2, Zenon DEF AccountsGo
    <2> QED
      BY <2>1, <2>3, <2>4 DEF SameStory
  <1>3. ASSUME NEW u \in story'[s].audience
        PROVE  /\ account'[u].state # "absent" /\ account'[u].born <= story'[s].at
               /\ ActiveAccount(u)' /\ (u <= story'[s].cursor \/ story'[s].sent)
                     => HasNotice(u, Telling(s))'
    <2>1. u \in story[s].audience /\ u \in Members
      BY <1>1, Zenon DEF SameStory
    <2>2. /\ account[u].state # "absent" /\ account[u].born <= story[s].at
          /\ ActiveAccount(u) /\ (u <= story[s].cursor \/ story[s].sent) => HasNotice(u, Telling(s))
      BY <1>1, <2>1, Zenon DEF StoryTold
    <2>3. /\ account'[u].state # "absent" /\ account'[u].born = account[u].born
          /\ ActiveAccount(u)' => ActiveAccount(u)
      BY <2>1, <2>2, Zenon DEF AccountsGo, ActiveAccount
    <2>4. HasNotice(u, Telling(s)) => HasNotice(u, Telling(s))'
      BY Zenon DEF NoNews
    <2>5. account'[u].born <= story'[s].at
      BY <2>2, <2>3 DEF SameStory
    <2>6. ActiveAccount(u)' /\ (u <= story'[s].cursor \/ story'[s].sent) => HasNotice(u, Telling(s))'
      BY <2>2, <2>3, <2>4, Zenon DEF SameStory
    <2> QED
      BY <2>3, <2>5, <2>6, Zenon
  <1>4. ASSUME story'[s].quiet, NEW d \in queue' PROVE d.event # Telling(s)
    BY <1>1, <1>4, Zenon DEF StoryTold, NoNews, SameStory
  <1> QED
    BY <1>2, <1>3, <1>4, Zenon DEF StoryTold

LEMMA StoriesStay ==
    ASSUME InboxStands, StoriesStand, AccountsGo, \A s \in Announcements : NoNews(s),
           story' = story, clock \in Nat, clock' \in Nat, clock <= clock'
    PROVE  StoriesStand'
  <1>1. ASSUME NEW s \in Announcements PROVE StoryTold(s)' /\ story[s].at <= clock'
    <2>1. SameStory(s)
      BY Zenon DEF SameStory
    <2>2. story[s].at \in Nat /\ story[s].at <= clock
      BY DEF StoriesStand, Story
    <2>3. story[s].at <= clock'
      BY ONLY <2>2, clock \in Nat, clock' \in Nat, clock <= clock'
    <2> QED
      BY <2>1, <2>3, StoryStays
  <1> QED
    BY <1>1 DEF StoriesStand

\* No step that leaves the inbox and the queue alone tells anything.
LEMMA Silence ==
    ASSUME inbox' = inbox, \A d \in queue' : \E c \in queue : c.event = d.event
    PROVE  \A s : NoNews(s)
  BY DEF NoNews, HasNotice

(* Telling: the inbox and the pushes of those told.                        *)
LEMMA InboxTold ==
    ASSUME InboxStands, AccountsGo, NEW new, NEW to, NEW event, NEW where, NEW copy, NEW push,
           News(new, to, event, where, copy), Tell(new, push),
           \A n \in new : account'[n.user].state # "absent"
    PROVE  InboxStands'
  <1>1. /\ inbox' = inbox \cup new /\ seq' = seq + Cardinality(new) /\ seq + Cardinality(new) <= MaxSeq
        /\ Cardinality(new) \in Nat /\ seq \in Nat /\ MaxSeq \in Nat
    BY DEF Tell, News, InboxStands
  <1>2. inbox' \subseteq Entry /\ seq' \in 0..MaxSeq /\ \A n \in inbox' : n.seq \in Nat
    BY <1>1 DEF InboxStands, News, Entry
  <1>3. ASSUME NEW n \in inbox' PROVE n.seq <= seq' /\ account'[n.user].state # "absent"
    <2>1. CASE n \in inbox
      <3>1. n.seq <= seq /\ account[n.user].state # "absent" /\ n.user \in Members
        BY <2>1 DEF InboxStands, Entry
      <3>2. account'[n.user].state # "absent"
        BY <3>1, Zenon DEF AccountsGo
      <3> QED
        BY <1>1, <1>2, <3>1, <3>2
    <2>2. CASE n \in new
      BY <1>1, <1>2, <2>2 DEF News
    <2> QED
      BY <1>1, <2>1, <2>2
  <1>4. ASSUME NEW n \in inbox', NEW m \in inbox', n.seq = m.seq PROVE n = m
    <2>1. \A x \in inbox : x.seq <= seq /\ x.seq \in Nat
      BY <1>1, <1>2 DEF InboxStands
    <2>2. \A x \in new : seq < x.seq
      BY DEF News
    <2>3. \/ n \in inbox /\ m \in inbox
          \/ n \in new /\ m \in new
      BY <1>1, <1>2, <1>4, <2>1, <2>2
    <2> QED
      BY <1>4, <2>3, Zenon DEF InboxStands, News
  <1> QED
    BY <1>2, <1>3, <1>4 DEF InboxStands

LEMMA TellPushes ==
    ASSUME NEW new, NEW push, Tell(new, push), NEW d \in queue'
    PROVE  \/ d \in queue
           \/ /\ push
              /\ \E n \in new, e \in Endpoints :
                    /\ Receives(e, n)
                    /\ d = [user |-> n.user, event |-> n.event, where |-> n.where, endpoint |-> e, done |-> FALSE]
  <1>1. queue' = IF push THEN queue \cup UNION {Pushes(n) : n \in new} ELSE queue
    BY DEF Tell
  <1>2. CASE ~ push
    BY <1>1, <1>2
  <1>3. CASE push
    <2>1. queue' = queue \cup UNION {Pushes(n) : n \in new}
      BY <1>1, <1>3
    <2>2. d \in queue \/ \E n \in new : d \in Pushes(n)
      BY <2>1
    <2>3. ASSUME NEW n \in new, d \in Pushes(n)
          PROVE  \E e \in Endpoints :
                   /\ Receives(e, n)
                   /\ d = [user |-> n.user, event |-> n.event, where |-> n.where, endpoint |-> e, done |-> FALSE]
      BY <2>3 DEF Pushes
    <2> QED
      BY <1>3, <2>2, <2>3, Zenon
  <1> QED
    BY <1>2, <1>3

LEMMA BrowsersTold ==
    ASSUME BrowsersStand, PushesAreTheirs, OptOutIsKept,
           NEW new, NEW to, NEW event, NEW where, NEW copy, NEW push,
           News(new, to, event, where, copy), Tell(new, push), device' = device, pref' = pref
    PROVE  BrowsersStand' /\ PushesAreTheirs' /\ OptOutIsKept'
  <1>1. inbox' = inbox \cup new /\ new \subseteq Entry
    BY DEF Tell, News
  <1>2. ASSUME NEW d \in queue'
        PROVE  /\ d \in Push /\ Reported(d.event, d.where)
               /\ Registered(d.user, d.endpoint)' /\ HasNotice(d.user, d.event)'
               /\ d.event[1] = "report_created" /\ pref[<<d.where, d.endpoint>>] = "off" => d.done
    <2>1. CASE d \in queue
      <3>1. d \in Push /\ Reported(d.event, d.where) /\ Registered(d.user, d.endpoint) /\ HasNotice(d.user, d.event)
        BY <2>1 DEF BrowsersStand, PushesAreTheirs
      <3>2. d.event[1] = "report_created" /\ pref[<<d.where, d.endpoint>>] = "off" => d.done
        BY <2>1, Zenon DEF OptOutIsKept
      <3>3. Registered(d.user, d.endpoint)'
        BY <3>1, Zenon DEF Registered
      <3>4. HasNotice(d.user, d.event)'
        BY <1>1, <3>1 DEF HasNotice
      <3> QED
        BY <3>1, <3>2, <3>3, <3>4, Zenon
    <2>2. CASE d \notin queue
      <3>1. PICK n \in new, e \in Endpoints :
               /\ Receives(e, n)
               /\ d = [user |-> n.user, event |-> n.event, where |-> n.where, endpoint |-> e, done |-> FALSE]
        BY <2>2, TellPushes, Zenon
      <3>2. n \in Entry
        BY <1>1
      <3>3. d \in Push
        BY <3>1, <3>2 DEF Entry, Push
      <3>4. /\ d.user = n.user /\ d.event = n.event /\ d.where = n.where /\ d.endpoint = e
        BY <3>1
      <3>9. Reported(d.event, d.where)
        BY <3>1, <3>4, Zenon DEF News
      <3>5. device[e] # None /\ device[e].user = n.user
        BY <3>1, Zenon DEF Receives
      <3>6. Registered(d.user, d.endpoint)'
        BY <3>4, <3>5, Zenon DEF Registered
      <3>7. HasNotice(d.user, d.event)'
        BY <1>1, <3>4 DEF HasNotice
      <3>8. ASSUME d.event[1] = "report_created", pref[<<d.where, d.endpoint>>] = "off" PROVE FALSE
        <4>1. WantsReport(e, n)
          BY <3>1, <3>4, <3>8, Zenon DEF Receives, Kind
        <4>2. pref[<<n.where, e>>] = "on" \/ pref[<<n.where, e>>] = "unset"
          BY <4>1, Zenon DEF WantsReport
        <4> QED
          BY <3>4, <3>8, <4>2
      <3> QED
        BY <3>3, <3>6, <3>7, <3>8, <3>9, Zenon
    <2> QED
      BY <2>1, <2>2
  <1>3. BrowsersStand'
    BY <1>2, Zenon DEF BrowsersStand
  <1>4. PushesAreTheirs'
    BY <1>2, Zenon DEF PushesAreTheirs
  <1>5. OptOutIsKept'
    BY <1>2, Zenon DEF OptOutIsKept
  <1> QED
    BY <1>3, <1>4, <1>5

\* Telling of something else is no news of a story.
LEMMA OtherNews ==
    ASSUME NEW new, NEW to, NEW event, NEW where, NEW copy, NEW push,
           News(new, to, event, where, copy), Tell(new, push), NEW s, event # Telling(s)
    PROVE  NoNews(s)
  <1>1. inbox' = inbox \cup new /\ \A n \in new : n.event = event
    BY DEF Tell, News
  <1>2. \A u : HasNotice(u, Telling(s)) => HasNotice(u, Telling(s))'
    BY <1>1 DEF HasNotice
  <1>3. \A n \in inbox' : n.event = Telling(s) => n \in inbox
    BY <1>1
  <1>4. ASSUME NEW d \in queue', d.event = Telling(s) PROVE d \in queue
    <2> SUFFICES ASSUME d \notin queue PROVE FALSE
      OBVIOUS
    <2>1. PICK n \in new, e \in Endpoints :
             d = [user |-> n.user, event |-> n.event, where |-> n.where, endpoint |-> e, done |-> FALSE]
      <3>1. d \in queue \/ \E n \in new, e \in Endpoints :
               d = [user |-> n.user, event |-> n.event, where |-> n.where, endpoint |-> e, done |-> FALSE]
        BY TellPushes
      <3> QED
        BY <3>1
    <2>2. d.event = n.event
      BY <2>1
    <2> QED
      BY <1>1, <1>4, <2>2
  <1> QED
    BY <1>2, <1>3, <1>4, Zenon DEF NoNews

-------------------------------------------------------------------------------
(* Steps that tell nobody, and steps that tell of something else than a    *)
(* story.                                                                  *)

Browsing == browse = None \/ PagesStand(browse)

LEMMA BrowsersSame ==
    ASSUME BrowsersStand, PushesAreTheirs, OptOutIsKept, device' = device, pref' = pref, queue' = queue,
           \A u, event : HasNotice(u, event) => HasNotice(u, event)'
    PROVE  BrowsersStand' /\ PushesAreTheirs' /\ OptOutIsKept'
  <1>1. BrowsersStand' /\ OptOutIsKept'
    BY Zenon DEF BrowsersStand, OptOutIsKept
  <1>2. \A d \in queue' : Registered(d.user, d.endpoint)'
    BY Zenon DEF PushesAreTheirs, Registered
  <1>3. PushesAreTheirs'
    BY <1>2, Zenon DEF PushesAreTheirs
  <1> QED
    BY <1>1, <1>3

LEMMA InboxSame ==
    ASSUME InboxStands, AccountsGo, inbox' = inbox, seq' = seq
    PROVE  InboxStands' /\ \A u, event : HasNotice(u, event) => HasNotice(u, event)'
  <1>1. ASSUME NEW n \in inbox PROVE n.seq <= seq /\ account'[n.user].state # "absent"
    <2>1. n.user \in Members /\ account[n.user].state # "absent" /\ n.seq <= seq
      BY DEF InboxStands, Entry
    <2> QED
      BY <2>1, Zenon DEF AccountsGo
  <1>2. \A u, event : HasNotice(u, event) => HasNotice(u, event)'
    BY Zenon DEF HasNotice
  <1> QED
    BY <1>1, <1>2, Zenon DEF InboxStands

LEMMA Still ==
    ASSUME NoticesInv, AccountsGo, FlagsStand', inbox' = inbox, seq' = seq,
           BrowsersStand', PushesAreTheirs', OptOutIsKept', \A d \in queue' : \E c \in queue : c.event = d.event,
           story' = story, clock' \in 0..MaxClock, clock <= clock', Browsing'
    PROVE  NoticesInv'
  <1>1. InboxStands'
    BY InboxSame, Zenon DEF NoticesInv
  <1>2. \A s : NoNews(s)
    BY Silence, Zenon
  <1>3. clock \in Nat /\ clock' \in Nat
    BY DEF NoticesInv
  <1>4. StoriesStand'
    BY <1>2, <1>3, StoriesStay, Zenon DEF NoticesInv
  <1>5. Born'
    BY <1>3, BornStays, Zenon DEF NoticesInv
  <1> QED
    BY <1>1, <1>4, <1>5, Zenon DEF NoticesInv, AccountsGo, Browsing

LEMMA BrowsingSame == Browsing /\ browse' = browse => Browsing'
  BY Zenon DEF Browsing, PagesStand

LEMMA TellsOther ==
    ASSUME NoticesInv, AccountsGo, FlagsStand',
           NEW new, NEW to, NEW event, NEW where, NEW copy, NEW push,
           News(new, to, event, where, copy), Tell(new, push),
           \A n \in new : account'[n.user].state # "absent", \A s \in Announcements : event # Telling(s),
           device' = device, pref' = pref, story' = story, clock' = clock, browse' = browse
    PROVE  NoticesInv'
  <1>1. InboxStands'
    BY InboxTold DEF NoticesInv
  <1>2. BrowsersStand' /\ PushesAreTheirs' /\ OptOutIsKept'
    BY BrowsersTold DEF NoticesInv
  <1>3. \A s \in Announcements : NoNews(s)
    BY OtherNews
  <1>4. clock \in Nat /\ clock' \in Nat /\ clock <= clock'
    BY DEF NoticesInv
  <1>5. StoriesStand'
    BY <1>3, <1>4, StoriesStay, Zenon DEF NoticesInv
  <1>6. Browsing'
    BY BrowsingSame, Zenon DEF NoticesInv, Browsing
  <1>7. clock' \in 0..MaxClock /\ Born'
    BY <1>4, BornStays, Zenon DEF NoticesInv
  <1> QED
    BY <1>1, <1>2, <1>5, <1>6, <1>7, Zenon DEF NoticesInv, AccountsGo, Browsing

LEMMA EventsDiffer ==
    ASSUME NEW s
    PROVE  /\ <<"arcade_setup">> # Telling(s) /\ <<"aime">> # Telling(s)
           /\ \A f : Event("report_created", f) # Telling(s)
           /\ \A f, u : <<"report_reaction", f, u>> # Telling(s)
  BY DEF Telling, Event

LEMMA NoReport ==
    /\ \A w : Reported(<<"arcade_setup">>, w) /\ Reported(<<"aime">>, w)
    /\ \A s, w : Reported(Telling(s), w)
    /\ \A f, u, w : Reported(<<"report_reaction", f, u>>, w)
    /\ \A event : \A a \in Arcades : Reported(event, a)
  BY DEF Reported, Telling

LEMMA FlagsSame == FlagsStand /\ flag' = flag => FlagsStand'
  BY Zenon DEF FlagsStand

-------------------------------------------------------------------------------
(* Accounts, arcades and reports.                                          *)

LEMMA SignUpKeeps ==
    ASSUME NoticesInv, NEW u \in Members, NEW role \in {"member", "owner"}, NEW owns \in SUBSET Arcades,
           SignUp(u, role, owns)
    PROVE  NoticesInv'
  <1> DEFINE added == [state |-> "active", born |-> clock, role |-> role, owns |-> owns]
             row == InboxEntry(u, <<"arcade_setup">>, None, {}, seq + 1)
             setup == IF role = "owner" THEN {row} ELSE {}
  <1>1. /\ account[u].state = "absent" /\ account' = [account EXCEPT ![u] = added] /\ Tell(setup, TRUE)
        /\ clock' = clock /\ flag' = flag /\ story' = story /\ device' = device /\ pref' = pref /\ browse' = browse
    BY DEF SignUp
  <1>2. clock \in Nat /\ seq \in Nat
    BY DEF NoticesInv, InboxStands
  <1>3. AccountsStand' /\ AccountsGo /\ account'[u].state = "active"
    <2>1. added \in Account
      BY <1>2 DEF Account
    <2>2. account \in [Members -> Account] /\ added.state = "active" /\ added.born = clock
      BY DEF NoticesInv, AccountsStand
    <2> HIDE DEF added
    <2>3. account' \in [Members -> Account] /\ account'[u] = added
      BY <1>1, <2>1, <2>2
    <2>4. \A v \in Members : v # u => account'[v] = account[v]
      BY <1>1, <2>2
    <2>5. AccountsStand'
      BY <2>3 DEF AccountsStand
    <2>6. ASSUME NEW v \in Members
          PROVE  /\ account[v].state # "absent" =>
                       /\ account'[v].state # "absent" /\ account'[v].born = account[v].born
                       /\ account'[v].state = "active" => account[v].state = "active"
                 /\ account'[v].born \in {account[v].born, clock}
      BY <1>1, <2>2, <2>3, <2>4
    <2> QED
      BY <2>2, <2>3, <2>5, <2>6, Zenon DEF AccountsGo
  <1>4. /\ row.user = u /\ row.event = <<"arcade_setup">> /\ row.where = None /\ row.copy = {}
        /\ row.seq = seq + 1
    BY DEF InboxEntry
  <1>5. News(setup, {u}, <<"arcade_setup">>, None, {}) \/ News(setup, {}, <<"arcade_setup">>, None, {})
    <2>1. CASE role = "owner"
      <3>1. Cardinality({row}) = 1
        BY FS_Singleton
      <3>2. setup = {row} /\ seq + 1 <= MaxSeq
        BY <1>1, <2>1, <3>1 DEF Tell
      <3>3. row \in Entry
        <4>1. <<"arcade_setup">> \in Events
          BY DEF Events
        <4>2. seq + 1 \in 1..MaxSeq
          BY <1>2, <3>2
        <4> QED
          BY <4>1, <4>2 DEF InboxEntry, Entry
      <3>4. seq < row.seq /\ row.seq <= seq + 1
        BY <1>2, <1>4
      <3> HIDE DEF row, setup
      <3> QED
        BY <1>4, <3>1, <3>2, <3>3, <3>4, NoReport DEF News
    <2>2. CASE role # "owner"
      <3>1. setup = {} /\ Cardinality(setup) = 0
        BY <2>2, FS_EmptySet
      <3> HIDE DEF setup
      <3> QED
        BY <3>1, NoReport DEF News
    <2> QED
      BY <2>1, <2>2
  <1>6. \A n \in setup : account'[n.user].state # "absent"
    <2> HIDE DEF row, added
    <2> QED
      BY <1>3, <1>4
  <1>7. FlagsStand'
    BY <1>1, FlagsSame, Zenon DEF NoticesInv
  <1>8. \A s \in Announcements : <<"arcade_setup">> # Telling(s)
    BY EventsDiffer, Zenon
  <1> HIDE DEF setup, row, added
  <1>9. CASE News(setup, {u}, <<"arcade_setup">>, None, {})
    BY <1>1, <1>3, <1>6, <1>7, <1>8, <1>9, TellsOther
  <1>10. CASE News(setup, {}, <<"arcade_setup">>, None, {})
    BY <1>1, <1>3, <1>6, <1>7, <1>8, <1>10, TellsOther
  <1> QED
    BY <1>5, <1>9, <1>10

LEMMA WithdrawKeeps ==
    ASSUME NoticesInv, NEW u \in Members, Withdraw(u)
    PROVE  NoticesInv'
  <1>1. /\ ActiveAccount(u) /\ account' = [account EXCEPT ![u].state = "withdrawn"]
        /\ UNCHANGED <<clock, flag, story, inbox, seq, device, pref, queue, browse>>
    BY DEF Withdraw
  <1>2. AccountsGo
    <2>1. account \in [Members -> Account]
      BY DEF NoticesInv, AccountsStand
    <2>2. [account[u] EXCEPT !.state = "withdrawn"] \in Account
      BY <2>1 DEF Account
    <2>3. account' = [account EXCEPT ![u] = [account[u] EXCEPT !.state = "withdrawn"]]
      BY <1>1
    <2>4. account' \in [Members -> Account]
      BY <2>1, <2>2, <2>3
    <2>5. ASSUME NEW v \in Members
          PROVE  /\ account[v].state # "absent" => account'[v].state # "absent"
                 /\ account'[v].born = account[v].born
                 /\ account'[v].state = "active" => account[v].state = "active"
      <3>1. CASE v = u
        <4>1. account'[v] = [account[u] EXCEPT !.state = "withdrawn"]
          BY <2>1, <2>3, <3>1
        <4>2. account[u] \in Account
          BY <2>1
        <4> QED
          BY <3>1, <4>1, <4>2 DEF Account
      <3>2. CASE v # u
        BY <2>1, <2>3, <3>2
      <3> QED
        BY <3>1, <3>2
    <2> QED
      BY <2>4, <2>5 DEF AccountsGo, AccountsStand
  <1>3. FlagsStand' /\ Browsing'
    BY <1>1, FlagsSame, BrowsingSame, Zenon DEF NoticesInv, Browsing
  <1>4. BrowsersStand' /\ PushesAreTheirs' /\ OptOutIsKept'
    <2>1. \A v, event : HasNotice(v, event) => HasNotice(v, event)'
      BY <1>1, Zenon DEF HasNotice
    <2> QED
      BY <1>1, <2>1, BrowsersSame, Zenon DEF NoticesInv
  <1>5. clock' \in 0..MaxClock /\ clock <= clock'
    BY <1>1 DEF NoticesInv
  <1> QED
    BY <1>1, <1>2, <1>3, <1>4, <1>5, Still

LEMMA SetArcadeKeeps ==
    ASSUME NoticesInv, NEW a \in Arcades, NEW look, SetArcade(a, look)
    PROVE  NoticesInv'
  <1>1. UNCHANGED <<clock, account, flag, story, inbox, seq, device, pref, queue, browse>>
    BY DEF SetArcade
  <1>2. AccountsGo /\ FlagsStand' /\ Browsing' /\ BrowsersStand' /\ PushesAreTheirs' /\ OptOutIsKept'
    <2>1. \A v, event : HasNotice(v, event) => HasNotice(v, event)'
      BY <1>1, Zenon DEF HasNotice
    <2> QED
      BY <1>1, <2>1, AccountsSame, FlagsSame, BrowsingSame, BrowsersSame, Zenon DEF NoticesInv, Browsing
  <1>3. clock' \in 0..MaxClock /\ clock <= clock'
    BY <1>1 DEF NoticesInv
  <1> QED
    BY <1>1, <1>2, <1>3, Still

LEMMA TickKeeps ==
    ASSUME NoticesInv, Tick
    PROVE  NoticesInv'
  <1>1. clock < MaxClock /\ clock' = clock + 1
        /\ UNCHANGED <<account, flag, story, inbox, seq, device, pref, queue, browse>>
    BY DEF Tick
  <1>2. AccountsGo /\ FlagsStand' /\ Browsing' /\ BrowsersStand' /\ PushesAreTheirs' /\ OptOutIsKept'
    <2>1. \A v, event : HasNotice(v, event) => HasNotice(v, event)'
      BY <1>1, Zenon DEF HasNotice
    <2> QED
      BY <1>1, <2>1, AccountsSame, FlagsSame, BrowsingSame, BrowsersSame, Zenon DEF NoticesInv, Browsing
  <1>3. clock' \in 0..MaxClock /\ clock <= clock'
    BY <1>1 DEF NoticesInv
  <1> QED
    BY <1>1, <1>2, <1>3, Still

LEMMA RecipientsAre ==
    ASSUME NoticesInv, NEW a, NEW u
    PROVE  Recipients(a, u) \in SUBSET Members
  <1>1. \A e \in Endpoints : device[e] # None => device[e].user \in Members
    BY DEF NoticesInv, BrowsersStand, Device
  <1>2. \A v \in Recipients(a, u) : v \in {w \in Members : a \in account[w].owns}
           \/ v \in {device[e].user : e \in {x \in Endpoints : device[x] # None /\ pref[<<a, x>>] = "on"}}
    BY DEF Recipients
  <1> QED
    BY <1>1, <1>2

LEMMA SubmitKeeps ==
    ASSUME NoticesInv, NEW u \in Members, NEW f \in Flags, NEW a \in Arcades, Submit(u, f, a)
    PROVE  NoticesInv'
  <1> DEFINE event == Event("report_created", f)
             to == Recipients(a, u)
             new == NewEntries(to, event, a, {})
  <1>1. /\ flag' = [flag EXCEPT ![f] = [where |-> a, author |-> u]] /\ Tell(new, TRUE)
        /\ UNCHANGED <<clock, account, story, device, pref, browse>>
    BY DEF Submit
  <1>2. FlagsStand' /\ AccountsGo
    BY <1>1, AccountsSame DEF NoticesInv, FlagsStand
  <1>3. event \in Events
    BY DEF Event, Events
  <1>4. News(new, to, event, a, {}) /\ \A n \in new : ActiveAccount(n.user)
    <2>1. /\ seq \in 0..MaxSeq /\ to \in SUBSET Members /\ seq + Cardinality(new) <= MaxSeq
          /\ Reported(event, a)
      BY <1>1, RecipientsAre, NoReport DEF NoticesInv, InboxStands, Tell
    <2> HIDE DEF event, to
    <2> QED
      BY <1>3, <2>1, NewEntriesAre
  <1> HIDE DEF new, to
  <1>5. \A n \in new : account'[n.user].state # "absent"
    BY <1>1, <1>4 DEF ActiveAccount
  <1>6. \A s \in Announcements : event # Telling(s)
    BY EventsDiffer, Zenon
  <1> HIDE DEF event
  <1> QED
    BY <1>1, <1>2, <1>4, <1>5, <1>6, TellsOther

LEMMA ReactKeeps ==
    ASSUME NoticesInv, NEW u \in Members, NEW f \in Flags, React(u, f)
    PROVE  NoticesInv'
  <1> DEFINE event == <<"report_reaction", f, u>>
             to == {flag[f].author} \ {u}
             where == flag[f].where
             new == NewEntries(to, event, where, {})
  <1>1. /\ flag[f] # None /\ Tell(new, TRUE)
        /\ UNCHANGED <<clock, account, flag, story, device, pref, browse>>
    BY DEF React
  <1>2. FlagsStand' /\ AccountsGo
    BY <1>1, AccountsSame, FlagsSame DEF NoticesInv
  <1>3. event \in Events /\ to \in SUBSET Members /\ where \in Arcades
    <2>1. flag[f] \in [where : Arcades, author : Members]
      BY <1>1 DEF NoticesInv, FlagsStand
    <2> QED
      BY <2>1 DEF Events
  <1>4. News(new, to, event, where, {}) /\ \A n \in new : ActiveAccount(n.user)
    <2>1. seq \in 0..MaxSeq /\ seq + Cardinality(new) <= MaxSeq /\ Reported(event, where)
      BY <1>1, NoReport DEF NoticesInv, InboxStands, Tell
    <2> HIDE DEF event, to, where
    <2> QED
      BY <1>3, <2>1, NewEntriesAre
  <1> HIDE DEF new, to, where
  <1>5. \A n \in new : account'[n.user].state # "absent"
    BY <1>1, <1>4 DEF ActiveAccount
  <1>6. \A s \in Announcements : event # Telling(s)
    BY EventsDiffer, Zenon
  <1> HIDE DEF event
  <1> QED
    BY <1>1, <1>2, <1>4, <1>5, <1>6, TellsOther

LEMMA DrainKeeps ==
    ASSUME NoticesInv, DrainAimeRecoveries
    PROVE  NoticesInv'
  <1> DEFINE batch == FirstOf(Untold, Batch)
             event == <<"aime">>
             new == NewEntries(batch, event, None, {})
  <1>1. Tell(new, TRUE) /\ UNCHANGED <<clock, account, flag, story, device, pref, browse>>
    BY DEF DrainAimeRecoveries
  <1>2. FlagsStand' /\ AccountsGo
    BY <1>1, AccountsSame, FlagsSame DEF NoticesInv
  <1>3. event \in Events /\ batch \in SUBSET Members
    BY DEF Events, FirstOf, Untold
  <1>4. News(new, batch, event, None, {}) /\ \A n \in new : ActiveAccount(n.user)
    <2>1. seq \in 0..MaxSeq /\ seq + Cardinality(new) <= MaxSeq /\ Reported(event, None)
      BY <1>1, NoReport DEF NoticesInv, InboxStands, Tell
    <2> HIDE DEF event, batch
    <2> QED
      BY <1>3, <2>1, NewEntriesAre
  <1> HIDE DEF new, batch
  <1>5. \A n \in new : account'[n.user].state # "absent"
    BY <1>1, <1>4 DEF ActiveAccount
  <1>6. \A s \in Announcements : event # Telling(s)
    BY EventsDiffer, Zenon
  <1> HIDE DEF event
  <1> QED
    BY <1>1, <1>2, <1>4, <1>5, <1>6, TellsOther

-------------------------------------------------------------------------------
(* Browsers: what is queued stays meant for the account of its browser.    *)

SamePush(c, d) ==
    /\ d \in Push /\ d.user = c.user /\ d.event = c.event /\ d.where = c.where /\ d.endpoint = c.endpoint
    /\ c.done => d.done

LEMMA DevicesKeep ==
    ASSUME NoticesInv, UNCHANGED <<clock, account, flag, story, inbox, seq, browse>>,
           device' \in [Endpoints -> Device \cup {None}],
           pref' \in [Arcades \X Endpoints -> {"unset", "on", "off"}],
           \A d \in queue' : \E c \in queue :
              /\ SamePush(c, d) /\ Registered(c.user, c.endpoint)'
              /\ c.event[1] = "report_created" /\ pref'[<<c.where, c.endpoint>>] = "off"
                    => d.done \/ pref[<<c.where, c.endpoint>>] = "off"
    PROVE  NoticesInv'
  <1>1. AccountsGo /\ FlagsStand' /\ Browsing'
    BY AccountsSame, FlagsSame, BrowsingSame, Zenon DEF NoticesInv, Browsing
  <1>2. ASSUME NEW d \in queue'
        PROVE  /\ d \in Push /\ Registered(d.user, d.endpoint)' /\ HasNotice(d.user, d.event)'
               /\ d.event[1] = "report_created" /\ pref'[<<d.where, d.endpoint>>] = "off" => d.done
               /\ Reported(d.event, d.where) /\ \E c \in queue : c.event = d.event
    <2>1. PICK c \in queue :
              /\ SamePush(c, d) /\ Registered(c.user, c.endpoint)'
              /\ c.event[1] = "report_created" /\ pref'[<<c.where, c.endpoint>>] = "off"
                    => d.done \/ pref[<<c.where, c.endpoint>>] = "off"
      OBVIOUS
    <2>2. HasNotice(c.user, c.event) /\ (c.event[1] = "report_created" /\ pref[<<c.where, c.endpoint>>] = "off" => c.done)
      BY Zenon DEF NoticesInv, PushesAreTheirs, OptOutIsKept
    <2>4. Reported(c.event, c.where)
      BY Zenon DEF NoticesInv, BrowsersStand
    <2>3. HasNotice(c.user, c.event)'
      BY <2>2, Zenon DEF HasNotice
    <2> QED
      BY <2>1, <2>2, <2>3, <2>4, Zenon DEF SamePush
  <1>3. BrowsersStand' /\ PushesAreTheirs' /\ OptOutIsKept'
    <2>1. queue' \subseteq Push
      BY <1>2
    <2> QED
      BY <1>2, <2>1, Zenon DEF BrowsersStand, PushesAreTheirs, OptOutIsKept
  <1>4. clock' \in 0..MaxClock /\ clock <= clock'
    BY DEF NoticesInv
  <1> QED
    BY <1>1, <1>2, <1>3, <1>4, Still

\* The queue and the browsers are well formed.
LEMMA QueueIs ==
    ASSUME NoticesInv
    PROVE  /\ device \in [Endpoints -> Device \cup {None}]
           /\ pref \in [Arcades \X Endpoints -> {"unset", "on", "off"}]
           /\ \A d \in queue : d \in Push /\ d.endpoint \in Endpoints /\ Registered(d.user, d.endpoint)
           /\ \A d \in queue : SamePush(d, d) /\ Reported(d.event, d.where)
           /\ \A d \in Device : d # None
  <1>1. queue \subseteq Push
    BY DEF NoticesInv, BrowsersStand
  <1>2. \A d \in queue : d \in Push /\ d.endpoint \in Endpoints
    BY <1>1 DEF Push
  <1>3. \A d \in queue : Registered(d.user, d.endpoint)
    BY Zenon DEF NoticesInv, PushesAreTheirs
  <1>6. \A d \in queue : Reported(d.event, d.where)
    BY Zenon DEF NoticesInv, BrowsersStand
  <1>4. \A d \in Device : d # None
    OBVIOUS
  <1>5. \A d \in queue : SamePush(d, d)
    BY <1>2, Zenon DEF SamePush
  <1> QED
    BY <1>2, <1>3, <1>4, <1>5, <1>6, Zenon DEF NoticesInv, BrowsersStand


\* The browser of another account, or one removed, takes its pushes with it.
LEMMA WithoutKeeps ==
    ASSUME NoticesInv, UNCHANGED <<clock, account, flag, story, inbox, seq, browse>>,
           NEW e \in Endpoints, NEW d \in Device \cup {None}, device' = [device EXCEPT ![e] = d],
           pref' \in [Arcades \X Endpoints -> {"unset", "on", "off"}],
           \A a \in Arcades, x \in Endpoints : x # e => pref'[<<a, x>>] = pref[<<a, x>>],
           queue' = {c \in queue : c.endpoint # e}
    PROVE  NoticesInv'
  <1>1. device' \in [Endpoints -> Device \cup {None}] /\ \A x \in Endpoints : x # e => device'[x] = device[x]
    BY QueueIs
  <1>2. ASSUME NEW c \in queue'
        PROVE  /\ c \in queue /\ SamePush(c, c) /\ Registered(c.user, c.endpoint)'
               /\ c.event[1] = "report_created" /\ pref'[<<c.where, c.endpoint>>] = "off"
                    => pref[<<c.where, c.endpoint>>] = "off"
    <2>1. c \in queue /\ c.endpoint # e
      OBVIOUS
    <2>2. c.endpoint \in Endpoints /\ Registered(c.user, c.endpoint) /\ Reported(c.event, c.where) /\ SamePush(c, c)
      BY <2>1, QueueIs
    <2>3. Registered(c.user, c.endpoint)'
      BY <1>1, <2>1, <2>2, Zenon DEF Registered
    <2>4. c.event[1] = "report_created" => pref'[<<c.where, c.endpoint>>] = pref[<<c.where, c.endpoint>>]
      BY <2>1, <2>2, Zenon DEF Reported
    <2> QED
      BY <2>1, <2>2, <2>3, <2>4, Zenon
  <1> QED
    BY <1>1, <1>2, DevicesKeep, Zenon

LEMMA RemoveDeviceKeeps ==
    ASSUME NoticesInv, NEW u \in Members, NEW e \in Endpoints, RemoveDevice(u, e)
    PROVE  NoticesInv'
  <1>1. /\ device' = [device EXCEPT ![e] = None]
        /\ pref' = [p \in Arcades \X Endpoints |-> IF p[2] = e THEN "unset" ELSE pref[p]]
        /\ queue' = {c \in queue : c.endpoint # e}
        /\ UNCHANGED <<clock, account, flag, story, inbox, seq, browse>>
    BY DEF RemoveDevice, Without
  <1>2. /\ pref' \in [Arcades \X Endpoints -> {"unset", "on", "off"}]
        /\ \A a \in Arcades, x \in Endpoints : x # e => pref'[<<a, x>>] = pref[<<a, x>>]
    BY <1>1, QueueIs
  <1> QED
    BY <1>1, <1>2, WithoutKeeps

LEMMA RegisterDeviceKeeps ==
    ASSUME NoticesInv, NEW u \in Members, NEW e \in Endpoints, NEW locale \in Locales, RegisterDevice(u, e, locale)
    PROVE  NoticesInv'
  <1> DEFINE d == [user |-> u, locale |-> locale]
  <1>1. /\ device' = [device EXCEPT ![e] = d]
        /\ UNCHANGED <<clock, account, flag, story, inbox, seq, browse>>
    BY DEF RegisterDevice
  <1>2. d \in Device /\ d.user = u /\ d # None
    BY DEF Device
  <1> HIDE DEF d
  <1>3. CASE Registered(u, e)
    <2>1. pref' = pref /\ queue' = queue
      BY <1>3 DEF RegisterDevice
    <2>2. device' \in [Endpoints -> Device \cup {None}]
      BY <1>1, <1>2, QueueIs
    <2>3. ASSUME NEW c \in queue PROVE Registered(c.user, c.endpoint)'
      <3>1. Registered(c.user, c.endpoint) /\ c.endpoint \in Endpoints
        BY QueueIs
      <3>2. CASE c.endpoint = e
        <4>1. c.user = u /\ device'[c.endpoint] = d
          BY <1>1, <1>3, <3>1, <3>2, QueueIs DEF Registered
        <4> QED
          BY <1>2, <4>1 DEF Registered
      <3>3. CASE c.endpoint # e
        BY <1>1, <3>1, <3>3, QueueIs DEF Registered
      <3> QED
        BY <3>2, <3>3
    <2>4. \A c \in queue' :
             /\ c \in queue /\ SamePush(c, c) /\ Registered(c.user, c.endpoint)'
             /\ pref'[<<c.where, c.endpoint>>] = "off" => pref[<<c.where, c.endpoint>>] = "off"
      BY <2>1, <2>3, QueueIs, Zenon
    <2>5. pref' \in [Arcades \X Endpoints -> {"unset", "on", "off"}]
      BY <2>1, QueueIs
    <2> QED
      BY <1>1, <2>2, <2>4, <2>5, DevicesKeep, Zenon
  <1>4. CASE ~ Registered(u, e)
    <2>1. /\ pref' = [p \in Arcades \X Endpoints |-> IF p[2] = e THEN "unset" ELSE pref[p]]
          /\ queue' = {c \in queue : c.endpoint # e}
      BY <1>4 DEF RegisterDevice, Without
    <2>2. /\ pref' \in [Arcades \X Endpoints -> {"unset", "on", "off"}]
          /\ \A a \in Arcades, x \in Endpoints : x # e => pref'[<<a, x>>] = pref[<<a, x>>]
      BY <2>1, QueueIs
    <2> QED
      BY <1>1, <1>2, <2>1, <2>2, WithoutKeeps
  <1> QED
    BY <1>3, <1>4

LEMMA SyncLocaleKeeps ==
    ASSUME NoticesInv, NEW u \in Members, NEW e \in Endpoints, NEW locale \in Locales, SyncLocale(u, e, locale)
    PROVE  NoticesInv'
  <1>1. /\ Registered(u, e) /\ device' = [device EXCEPT ![e].locale = locale]
        /\ UNCHANGED <<clock, account, flag, story, inbox, seq, pref, queue, browse>>
    BY DEF SyncLocale
  <1>2. device[e] \in Device
    BY <1>1, QueueIs DEF Registered
  <1>3. /\ [device[e] EXCEPT !.locale = locale] \in Device
        /\ [device[e] EXCEPT !.locale = locale].user = device[e].user
    BY <1>2 DEF Device
  <1>4. device' = [device EXCEPT ![e] = [device[e] EXCEPT !.locale = locale]]
    BY <1>1
  <1>5. /\ device' \in [Endpoints -> Device \cup {None}]
        /\ \A x \in Endpoints : \A v : Registered(v, x) => Registered(v, x)'
    BY <1>3, <1>4, QueueIs DEF Registered
  <1>6. \A c \in queue' :
           /\ c \in queue /\ SamePush(c, c) /\ Registered(c.user, c.endpoint)'
           /\ pref'[<<c.where, c.endpoint>>] = "off" => pref[<<c.where, c.endpoint>>] = "off"
    BY <1>1, <1>5, QueueIs, Zenon
  <1>7. pref' \in [Arcades \X Endpoints -> {"unset", "on", "off"}]
    BY <1>1, QueueIs
  <1> QED
    BY <1>1, <1>5, <1>6, <1>7, DevicesKeep, Zenon

LEMMA SubscribeKeeps ==
    ASSUME NoticesInv, NEW u \in Members, NEW a \in Arcades, NEW e \in Endpoints, Subscribe(u, a, e)
    PROVE  NoticesInv'
  <1>1. UNCHANGED <<clock, account, flag, story, inbox, seq, browse>>
    BY DEF Subscribe
  <1>2. CASE Registered(u, e)
    <2>1. pref' = [pref EXCEPT ![<<a, e>>] = "on"] /\ device' = device /\ queue' = queue
      BY <1>2 DEF Subscribe
    <2>2. pref' \in [Arcades \X Endpoints -> {"unset", "on", "off"}]
      BY <2>1, QueueIs
    <2>3. ASSUME NEW c \in queue', c.event[1] = "report_created", pref'[<<c.where, c.endpoint>>] = "off"
          PROVE  pref[<<c.where, c.endpoint>>] = "off"
      <3>1. c.where \in Arcades /\ c.endpoint \in Endpoints
        BY <2>1, <2>3, QueueIs DEF Reported
      <3>2. <<c.where, c.endpoint>> \in Arcades \X Endpoints
        BY <3>1
      <3> QED
        BY <2>1, <2>3, <3>2, QueueIs
    <2>4. \A c \in queue' : c \in queue /\ SamePush(c, c) /\ Registered(c.user, c.endpoint)'
      BY <2>1, QueueIs, Zenon DEF Registered
    <2>5. device' \in [Endpoints -> Device \cup {None}]
      BY <2>1, QueueIs
    <2> QED
      BY <1>1, <2>2, <2>3, <2>4, <2>5, DevicesKeep, Zenon
  <1>3. CASE ~ Registered(u, e)
    <2> DEFINE d == [user |-> u, locale |-> "ko"]
    <2>1. /\ device' = [device EXCEPT ![e] = d] /\ queue' = {c \in queue : c.endpoint # e}
          /\ pref' = [p \in Arcades \X Endpoints |->
                        IF p[2] # e THEN pref[p] ELSE IF p[1] = a THEN "on" ELSE "unset"]
      BY <1>3 DEF Subscribe
    <2>2. d \in Device
      BY DEF Device
    <2>3. /\ pref' \in [Arcades \X Endpoints -> {"unset", "on", "off"}]
          /\ \A b \in Arcades, x \in Endpoints : x # e => pref'[<<b, x>>] = pref[<<b, x>>]
      BY <2>1, QueueIs
    <2> HIDE DEF d
    <2> QED
      BY <1>1, <2>1, <2>2, <2>3, WithoutKeeps
  <1> QED
    BY <1>2, <1>3

LEMMA DoneIs ==
    ASSUME NEW c \in Push
    PROVE  SamePush(c, [c EXCEPT !.done = TRUE]) /\ [c EXCEPT !.done = TRUE].done
  BY DEF Push, SamePush

LEMMA UnsubscribeKeeps ==
    ASSUME NoticesInv, NEW u \in Members, NEW a \in Arcades, NEW e \in Endpoints, Unsubscribe(u, a, e)
    PROVE  NoticesInv'
  <1> DEFINE stops(c) == c.endpoint = e /\ c.event[1] = "report_created" /\ c.where = a
  <1>1. /\ pref' = [pref EXCEPT ![<<a, e>>] = "off"]
        /\ queue' = {IF stops(c) THEN [c EXCEPT !.done = TRUE] ELSE c : c \in queue}
        /\ UNCHANGED <<clock, account, flag, story, inbox, seq, device, browse>>
    BY DEF Unsubscribe
  <1>2. /\ pref' \in [Arcades \X Endpoints -> {"unset", "on", "off"}]
        /\ \A b \in Arcades, x \in Endpoints : <<b, x>> # <<a, e>> => pref'[<<b, x>>] = pref[<<b, x>>]
    BY <1>1, QueueIs
  <1>3. ASSUME NEW d \in queue'
        PROVE  \E c \in queue :
                  /\ SamePush(c, d) /\ Registered(c.user, c.endpoint)'
                  /\ c.event[1] = "report_created" /\ pref'[<<c.where, c.endpoint>>] = "off"
                        => d.done \/ pref[<<c.where, c.endpoint>>] = "off"
    <2>1. PICK c \in queue : d = IF stops(c) THEN [c EXCEPT !.done = TRUE] ELSE c
      BY <1>1
    <2>2. /\ c \in Push /\ c.endpoint \in Endpoints /\ Reported(c.event, c.where) /\ SamePush(c, c)
          /\ Registered(c.user, c.endpoint)'
      BY <1>1, QueueIs, Zenon DEF Registered
    <2>3. CASE stops(c)
      <3>1. SamePush(c, d) /\ d.done
        BY <2>1, <2>2, <2>3, DoneIs
      <3> QED
        BY <2>2, <3>1, Zenon
    <2>4. CASE ~ stops(c)
      <3>1. d = c
        BY <2>1, <2>4
      <3>2. ASSUME c.event[1] = "report_created" PROVE pref'[<<c.where, c.endpoint>>] = pref[<<c.where, c.endpoint>>]
        <4>1. c.where \in Arcades /\ (c.endpoint # e \/ c.where # a)
          BY <2>2, <2>4, <3>2 DEF Reported
        <4> QED
          BY <1>2, <2>2, <4>1
      <3> QED
        BY <2>2, <3>1, <3>2, Zenon
    <2> QED
      BY <2>3, <2>4
  <1>4. device' \in [Endpoints -> Device \cup {None}]
    BY <1>1, QueueIs
  <1> QED
    BY <1>1, <1>2, <1>3, <1>4, DevicesKeep, Zenon

LEMMA DeliverPushKeeps ==
    ASSUME NoticesInv, NEW p, DeliverPush(p)
    PROVE  NoticesInv'
  <1>1. /\ p \in queue /\ queue' = (queue \ {p}) \cup {[p EXCEPT !.done = TRUE]}
        /\ UNCHANGED <<clock, account, flag, story, inbox, seq, device, pref, browse>>
    BY DEF DeliverPush
  <1>2. \A c \in queue : SamePush(c, c) /\ SamePush(c, [c EXCEPT !.done = TRUE]) /\ Registered(c.user, c.endpoint)'
    BY <1>1, QueueIs, DoneIs, Zenon DEF Registered
  <1>3. \A d \in queue' : \E c \in queue :
           /\ SamePush(c, d) /\ Registered(c.user, c.endpoint)'
           /\ c.event[1] = "report_created" /\ pref'[<<c.where, c.endpoint>>] = "off"
                 => d.done \/ pref[<<c.where, c.endpoint>>] = "off"
    <2> TAKE d \in queue'
    <2>1. d \in queue \/ d = [p EXCEPT !.done = TRUE]
      BY <1>1
    <2>2. CASE d \in queue
      BY <1>1, <1>2, <2>2, Zenon
    <2>3. CASE d = [p EXCEPT !.done = TRUE]
      BY <1>1, <1>2, <2>3, Zenon
    <2> QED
      BY <2>1, <2>2, <2>3
  <1>4. /\ device' \in [Endpoints -> Device \cup {None}]
        /\ pref' \in [Arcades \X Endpoints -> {"unset", "on", "off"}]
    BY <1>1, QueueIs
  <1> QED
    BY <1>1, <1>3, <1>4, DevicesKeep, Zenon

-------------------------------------------------------------------------------
(* A story is written, published, archived: the others are as they were.   *)

LEMMA StoryChanges ==
    ASSUME NoticesInv, UNCHANGED <<clock, account, flag, inbox, seq, device, pref, queue, browse>>,
           NEW s \in Announcements, NEW new \in Story, story' = [story EXCEPT ![s] = new],
           new.status = "draft" => new.cursor = 0 /\ ~new.sent /\ new.audience = {},
           new.status = "published" => HasTexts(new.texts, new.locales),
           new.at <= clock, SameStory(s) \/ StoryTold(s)'
    PROVE  NoticesInv'
  <1>1. AccountsGo
    BY AccountsSame DEF NoticesInv
  <1>2. InboxStands' /\ \A u, event : HasNotice(u, event) => HasNotice(u, event)'
    BY <1>1, InboxSame DEF NoticesInv
  <1>3. \A t : NoNews(t)
    BY Silence, Zenon
  <1>4. BrowsersStand' /\ PushesAreTheirs' /\ OptOutIsKept' /\ FlagsStand' /\ Browsing'
    BY <1>2, BrowsersSame, FlagsSame, BrowsingSame, Zenon DEF NoticesInv, Browsing
  <1>5. story \in [Announcements -> Story] /\ story'[s] = new /\ \A t \in Announcements : t # s => story'[t] = story[t]
    BY DEF NoticesInv, StoriesStand
  <1>6. ASSUME NEW t \in Announcements
        PROVE  /\ StoryTold(t)'
               /\ story'[t].status = "draft"
                     => story'[t].cursor = 0 /\ ~story'[t].sent /\ story'[t].audience = {}
               /\ story'[t].status = "published" => HasTexts(story'[t].texts, story'[t].locales)
               /\ story'[t].at <= clock
    <2>1. CASE t = s
      <3>1. StoryTold(t)'
        BY <1>1, <1>3, <2>1, StoryStays, Zenon DEF NoticesInv
      <3> QED
        BY <1>5, <2>1, <3>1, Zenon
    <2>2. CASE t # s
      <3>1. story'[t] = story[t]
        BY <1>5, <2>2
      <3>2. SameStory(t)
        BY <3>1, Zenon DEF SameStory
      <3>3. StoryTold(t)'
        BY <1>1, <1>3, <3>2, StoryStays, Zenon DEF NoticesInv
      <3> QED
        BY <3>1, <3>3, Zenon DEF NoticesInv, StoriesStand
    <2> QED
      BY <2>1, <2>2
  <1>7. story' \in [Announcements -> Story]
    BY <1>5
  <1>8. StoriesStand' /\ AccountsStand' /\ Born' /\ clock' \in 0..MaxClock
    <2>1. clock' = clock
      OBVIOUS
    <2>2. StoriesStand'
      BY <1>6, <1>7, <2>1, Zenon DEF StoriesStand, HasTexts
    <2> QED
      BY <1>1, <2>1, <2>2, Zenon DEF NoticesInv, AccountsGo, Born
  <1> QED
    BY <1>2, <1>4, <1>8, Zenon DEF NoticesInv, Browsing

LEMMA StoryIs ==
    ASSUME NoticesInv, NEW s \in Announcements
    PROVE  /\ story[s] \in Story /\ story \in [Announcements -> Story] /\ StoryTold(s) /\ story[s].at <= clock
           /\ story[s].status = "draft" => story[s].cursor = 0 /\ ~story[s].sent /\ story[s].audience = {}
           /\ story[s].status = "published" => HasTexts(story[s].texts, story[s].locales)
  BY DEF NoticesInv, StoriesStand

LEMMA EditStoryKeeps ==
    ASSUME NoticesInv, NEW s \in Announcements, NEW texts \in SUBSET Locales, Edit(s, texts)
    PROVE  NoticesInv'
  <1> DEFINE new == [story[s] EXCEPT !.texts = texts]
  <1>1. /\ story' = [story EXCEPT ![s] = new]
        /\ UNCHANGED <<clock, account, flag, inbox, seq, device, pref, queue, browse>>
        /\ story[s].status = "published" => HasTexts(texts, story[s].locales)
    BY DEF Edit
  <1>2. /\ new \in Story /\ new.texts = texts /\ new.status = story[s].status /\ new.cursor = story[s].cursor
        /\ new.sent = story[s].sent /\ new.audience = story[s].audience /\ new.locales = story[s].locales
        /\ new.at = story[s].at /\ new.quiet = story[s].quiet
    BY StoryIs DEF Story
  <1> HIDE DEF new
  <1>3. story'[s] = new
    BY <1>1, StoryIs
  <1>4. SameStory(s)
    BY <1>2, <1>3, Zenon DEF SameStory
  <1>5. /\ new.status = "draft" => new.cursor = 0 /\ ~new.sent /\ new.audience = {}
        /\ new.status = "published" => HasTexts(new.texts, new.locales)
        /\ new.at <= clock
    BY <1>1, <1>2, StoryIs, Zenon
  <1> QED
    BY <1>1, <1>2, <1>4, <1>5, StoryChanges, Zenon

LEMMA ArchiveStoryKeeps ==
    ASSUME NoticesInv, NEW s \in Announcements, ArchiveStory(s)
    PROVE  NoticesInv'
  <1> DEFINE new == [story[s] EXCEPT !.status = "archived"]
  <1>1. /\ story' = [story EXCEPT ![s] = new]
        /\ UNCHANGED <<clock, account, flag, inbox, seq, device, pref, queue, browse>>
    BY DEF ArchiveStory
  <1>2. /\ new \in Story /\ new.status = "archived" /\ new.cursor = story[s].cursor
        /\ new.sent = story[s].sent /\ new.audience = story[s].audience /\ new.locales = story[s].locales
        /\ new.at = story[s].at /\ new.quiet = story[s].quiet
    BY StoryIs DEF Story
  <1> HIDE DEF new
  <1>3. story'[s] = new
    BY <1>1, StoryIs
  <1>4. SameStory(s)
    BY <1>2, <1>3 DEF SameStory
  <1>5. new.at <= clock
    BY <1>2, StoryIs, Zenon
  <1>6. new.status # "draft" /\ new.status # "published"
    BY <1>2
  <1> QED
    BY <1>1, <1>2, <1>4, <1>5, <1>6, StoryChanges, Zenon

LEMMA PublishKeeps ==
    ASSUME NoticesInv, NEW s \in Announcements, NEW locales \in SUBSET Locales, NEW quiet \in BOOLEAN,
           Publish(s, locales, quiet)
    PROVE  NoticesInv'
  <1> DEFINE there == {u \in Members : ActiveAccount(u)}
             new == [story[s] EXCEPT !.status = "published", !.locales = locales, !.at = clock, !.quiet = quiet,
                                     !.audience = there]
  <1>1. /\ story' = [story EXCEPT ![s] = new]
        /\ story[s].status = "draft" /\ HasTexts(story[s].texts, locales)
        /\ UNCHANGED <<clock, account, flag, inbox, seq, device, pref, queue, browse>>
    BY DEF Publish
  <1>2. /\ new \in Story /\ new.texts = story[s].texts /\ new.status = "published" /\ new.cursor = 0
        /\ ~new.sent /\ new.audience = there /\ new.locales = locales
        /\ new.at = clock /\ new.quiet = quiet
    <2>1. clock \in Nat /\ there \in SUBSET Members
      BY DEF NoticesInv
    <2>2. story[s] \in Story /\ story[s].cursor = 0 /\ ~story[s].sent
      BY <1>1, StoryIs, Zenon
    <2> HIDE DEF there
    <2> QED
      BY <2>1, <2>2 DEF Story
  <1> HIDE DEF new
  <1>3. story'[s] = new
    BY <1>1, StoryIs
  <1>4. \A n \in inbox : n.event # Telling(s)
    BY <1>1, StoryIs, Zenon DEF StoryTold
  <1>5. \A d \in queue : d.event # Telling(s)
    <2>1. \A d \in queue : HasNotice(d.user, d.event)
      BY Zenon DEF NoticesInv, PushesAreTheirs
    <2> QED
      BY <1>4, <2>1, Zenon DEF HasNotice
  <1>6. ASSUME NEW u \in there
        PROVE  account[u].state # "absent" /\ account[u].born <= clock /\ ~ (u <= 0)
    <2>1. u \in Members /\ u \in Nat /\ u >= 1
      BY MembersAre
    <2>2. ~ (u <= 0)
      BY <2>1
    <2>3. account[u].state = "active"
      BY DEF ActiveAccount
    <2> QED
      BY <2>1, <2>2, <2>3 DEF NoticesInv, Born
  <1>7. StoryTold(s)'
    <2>1. \A n \in inbox' : n.event # Telling(s)
      BY <1>1, <1>4
    <2>2. \A d \in queue' : d.event # Telling(s)
      BY <1>1, <1>5
    <2>3. \A u \in story'[s].audience :
             /\ account'[u].state # "absent" /\ account'[u].born <= story'[s].at
             /\ ~ (u <= story'[s].cursor) /\ ~ story'[s].sent
      BY <1>1, <1>2, <1>3, <1>6, Zenon
    <2> QED
      BY <2>1, <2>2, <2>3, Zenon DEF StoryTold
  <1>8. new.at <= clock /\ new.status # "draft" /\ HasTexts(new.texts, new.locales)
    BY <1>1, <1>2 DEF NoticesInv
  <1> QED
    BY <1>1, <1>2, <1>7, <1>8, StoryChanges, Zenon

-------------------------------------------------------------------------------
(* Rows that go, and rows that are read.                                   *)

\* The row a changed inbox has of another: all but that it was read.
SameRow(m, n) ==
    /\ n \in Entry /\ n.user = m.user /\ n.event = m.event /\ n.where = m.where /\ n.copy = m.copy
    /\ n.seq = m.seq

LEMMA InboxChanges ==
    ASSUME NoticesInv, UNCHANGED <<clock, account, story, seq, device, pref, browse>>, FlagsStand',
           NEW r, \A n \in inbox : SameRow(n, r[n]), \A n \in inbox' : \E m \in inbox : n = r[m],
           queue' \subseteq queue, \A d \in queue' : HasNotice(d.user, d.event)',
           \A s \in Announcements, m \in inbox : m.event = Telling(s) => r[m] \in inbox'
    PROVE  NoticesInv'
  <1>1. AccountsGo /\ Browsing' /\ clock' \in 0..MaxClock /\ clock \in Nat /\ clock' \in Nat /\ clock <= clock'
    BY AccountsSame, BrowsingSame DEF NoticesInv, Browsing
  <1>2. InboxStands'
    <2>1. InboxStands
      BY DEF NoticesInv
    <2>2. ASSUME NEW n \in inbox' PROVE n \in Entry /\ n.seq <= seq' /\ account'[n.user].state # "absent"
      <3>1. PICK m \in inbox : n = r[m]
        OBVIOUS
      <3>2. SameRow(m, n) /\ m.seq <= seq /\ account[m.user].state # "absent"
        BY <2>1, <3>1, Zenon DEF InboxStands
      <3> QED
        BY <3>2, Zenon DEF SameRow
    <2>3. ASSUME NEW n \in inbox', NEW m \in inbox', n.seq = m.seq PROVE n = m
      <3>1. PICK x \in inbox : n = r[x]
        OBVIOUS
      <3>2. PICK y \in inbox : m = r[y]
        OBVIOUS
      <3>3. x.seq = y.seq
        BY <2>3, <3>1, <3>2, Zenon DEF SameRow
      <3>4. x = y
        BY <2>1, <3>3, Zenon DEF InboxStands
      <3> QED
        BY <3>1, <3>2, <3>4
    <2>4. inbox' \subseteq Entry /\ seq' \in 0..MaxSeq
      BY <2>1, <2>2 DEF InboxStands
    <2> QED
      BY <2>2, <2>3, <2>4, Zenon DEF InboxStands
  <1>3. BrowsersStand' /\ PushesAreTheirs' /\ OptOutIsKept'
    <2>1. /\ device \in [Endpoints -> Device \cup {None}]
          /\ pref \in [Arcades \X Endpoints -> {"unset", "on", "off"}]
          /\ \A d \in queue : /\ d \in Push /\ Reported(d.event, d.where) /\ Registered(d.user, d.endpoint)
                              /\ d.event[1] = "report_created" /\ pref[<<d.where, d.endpoint>>] = "off" => d.done
      BY QueueIs, Zenon DEF NoticesInv, OptOutIsKept
    <2>2. BrowsersStand'
      <3>1. queue' \subseteq Push /\ \A d \in queue' : Reported(d.event, d.where)
        BY <2>1
      <3> QED
        BY <2>1, <3>1, Zenon DEF BrowsersStand
    <2>3. \A d \in queue' : Registered(d.user, d.endpoint)'
      BY <2>1 DEF Registered
    <2>4. PushesAreTheirs'
      BY <2>3, Zenon DEF PushesAreTheirs
    <2>5. OptOutIsKept'
      BY <2>1 DEF OptOutIsKept
    <2> QED
      BY <2>2, <2>4, <2>5
  <1>4. ASSUME NEW s \in Announcements PROVE NoNews(s)
    <2>1. ASSUME NEW u, HasNotice(u, Telling(s)) PROVE HasNotice(u, Telling(s))'
      <3>1. PICK m \in inbox : m.user = u /\ m.event = Telling(s)
        BY <2>1, Zenon DEF HasNotice
      <3>2. r[m] \in inbox' /\ SameRow(m, r[m])
        BY <3>1, Zenon
      <3> QED
        BY <3>1, <3>2, Zenon DEF HasNotice, SameRow
    <2>2. ASSUME NEW n \in inbox'
          PROVE  \E m \in inbox : m.user = n.user /\ m.event = n.event /\ m.copy = n.copy
      <3>1. PICK m \in inbox : n = r[m]
        OBVIOUS
      <3>2. SameRow(m, n)
        BY <3>1, Zenon
      <3> QED
        BY <3>2, Zenon DEF SameRow
    <2>3. \A d \in queue' : d \in queue
      OBVIOUS
    <2> QED
      BY <2>1, <2>2, <2>3, Zenon DEF NoNews
  <1>5. StoriesStand' /\ Born'
    BY <1>1, <1>4, StoriesStay, BornStays, Zenon DEF NoticesInv
  <1> QED
    BY <1>1, <1>2, <1>3, <1>5, Zenon DEF NoticesInv, AccountsGo, Browsing

LEMMA DeleteFlagKeeps ==
    ASSUME NoticesInv, NEW f \in Flags, DeleteFlag(f)
    PROVE  NoticesInv'
  <1>1. /\ flag' = [flag EXCEPT ![f] = None] /\ inbox' = {n \in inbox : ~About(n.event, f)}
        /\ queue' = {d \in queue : ~About(d.event, f)}
        /\ UNCHANGED <<clock, account, story, seq, device, pref, browse>>
    BY DEF DeleteFlag
  <1> DEFINE r == Self(inbox)
  <1>2. \A n \in inbox : r[n] = n /\ n \in Entry
    BY DEF Self, NoticesInv, InboxStands
  <1>3. \A n \in inbox : SameRow(n, r[n])
    BY <1>2, Zenon DEF SameRow
  <1>4. FlagsStand'
    BY <1>1 DEF NoticesInv, FlagsStand
  <1>5. ASSUME NEW d \in queue' PROVE HasNotice(d.user, d.event)'
    <2>1. d \in queue /\ ~About(d.event, f)
      BY <1>1
    <2>2. HasNotice(d.user, d.event)
      BY <2>1, Zenon DEF NoticesInv, PushesAreTheirs
    <2>3. PICK n \in inbox : n.user = d.user /\ n.event = d.event
      BY <2>2, Zenon DEF HasNotice
    <2>4. n \in inbox'
      BY <1>1, <2>1, <2>3
    <2> QED
      BY <2>3, <2>4, Zenon DEF HasNotice
  <1>6. \A s \in Announcements : ~About(Telling(s), f)
    BY DEF About, Telling
  <1>7. \A s \in Announcements, m \in inbox : m.event = Telling(s) => r[m] \in inbox'
    BY <1>1, <1>2, <1>6
  <1>8. queue' \subseteq queue /\ \A n \in inbox' : n \in inbox
    BY <1>1
  <1>9. \A n \in inbox' : \E m \in inbox : n = r[m]
    BY <1>2, <1>8, Zenon
  <1> HIDE DEF r
  <1> QED
    BY <1>1, <1>3, <1>4, <1>5, <1>7, <1>8, <1>9, InboxChanges

LEMMA ReadingKeeps ==
    ASSUME NoticesInv, NEW S,
           inbox' = {IF n \in S THEN [n EXCEPT !.read = TRUE] ELSE n : n \in inbox},
           UNCHANGED <<clock, account, arcade, flag, story, seq, device, pref, queue, browse>>
    PROVE  NoticesInv'
  <1> DEFINE r == [n \in inbox |-> IF n \in S THEN [n EXCEPT !.read = TRUE] ELSE n]
  <1>1. ASSUME NEW n \in inbox PROVE SameRow(n, r[n]) /\ r[n] \in inbox'
    <2>1. n \in Entry
      BY DEF NoticesInv, InboxStands
    <2>2. SameRow(n, [n EXCEPT !.read = TRUE]) /\ SameRow(n, n)
      BY <2>1 DEF SameRow, Entry
    <2> QED
      BY <2>2
  <1>2. \A n \in inbox' : \E m \in inbox : n = r[m]
    OBVIOUS
  <1>3. FlagsStand'
    BY FlagsSame DEF NoticesInv
  <1> HIDE DEF r
  <1>4. ASSUME NEW d \in queue' PROVE HasNotice(d.user, d.event)'
    <2>1. HasNotice(d.user, d.event)
      BY Zenon DEF NoticesInv, PushesAreTheirs
    <2>2. PICK n \in inbox : n.user = d.user /\ n.event = d.event
      BY <2>1, Zenon DEF HasNotice
    <2>3. r[n] \in inbox' /\ r[n].user = d.user /\ r[n].event = d.event
      BY <1>1, <2>2 DEF SameRow
    <2> QED
      BY <2>3, Zenon DEF HasNotice
  <1>5. queue' \subseteq queue /\ UNCHANGED <<clock, account, story, seq, device, pref, browse>>
    OBVIOUS
  <1>6. \A s \in Announcements, m \in inbox : m.event = Telling(s) => r[m] \in inbox'
    BY <1>1
  <1>7. \A n \in inbox : SameRow(n, r[n])
    BY <1>1
  <1> QED
    BY <1>2, <1>3, <1>4, <1>5, <1>6, <1>7, InboxChanges

LEMMA ReadAllKeeps ==
    ASSUME NoticesInv, NEW u \in Members, ReadAll(u)
    PROVE  NoticesInv'
  <1> DEFINE S == {n \in inbox : n.user = u}
  <1>1. /\ inbox' = {IF n.user = u THEN [n EXCEPT !.read = TRUE] ELSE n : n \in inbox}
        /\ UNCHANGED <<clock, account, arcade, flag, story, seq, device, pref, queue, browse>>
    BY DEF ReadAll
  <1>2. inbox' = {IF n \in S THEN [n EXCEPT !.read = TRUE] ELSE n : n \in inbox}
    BY <1>1
  <1> HIDE DEF S
  <1> QED
    BY <1>1, <1>2, ReadingKeeps

LEMMA ReadKeeps ==
    ASSUME NoticesInv, NEW u \in Members, NEW m, Read(u, m)
    PROVE  NoticesInv'
  <1> DEFINE S == {m}
  <1>1. /\ m \in inbox /\ inbox' = (inbox \ {m}) \cup {[m EXCEPT !.read = TRUE]}
        /\ UNCHANGED <<clock, account, arcade, flag, story, seq, device, pref, queue, browse>>
    BY DEF Read
  <1>2. inbox' = {IF n \in S THEN [n EXCEPT !.read = TRUE] ELSE n : n \in inbox}
    <2> DEFINE read == [m EXCEPT !.read = TRUE]
    <2>1. \A n \in inbox : n \in S => [n EXCEPT !.read = TRUE] = read
      OBVIOUS
    <2>2. {IF n \in S THEN [n EXCEPT !.read = TRUE] ELSE n : n \in inbox} = {IF n = m THEN read ELSE n : n \in inbox}
      BY <2>1
    <2> HIDE DEF read
    <2> QED
      BY <1>1, <2>2
  <1> HIDE DEF S
  <1> QED
    BY <1>1, <1>2, ReadingKeeps

-------------------------------------------------------------------------------
(* The worker: the next accounts are told of the earliest story.           *)

LEMMA EarliestIs ==
    ASSUME NoticesInv, Unsent # {}
    PROVE  Earliest(Unsent) \in Unsent
  <1> DEFINE A == {story[s].at : s \in Unsent}
  <1>1. \A s \in Unsent : s \in Announcements /\ story[s].at \in 0..clock /\ clock \in Nat
    <2> TAKE s \in Unsent
    <2>1. s \in Announcements
      BY DEF Unsent
    <2>2. story[s].at \in Nat /\ story[s].at <= clock
      BY <2>1, StoryIs DEF Story
    <2>3. clock \in Nat
      BY DEF NoticesInv
    <2> QED
      BY <2>1, <2>2, <2>3
  <1>2. IsFiniteSet(A) /\ A # {} /\ A \subseteq Int
    <2>1. A \subseteq 0..clock /\ clock \in Nat /\ A # {}
      BY <1>1
    <2>2. IsFiniteSet(0..clock)
      BY <2>1, FS_Interval
    <2> HIDE DEF A
    <2>3. A \in SUBSET (0..clock) /\ A \subseteq Int
      BY <2>1
    <2> QED
      BY <2>1, <2>2, <2>3, FS_Subset
  <1>3. \E a \in A : \A b \in A : a <= b
    <2> HIDE DEF A
    <2>1. Distinct(A, Self(A)) /\ \A a \in A : Self(A)[a] = a
      BY <1>2 DEF Distinct, Self
    <2>2. Cardinality(A) \in Nat /\ Cardinality(A) # 0
      BY <1>2, FS_CardinalityType, FS_EmptySet
    <2>3. 1 \in 1..Cardinality(A)
      BY <2>2
    <2>4. PICK a \in A : Place(A, Self(A), a) = 1
      BY <2>1, <2>3, PlacesTaken
    <2>5. ASSUME NEW b \in A PROVE a <= b
      <3>1. Place(A, Self(A), b) \in 1..Cardinality(A)
        BY <2>1, PlaceIs
      <3>2. Place(A, Self(A), a) <= Place(A, Self(A), b)
        BY <2>2, <2>4, <3>1
      <3> QED
        BY <2>1, <3>2, PlaceIs
    <2> QED
      BY <2>5
  <1>4. \E s \in Unsent : \A t \in Unsent : story[s].at <= story[t].at
    BY <1>3
  <1> QED
    BY <1>4 DEF Earliest

LastIn(S, c) == CHOOSE u \in S \cup {c} : \A v \in S : v <= u

LEMMA LastInIs ==
    ASSUME NEW S \in SUBSET Members, NEW c \in {0} \cup Members, \A v \in S : c < v
    PROVE  LastIn(S, c) \in S \cup {c} /\ \A v \in S : v <= LastIn(S, c)
  <1>1. IsFiniteSet(S) /\ Cardinality(S) \in Nat /\ Distinct(S, Self(S)) /\ \A u \in S : Self(S)[u] = u
    BY MembersAre DEF Self
  <1>2. \E u \in S \cup {c} : \A v \in S : v <= u
    <2>1. CASE S = {}
      BY <2>1
    <2>2. CASE S # {}
      <3>1. Cardinality(S) # 0
        BY <1>1, <2>2, FS_EmptySet
      <3>2. Cardinality(S) \in 1..Cardinality(S)
        BY <1>1, <3>1
      <3>3. PICK u \in S : Place(S, Self(S), u) = Cardinality(S)
        BY <1>1, <3>2, PlacesTaken
      <3>4. ASSUME NEW v \in S PROVE v <= u
        <4>1. Place(S, Self(S), v) \in 1..Cardinality(S)
          BY <1>1, PlaceIs
        <4>2. Place(S, Self(S), v) <= Place(S, Self(S), u)
          BY <1>1, <3>3, <4>1
        <4> QED
          BY <1>1, <4>2, PlaceIs
      <3> QED
        BY <3>4
    <2> QED
      BY <2>1, <2>2
  <1> QED
    BY <1>2 DEF LastIn

LEMMA SendBatchKeeps ==
    ASSUME NoticesInv, SendBatch
    PROVE  NoticesInv'
  <1>0. PICK s \in Announcements : s = Earliest(Unsent)
    BY EarliestIs DEF SendBatch, Unsent
  <1> DEFINE next == Following(s)
             batch == FirstOf(next, Batch)
             last == LastIn(batch, story[s].cursor)
             event == Event("announcement", s)
             rows == NewEntries(batch, event, None, Copies(s))
             done == Cardinality(batch) < Batch
             sending == [story[s] EXCEPT !.cursor = last, !.sent = done]
             push == ~story[s].quiet
  <1>1. /\ Unsent # {} /\ Tell(rows, push)
        /\ story' = [story EXCEPT ![s] = sending]
        /\ UNCHANGED <<clock, account, arcade, flag, device, pref, browse>>
    BY <1>0 DEF SendBatch, LastIn
  <1>2. s \in Announcements /\ story[s].status = "published" /\ ~story[s].sent
    BY <1>0, <1>1, EarliestIs DEF Unsent
  <1>3. /\ story[s] \in Story /\ StoryTold(s) /\ Copies(s) = story[s].locales /\ Copies(s) \in SUBSET Locales
        /\ story[s].cursor \in {0} \cup Members /\ story[s].at <= clock
    <2>1. story[s] \in Story /\ StoryTold(s) /\ HasTexts(story[s].texts, story[s].locales) /\ story[s].at <= clock
      BY <1>2, StoryIs, Zenon
    <2> QED
      BY <2>1 DEF Story, HasTexts, Copies
  <1>4. /\ next \in SUBSET Members
        /\ \A u \in Members : u \in next <=> ActiveAccount(u) /\ u > story[s].cursor /\ account[u].born <= story[s].at
    BY DEF Following
  <1>5. /\ batch \in SUBSET Members /\ batch \subseteq next
        /\ \A u \in batch, v \in next : v <= u => v \in batch
        /\ done => batch = next
    <2> HIDE DEF next
    <2> QED
      BY <1>4, FirstOfIs
  <1>6. last \in batch \cup {story[s].cursor} /\ \A v \in batch : v <= last
    <2>1. \A v \in batch : story[s].cursor < v
      <3> HIDE DEF batch, next
      <3> QED
        BY <1>3, <1>4, <1>5, MembersAre
    <2> HIDE DEF batch, next
    <2> QED
      BY <1>3, <1>5, <2>1, LastInIs
  <1>7. event = Telling(s) /\ event \in Events
    BY <1>2 DEF Event, Telling, Events
  <1>8. News(rows, batch, event, None, Copies(s)) /\ \A n \in rows : ActiveAccount(n.user)
    <2>1. seq \in 0..MaxSeq /\ seq + Cardinality(rows) <= MaxSeq /\ Reported(event, None)
      BY <1>1, <1>7, NoReport DEF NoticesInv, InboxStands, Tell
    <2> HIDE DEF event, batch
    <2> QED
      BY <1>3, <1>5, <1>7, <2>1, NewEntriesAre
  <1>9. /\ sending \in Story /\ sending.cursor = last /\ sending.sent = done /\ sending.texts = story[s].texts
        /\ sending.status = "published" /\ sending.audience = story[s].audience
        /\ sending.locales = story[s].locales /\ sending.at = story[s].at /\ sending.quiet = story[s].quiet
    <2>1. last \in {0} \cup Members /\ done \in BOOLEAN
      BY <1>3, <1>5, <1>6
    <2> HIDE DEF last, done
    <2> QED
      BY <1>2, <1>3, <2>1 DEF Story
  <1> HIDE DEF rows, sending, last, batch, next, event, push
  <1>10. /\ story'[s] = sending /\ story' \in [Announcements -> Story]
         /\ \A t \in Announcements : t # s => story'[t] = story[t]
    BY <1>1, <1>2, <1>9 DEF NoticesInv, StoriesStand
  <1>11. AccountsGo /\ FlagsStand'
    BY <1>1, AccountsSame, FlagsSame DEF NoticesInv
  <1>12. InboxStands' /\ BrowsersStand' /\ PushesAreTheirs' /\ OptOutIsKept'
    <2>1. \A n \in rows : account'[n.user].state # "absent"
      BY <1>1, <1>8 DEF ActiveAccount
    <2> QED
      BY <1>1, <1>8, <1>11, <2>1, InboxTold, BrowsersTold DEF NoticesInv
  <1>13. inbox' = inbox \cup rows
    BY <1>1 DEF Tell
  <1>14. StoryTold(s)'
    <2>1. ASSUME NEW n \in inbox', n.event = Telling(s)
          PROVE  account'[n.user].born <= story'[s].at /\ n.copy = story'[s].locales /\ story'[s].status # "draft"
      <3>1. CASE n \in inbox
        BY <1>1, <1>3, <1>9, <1>10, <2>1, <3>1, Zenon DEF StoryTold
      <3>2. CASE n \in rows
        <4>1. n.user \in batch /\ n.copy = Copies(s)
          BY <1>8, <3>2, Zenon DEF News
        <4>2. account[n.user].born <= story[s].at
          BY <1>4, <1>5, <4>1
        <4> QED
          BY <1>1, <1>3, <1>9, <1>10, <4>1, <4>2
      <3> QED
        BY <1>13, <3>1, <3>2
    <2>2. ASSUME NEW u \in story'[s].audience
          PROVE  /\ account'[u].state # "absent" /\ account'[u].born <= story'[s].at
                 /\ ActiveAccount(u)' /\ (u <= story'[s].cursor \/ story'[s].sent) => HasNotice(u, Telling(s))'
      <3>1. u \in story[s].audience /\ u \in Members
        BY <1>3, <1>9, <1>10 DEF Story
      <3>2. /\ account[u].state # "absent" /\ account[u].born <= story[s].at
            /\ ActiveAccount(u) /\ u <= story[s].cursor => HasNotice(u, Telling(s))
        BY <1>3, <3>1, Zenon DEF StoryTold
      <3>3. ASSUME ActiveAccount(u)', u <= story'[s].cursor \/ story'[s].sent PROVE HasNotice(u, Telling(s))'
        <4>1. ActiveAccount(u)
          BY <1>1, <3>3, Zenon DEF ActiveAccount
        <4>2. CASE u <= story[s].cursor
          <5>1. HasNotice(u, Telling(s))
            BY <3>2, <4>1, <4>2
          <5> QED
            BY <1>13, <5>1 DEF HasNotice
        <4>3. CASE ~ (u <= story[s].cursor)
          <5>1. u \in next
            BY <1>3, <1>4, <3>1, <3>2, <4>1, <4>3, MembersAre
          <5>2. u \in batch
            <6>1. CASE done
              BY <1>5, <5>1, <6>1
            <6>2. CASE u <= last
              BY <1>5, <1>6, <4>3, <5>1, <6>2
            <6> QED
              BY <1>9, <1>10, <3>3, <6>1, <6>2, Zenon
          <5>3. HasNotice(u, Telling(s)) \/ \E n \in rows : n.user = u /\ n.event = Telling(s)
            BY <1>7, <1>8, <4>1, <5>2, Zenon DEF News
          <5> QED
            BY <1>13, <5>3 DEF HasNotice
        <4> QED
          BY <4>2, <4>3
      <3> QED
        BY <1>1, <1>9, <1>10, <3>2, <3>3, Zenon
    <2>3. ASSUME story'[s].quiet, NEW d \in queue' PROVE d.event # Telling(s)
      <3>1. ~push /\ story[s].quiet
        BY <1>9, <1>10, <2>3 DEF push
      <3>2. d \in queue
        <4>1. Tell(rows, push)
          BY <1>1
        <4>2. d \in queue \/ push
          BY <4>1, TellPushes
        <4> QED
          BY <3>1, <4>2
      <3> QED
        BY <1>3, <3>1, <3>2, Zenon DEF StoryTold
    <2> QED
      BY <2>1, <2>2, <2>3, Zenon DEF StoryTold
  <1>15. ASSUME NEW t \in Announcements, t # s PROVE StoryTold(t)'
    <2>1. event # Telling(t)
      BY <1>7, <1>15 DEF Telling
    <2>2. NoNews(t)
      BY <1>1, <1>8, <2>1, OtherNews
    <2>3. SameStory(t)
      BY <1>10, <1>15, Zenon DEF SameStory
    <2> QED
      BY <1>11, <2>2, <2>3, StoryStays DEF NoticesInv
  <1>16. StoriesStand'
    <2>1. ASSUME NEW t \in Announcements
          PROVE  /\ StoryTold(t)' /\ story'[t].at <= clock
                 /\ story'[t].status = "draft"
                       => story'[t].cursor = 0 /\ ~story'[t].sent /\ story'[t].audience = {}
                 /\ story'[t].status = "published" => HasTexts(story'[t].texts, story'[t].locales)
      <3>1. CASE t = s
        <4>1. HasTexts(story[s].texts, story[s].locales)
          BY <1>2, StoryIs, Zenon
        <4>2. story'[t] = sending /\ sending.status # "draft"
          BY <1>9, <1>10, <3>1
        <4> QED
          BY <1>3, <1>9, <1>14, <3>1, <4>1, <4>2, Zenon
      <3>2. CASE t # s
        BY <1>10, <1>15, <3>2, StoryIs, Zenon
      <3> QED
        BY <3>1, <3>2
    <2>2. clock' = clock
      BY <1>1
    <2> QED
      BY <1>10, <2>1, <2>2, Zenon DEF StoriesStand, HasTexts
  <1>17. Browsing' /\ clock' \in 0..MaxClock /\ Born'
    BY <1>1, <1>11, BrowsingSame DEF NoticesInv, Browsing, Born
  <1> QED
    BY <1>11, <1>12, <1>16, <1>17, Zenon DEF NoticesInv, AccountsGo, Browsing

-------------------------------------------------------------------------------
(* Pages of an inbox.                                                      *)

\* A page of what can be seen: from the newest on, older than what was seen, and nothing is left out
\* but what is older than the row to go on from.
Page(items, next, S, before) ==
    /\ items \in Seq(Entry) /\ next \in Entry \cup {None}
    /\ \A i, j \in DOMAIN items : i < j => items[i].seq > items[j].seq
    /\ \A i \in DOMAIN items : before = None \/ items[i].seq < before.seq
    /\ next # None =>
          /\ before = None \/ next.seq < before.seq
          /\ \A i \in DOMAIN items : items[i].seq >= next.seq
    /\ \A n \in S : before = None \/ n.seq < before.seq =>
          n \in ToSet(items) \/ (next # None /\ n.seq < next.seq)

ByTime(S) == [n \in S |-> -n.seq]

LEMMA InboxSorted ==
    ASSUME NoticesInv, NEW S \in SUBSET inbox
    PROVE  /\ S \subseteq Entry /\ Cardinality(S) \in Nat
           /\ NewestFirst(S) \in [1..Cardinality(S) -> S]
           /\ \A i, j \in 1..Cardinality(S) : i < j => NewestFirst(S)[i].seq > NewestFirst(S)[j].seq
           /\ \A n \in S : \E i \in 1..Cardinality(S) : NewestFirst(S)[i] = n
  <1> DEFINE k == ByTime(S)
             c == Cardinality(S)
  <1>1. S \subseteq Entry /\ \A n \in S : n.seq \in 1..MaxSeq /\ k[n] = -n.seq /\ n.seq \in Int
    BY DEF NoticesInv, InboxStands, Entry, ByTime
  <1>2. IsFiniteSet(S) /\ c \in Nat
    <2> DEFINE f == [n \in S |-> n.seq]
    <2>1. f \in [S -> 1..MaxSeq] /\ \A n, m \in S : f[n] = f[m] => n = m
      <3>1. f \in [S -> 1..MaxSeq]
        BY <1>1
      <3>2. \A n, m \in S : n.seq = m.seq => n = m
        BY Zenon DEF NoticesInv, InboxStands
      <3> QED
        BY <3>1, <3>2
    <2>2. IsFiniteSet(1..MaxSeq)
      BY FS_Interval
    <2>3. f \in Injection(S, 1..MaxSeq)
      <3> HIDE DEF f
      <3> QED
        BY <2>1, Zenon DEF Injection, IsInjective
    <2> HIDE DEF f
    <2> QED
      BY <2>2, <2>3, FS_Injection, FS_CardinalityType
  <1>3. Distinct(S, k)
    <2>1. \A n, m \in S : n.seq = m.seq => n = m
      BY Zenon DEF NoticesInv, InboxStands
    <2>2. \A n, m \in S : k[n] = k[m] => n.seq = m.seq
      BY <1>1
    <2>3. \A n \in S : k[n] \in Int
      BY <1>1
    <2> HIDE DEF k
    <2> QED
      BY <1>2, <2>1, <2>2, <2>3 DEF Distinct
  <1>4. \A rows : Sorted(rows, S, k) <=>
           rows \in [1..c -> S] /\ \A i, j \in 1..c : i < j => rows[i].seq > rows[j].seq
    <2> TAKE rows
    <2>1. ASSUME rows \in [1..c -> S], NEW i \in 1..c, NEW j \in 1..c
          PROVE  k[rows[i]] < k[rows[j]] <=> rows[i].seq > rows[j].seq
      <3>1. rows[i] \in S /\ rows[j] \in S
        BY <2>1
      <3>2. k[rows[i]] = -rows[i].seq /\ k[rows[j]] = -rows[j].seq /\ rows[i].seq \in Int /\ rows[j].seq \in Int
        BY <1>1, <3>1
      <3> QED
        BY <3>2
    <2> HIDE DEF k
    <2> QED
      BY <2>1 DEF Sorted
  <1>5. \E rows : Sorted(rows, S, k)
    BY <1>3, SortedExists
  <1>6. Sorted(NewestFirst(S), S, k)
    <2>1. \E rows \in [1..c -> S] : \A i, j \in 1..c : i < j => rows[i].seq > rows[j].seq
      BY <1>4, <1>5
    <2>2. /\ NewestFirst(S) \in [1..c -> S]
          /\ \A i, j \in 1..c : i < j => NewestFirst(S)[i].seq > NewestFirst(S)[j].seq
      BY <2>1 DEF NewestFirst
    <2> HIDE DEF k
    <2> QED
      BY <1>4, <2>2
  <1> HIDE DEF k
  <1>7. \A n \in S : \E i \in 1..Cardinality(S) : NewestFirst(S)[i] = n
    BY <1>3, <1>6, SortedIsAll
  <1> QED
    BY <1>1, <1>2, <1>4, <1>6, <1>7

LEMMA PageIs ==
    ASSUME NoticesInv, NEW S \in SUBSET inbox, NEW before \in Entry \cup {None}
    PROVE  Page(PageBelow(S, before).items, PageBelow(S, before).next, S, before)
  <1> DEFINE below == {n \in S : before = None \/ n.seq < before.seq}
             count == Cardinality(below)
             rows == NewestFirst(below)
             m == IF count > InboxPage THEN InboxPage ELSE count
             items == [i \in 1..m |-> rows[i]]
             next == IF count > InboxPage THEN rows[InboxPage] ELSE None
             p == PageBelow(S, before)
  <1>1. below \in SUBSET inbox
    OBVIOUS
  <1>2. /\ below \subseteq Entry /\ count \in Nat /\ rows \in [1..count -> below]
        /\ \A i, j \in 1..count : i < j => rows[i].seq > rows[j].seq
        /\ \A n \in below : \E i \in 1..count : rows[i] = n
    <2> HIDE DEF below
    <2> QED
      BY <1>1, InboxSorted
  <1>3. \A n \in below : (before = None \/ n.seq < before.seq) /\ n.seq \in Nat
    BY <1>2 DEF Entry
  <1>4. p.items = items /\ p.next = next
    BY DEF PageBelow
  <1> HIDE DEF below, count, rows, p
  <1>5. m \in 0..count /\ m \in Nat /\ (count > InboxPage => m = InboxPage) /\ (count <= InboxPage => m = count)
    BY <1>2
  <1>6. items \in Seq(Entry) /\ DOMAIN items = 1..m /\ \A i \in 1..m : items[i] = rows[i] /\ i \in 1..count
    <2> HIDE DEF m
    <2>1. \A i \in 1..m : i \in 1..count
      BY <1>2, <1>5
    <2>2. \A i \in 1..m : rows[i] \in Entry
      BY <1>2, <2>1
    <2>3. items \in [1..m -> Entry]
      BY <2>2
    <2> QED
      BY <1>5, <2>1, <2>3
  <1>7. next = None \/ (count > InboxPage /\ m = InboxPage /\ InboxPage \in 1..count /\ next = rows[InboxPage])
    BY <1>2, <1>5
  <1>8. next # None => count > InboxPage
    OBVIOUS
  <1>9. count > InboxPage => next # None /\ next \in Entry
    BY <1>2
  <1> HIDE DEF items, next, m
  <1>10. \A i, j \in DOMAIN items : i < j => items[i].seq > items[j].seq
    BY <1>2, <1>6
  <1>11. \A i \in DOMAIN items : before = None \/ items[i].seq < before.seq
    BY <1>2, <1>3, <1>6
  <1>12. ASSUME next # None, NEW i \in DOMAIN items PROVE items[i].seq >= next.seq
    <2>1. /\ next = rows[InboxPage] /\ i \in 1..count /\ InboxPage \in 1..count /\ i <= InboxPage
          /\ items[i] = rows[i]
      BY <1>6, <1>7, <1>12
    <2>2. rows[i].seq \in Nat /\ rows[InboxPage].seq \in Nat
      BY <1>2, <1>3, <2>1
    <2>3. i = InboxPage \/ rows[i].seq > rows[InboxPage].seq
      BY <1>2, <2>1
    <2> QED
      BY <2>1, <2>2, <2>3
  <1>13. ASSUME NEW n \in S, before = None \/ n.seq < before.seq
         PROVE  n \in ToSet(items) \/ (next # None /\ n.seq < next.seq)
    <2>1. n \in below
      BY <1>13 DEF below
    <2>2. PICK i \in 1..count : rows[i] = n
      BY <1>2, <2>1
    <2>3. CASE i <= m
      <3>1. i \in 1..m /\ items[i] = n
        BY <1>5, <1>6, <2>2, <2>3
      <3> QED
        BY <1>6, <3>1 DEF ToSet
    <2>4. CASE ~ (i <= m)
      <3>1. count > InboxPage /\ m = InboxPage /\ InboxPage < i
        BY <1>2, <1>5, <2>4
      <3>2. next # None /\ next = rows[InboxPage] /\ InboxPage \in 1..count
        BY <1>7, <1>9, <3>1
      <3>3. rows[InboxPage].seq > rows[i].seq /\ rows[InboxPage].seq \in Nat /\ rows[i].seq \in Nat
        BY <1>2, <1>3, <3>1, <3>2
      <3> QED
        BY <2>2, <3>2, <3>3
    <2> QED
      BY <2>3, <2>4
  <1>14. next \in Entry \cup {None}
    BY <1>7, <1>9
  <1>16. next # None => before = None \/ next.seq < before.seq
    BY <1>2, <1>3, <1>7
  <1>15. Page(items, next, S, before)
    BY <1>16, <1>6, <1>10, <1>11, <1>12, <1>13, <1>14, Zenon DEF Page
  <1> QED
    BY <1>4, <1>15 DEF p

\* A reader changes nothing but what it has read.
LEMMA BrowsingOnly ==
    ASSUME NoticesInv, UNCHANGED <<clock, account, arcade, flag, story, inbox, seq, device, pref, queue>>, Browsing'
    PROVE  NoticesInv'
  <1>1. AccountsGo /\ FlagsStand'
    BY AccountsSame, FlagsSame DEF NoticesInv
  <1>2. BrowsersStand' /\ PushesAreTheirs' /\ OptOutIsKept'
    <2>1. \A v, event : HasNotice(v, event) => HasNotice(v, event)'
      BY Zenon DEF HasNotice
    <2> QED
      BY <2>1, BrowsersSame, Zenon DEF NoticesInv
  <1>3. clock' \in 0..MaxClock /\ clock <= clock'
    BY DEF NoticesInv
  <1> QED
    BY <1>1, <1>2, <1>3, Still

LEMMA ListKeeps ==
    ASSUME NoticesInv, NEW u \in Members, NEW locale \in Locales, List(u, locale)
    PROVE  NoticesInv'
  <1> DEFINE rows == ShownTo(u, locale)
             page == PageBelow(rows, None)
             b == [user |-> u, locale |-> locale, seen |-> page.items, next |-> page.next,
                   due |-> Keys(rows), lost |-> FALSE]
  <1>1. browse' = b /\ UNCHANGED <<clock, account, arcade, flag, story, inbox, seq, device, pref, queue>>
    BY DEF List
  <1>2. rows \in SUBSET inbox /\ inbox \subseteq Entry
    BY DEF ShownTo, NoticesInv, InboxStands
  <1>3. Page(page.items, page.next, rows, None)
    <2> HIDE DEF rows
    <2> QED
      BY <1>2, PageIs
  <1>4. \A n \in Entry : Key(n) = <<n.event, n.seq>> /\ Key(n) \in Events \X Nat /\ Key(n)[2] = n.seq
    BY DEF Key, Entry
  <1>5. Keys(rows) \in SUBSET (Events \X Nat)
    <2> HIDE DEF rows
    <2> QED
      BY <1>2, <1>4 DEF Keys
  <1> HIDE DEF page, rows
  <1>6. b \in Reading
    BY <1>3, <1>5 DEF Reading, Page
  <1>7. /\ b.seen = page.items /\ b.next = page.next /\ b.due = Keys(rows) /\ ~b.lost
    OBVIOUS
  <1> HIDE DEF b
  <1>8. \A k \in b.due : k \in Keys(ToSet(b.seen)) \/ (b.next # None /\ k[2] < b.next.seq)
    <2> TAKE k \in b.due
    <2>1. PICK n \in rows : k = Key(n)
      BY <1>7 DEF Keys
    <2>2. n \in ToSet(b.seen) \/ (b.next # None /\ n.seq < b.next.seq)
      BY <1>3, <1>7 DEF Page
    <2>3. k[2] = n.seq
      BY <1>2, <1>4, <2>1
    <2> QED
      BY <2>1, <2>2, <2>3 DEF Keys
  <1>9. PagesStand(b)
    BY <1>3, <1>6, <1>7, <1>8 DEF PagesStand, Page
  <1>10. Browsing'
    BY <1>1, <1>9, Zenon DEF Browsing, PagesStand
  <1> QED
    BY <1>1, <1>10, BrowsingOnly

LEMMA CloseKeeps ==
    ASSUME NoticesInv, Close
    PROVE  NoticesInv'
  <1>1. browse' = None /\ UNCHANGED <<clock, account, arcade, flag, story, inbox, seq, device, pref, queue>>
    BY DEF Close
  <1>2. Browsing'
    BY <1>1 DEF Browsing
  <1> QED
    BY <1>1, <1>2, BrowsingOnly

LEMMA JoinIs ==
    ASSUME NEW T, NEW s \in Seq(T), NEW t \in Seq(T)
    PROVE  /\ DOMAIN (s \o t) = 1 .. Len(s) + Len(t) /\ DOMAIN s = 1..Len(s) /\ DOMAIN t = 1..Len(t)
           /\ Len(s) \in Nat /\ Len(t) \in Nat
           /\ \A i \in DOMAIN (s \o t) :
                 \/ i \in DOMAIN s /\ (s \o t)[i] = s[i]
                 \/ i - Len(s) \in DOMAIN t /\ (s \o t)[i] = t[i - Len(s)] /\ i > Len(s)
           /\ \A i \in DOMAIN s : i \in DOMAIN (s \o t) /\ (s \o t)[i] = s[i]
           /\ \A i \in DOMAIN t : Len(s) + i \in DOMAIN (s \o t) /\ (s \o t)[Len(s) + i] = t[i]
  <1>1. /\ DOMAIN (s \o t) = 1 .. Len(s) + Len(t) /\ DOMAIN s = 1..Len(s) /\ DOMAIN t = 1..Len(t)
        /\ Len(s) \in Nat /\ Len(t) \in Nat
    OBVIOUS
  <1>2. ASSUME NEW i \in 1 .. Len(s) + Len(t)
        PROVE  \/ i \in 1..Len(s) /\ (s \o t)[i] = s[i]
               \/ i - Len(s) \in 1..Len(t) /\ (s \o t)[i] = t[i - Len(s)] /\ i > Len(s)
    BY <1>1
  <1>3. ASSUME NEW i \in 1..Len(t)
        PROVE  Len(s) + i \in 1 .. Len(s) + Len(t) /\ (s \o t)[Len(s) + i] = t[i]
    <2>1. Len(s) + i \in 1 .. Len(s) + Len(t) /\ ~ (Len(s) + i <= Len(s)) /\ (Len(s) + i) - Len(s) = i
      BY <1>1
    <2>2. (s \o t)[Len(s) + i] = t[(Len(s) + i) - Len(s)]
      BY <2>1
    <2> QED
      BY <2>1, <2>2
  <1>4. ASSUME NEW i \in 1..Len(s) PROVE i \in 1 .. Len(s) + Len(t) /\ (s \o t)[i] = s[i]
    BY <1>1
  <1> QED
    BY <1>1, <1>2, <1>3, <1>4

LEMMA MoreKeeps ==
    ASSUME NoticesInv, More
    PROVE  NoticesInv'
  <1> DEFINE rows == ShownTo(browse.user, browse.locale)
             before == browse.next
             page == PageBelow(rows, before)
             cut == [browse EXCEPT !.next = None, !.lost = TRUE]
             b == [browse EXCEPT !.seen = @ \o page.items, !.next = page.next, !.due = @ \cap Keys(rows)]
  <1>1. /\ browse # None /\ before # None
        /\ browse' = cut \/ browse' = b
        /\ UNCHANGED <<clock, account, arcade, flag, story, inbox, seq, device, pref, queue>>
    BY DEF More, NextPage
  <1>2. PagesStand(browse) /\ browse \in Reading /\ before \in Entry
    BY <1>1 DEF NoticesInv, PagesStand, Reading
  <1>3. rows \in SUBSET inbox /\ inbox \subseteq Entry
    BY DEF ShownTo, NoticesInv, InboxStands
  <1>4. Page(page.items, page.next, rows, before)
    <2> HIDE DEF rows, before
    <2> QED
      BY <1>2, <1>3, PageIs
  <1>5. \A n \in Entry : Key(n) = <<n.event, n.seq>> /\ Key(n)[2] = n.seq /\ n.seq \in Nat
    BY DEF Key, Entry
  <1>6. PagesStand(cut)
    <2>1. /\ cut \in Reading /\ cut.next = None /\ cut.lost /\ cut.seen = browse.seen
      BY <1>2 DEF Reading
    <2> HIDE DEF cut
    <2> QED
      BY <1>2, <2>1, Zenon DEF PagesStand
  <1>7. PagesStand(b)
    <2> HIDE DEF page, rows
    <2> DEFINE shown == browse.seen
               items == page.items
    <2>1. /\ b.seen = shown \o items /\ b.next = page.next /\ b.due = browse.due \cap Keys(rows) /\ b.lost = browse.lost
      BY <1>2 DEF Reading
    <2>2. shown \in Seq(Entry) /\ items \in Seq(Entry) /\ page.next \in Entry \cup {None}
      BY <1>2, <1>4 DEF Reading, Page
    <2>3. b \in Reading
      <3>1. shown \o items \in Seq(Entry)
        BY <2>2
      <3>2. browse.due \cap Keys(rows) \in SUBSET (Events \X Nat)
        BY <1>2 DEF Reading
      <3> QED
        BY <1>2, <2>2, <3>1, <3>2 DEF Reading
    <2> HIDE DEF b
    <2>4. /\ \A i, j \in DOMAIN shown : i < j => shown[i].seq > shown[j].seq
          /\ \A i \in DOMAIN shown : shown[i].seq >= before.seq
          /\ \A i, j \in DOMAIN items : i < j => items[i].seq > items[j].seq
          /\ \A i \in DOMAIN items : items[i].seq < before.seq
          /\ page.next # None => \A i \in DOMAIN items : items[i].seq >= page.next.seq
      BY <1>1, <1>2, <1>4 DEF PagesStand, Page
    <2> DEFINE all == shown \o items
    <2>5. /\ DOMAIN all = 1 .. Len(shown) + Len(items) /\ DOMAIN shown = 1..Len(shown) /\ DOMAIN items = 1..Len(items)
          /\ Len(shown) \in Nat /\ Len(items) \in Nat
          /\ \A i \in DOMAIN all : \/ i \in DOMAIN shown /\ all[i] = shown[i]
                                   \/ i - Len(shown) \in DOMAIN items /\ all[i] = items[i - Len(shown)] /\ i > Len(shown)
          /\ \A i \in DOMAIN shown : i \in DOMAIN all /\ all[i] = shown[i]
          /\ \A i \in DOMAIN items : Len(shown) + i \in DOMAIN all /\ all[Len(shown) + i] = items[i]
      <3> HIDE DEF shown, items
      <3> QED
        BY <2>2, JoinIs
    <2>6. /\ \A i \in DOMAIN shown : shown[i].seq \in Nat
          /\ \A i \in DOMAIN items : items[i].seq \in Nat
          /\ before.seq \in Nat
      BY <1>2, <1>5, <2>2
    <2> HIDE DEF all, shown, items, before
    <2>7. ASSUME NEW i \in DOMAIN all, NEW j \in DOMAIN all, i < j PROVE all[i].seq > all[j].seq
      <3>1. CASE i \in DOMAIN shown /\ j \in DOMAIN shown
        <4>1. all[i] = shown[i] /\ all[j] = shown[j]
          BY <2>5, <3>1
        <4> QED
          BY <2>4, <2>7, <3>1, <4>1
      <3>2. CASE i \in DOMAIN shown /\ j \notin DOMAIN shown
        <4>1. all[i] = shown[i] /\ j - Len(shown) \in DOMAIN items /\ all[j] = items[j - Len(shown)]
          BY <2>5, <3>2
        <4>2. shown[i].seq >= before.seq /\ items[j - Len(shown)].seq < before.seq
          BY <2>4, <3>2, <4>1
        <4> QED
          BY <2>6, <3>2, <4>1, <4>2
      <3>3. CASE i \notin DOMAIN shown
        <4>1. /\ i - Len(shown) \in DOMAIN items /\ all[i] = items[i - Len(shown)] /\ i > Len(shown)
          BY <2>5, <3>3
        <4>2. j \notin DOMAIN shown
          BY <2>5, <2>7, <4>1
        <4>3. j - Len(shown) \in DOMAIN items /\ all[j] = items[j - Len(shown)]
          BY <2>5, <4>2
        <4>4. i - Len(shown) < j - Len(shown)
          BY <2>5, <2>7
        <4> QED
          BY <2>4, <4>1, <4>3, <4>4
      <3> QED
        BY <3>1, <3>2, <3>3
    <2>8. ASSUME page.next # None, NEW i \in DOMAIN all PROVE all[i].seq >= page.next.seq
      <3>1. page.next \in Entry /\ page.next.seq \in Nat
        BY <1>5, <2>2, <2>8
      <3>2. CASE i \in DOMAIN shown
        <4>1. page.next.seq < before.seq
          BY <1>1, <1>4, <2>8, Zenon DEF Page
        <4>2. all[i] = shown[i] /\ shown[i].seq >= before.seq
          BY <2>4, <2>5, <3>2
        <4> QED
          BY <2>6, <3>1, <3>2, <4>1, <4>2
      <3>3. CASE i \notin DOMAIN shown
        BY <2>4, <2>5, <2>8, <3>3
      <3> QED
        BY <3>2, <3>3
    <2>9. ASSUME ~browse.lost, NEW k \in browse.due \cap Keys(rows)
          PROVE  k \in Keys(ToSet(all)) \/ (page.next # None /\ k[2] < page.next.seq)
      <3>1. PICK n \in rows : k = Key(n)
        BY DEF Keys
      <3>2. n \in Entry /\ k[2] = n.seq
        BY <1>3, <1>5, <3>1
      <3>3. ToSet(shown) \subseteq ToSet(all) /\ ToSet(items) \subseteq ToSet(all)
        BY <2>5 DEF ToSet
      <3>4. k \in Keys(ToSet(shown)) \/ n.seq < before.seq
        BY <1>1, <1>2, <2>9, <3>2 DEF PagesStand, shown, before
      <3>5. CASE k \in Keys(ToSet(shown))
        BY <3>3, <3>5 DEF Keys
      <3>6. CASE n.seq < before.seq
        <4>1. n \in ToSet(items) \/ (page.next # None /\ n.seq < page.next.seq)
          BY <1>4, <3>6 DEF Page, items
        <4> QED
          BY <3>1, <3>2, <3>3, <4>1 DEF Keys
      <3> QED
        BY <3>4, <3>5, <3>6
    <2>10. b.seen = all
      BY <2>1 DEF all, shown, items
    <2> QED
      BY <2>1, <2>3, <2>7, <2>8, <2>9, <2>10, Zenon DEF PagesStand
  <1> HIDE DEF b, cut
  <1>8. Browsing'
    BY <1>1, <1>6, <1>7, Zenon DEF Browsing, PagesStand
  <1> QED
    BY <1>1, <1>8, BrowsingOnly

-------------------------------------------------------------------------------
(* All steps together.                                                     *)

LEMMA NoticeNextKeeps ==
    ASSUME NoticesInv, NoticeNext
    PROVE  NoticesInv'
  <1>1. ASSUME NEW u \in Members, AccountStep(u) PROVE NoticesInv'
    BY <1>1, WithdrawKeeps, SignUpKeeps DEF AccountStep
  <1>2. ASSUME NEW u \in Members, ReadStep(u) PROVE NoticesInv'
    BY <1>2, ReadAllKeeps, ReadKeeps, ListKeeps DEF ReadStep
  <1>3. ASSUME NEW u \in Members, NEW e \in Endpoints, DeviceStep(u, e) PROVE NoticesInv'
    BY <1>3, RemoveDeviceKeeps, RegisterDeviceKeeps, SyncLocaleKeeps, SubscribeKeeps, UnsubscribeKeeps DEF DeviceStep
  <1>4. ASSUME NEW u \in Members, NEW f \in Flags, ReportStep(u, f) PROVE NoticesInv'
    BY <1>4, ReactKeeps, SubmitKeeps DEF ReportStep
  <1>5. ASSUME NEW s \in Announcements, StoryStep(s) PROVE NoticesInv'
    BY <1>5, EditStoryKeeps, PublishKeeps, ArchiveStoryKeeps DEF StoryStep
  <1> QED
    BY <1>1, <1>2, <1>3, <1>4, <1>5, DeleteFlagKeeps, SetArcadeKeeps, DeliverPushKeeps, SendBatchKeeps,
       MoreKeeps, CloseKeeps, TickKeeps DEF NoticeNext

LEMMA NoticesSame ==
    ASSUME NoticesInv, UNCHANGED noticeVars
    PROVE  NoticesInv'
  <1>1. clock' = clock /\ inbox' = inbox /\ queue' = queue /\ device' = device /\ pref' = pref /\ browse' = browse
        /\ UNCHANGED <<account, arcade, flag, story, seq>>
    BY DEF noticeVars
  <1>2. Browsing'
    BY <1>1, BrowsingSame DEF NoticesInv, Browsing
  <1> QED
    BY <1>1, <1>2, BrowsingOnly

LEMMA NoticesStep ==
    ASSUME NoticesInv, [WatchNext]_watchVars
    PROVE  NoticesInv'
  <1>1. CASE NoticeNext
    BY <1>1, NoticeNextKeeps
  <1>2. CASE AimeNext
    <2>1. UNCHANGED noticeVars \/ DrainAimeRecoveries
      <3>1. \A pages : Probe(pages) => UNCHANGED noticeVars
        BY Zenon DEF Probe
      <3>2. \A ch : Receipt(ch) => UNCHANGED noticeVars
        BY Zenon DEF Receipt
      <3>3. \A u, enabled : AimeSubscribe(u, enabled) => UNCHANGED noticeVars
        BY Zenon DEF AimeSubscribe
      <3> QED
        BY <1>2, <3>1, <3>2, <3>3, Zenon DEF AimeNext
    <2> QED
      BY <2>1, NoticesSame, DrainKeeps
  <1>3. CASE UNCHANGED watchVars
    BY <1>3, NoticesSame DEF watchVars
  <1> QED
    BY <1>1, <1>2, <1>3 DEF WatchNext

LEMMA NoticesMean == NoticesInv => TheRightOnesAreTold
  <1> SUFFICES ASSUME NoticesInv PROVE TheRightOnesAreTold
    OBVIOUS
  <1>1. NoticeTypeOK
    <2>1. /\ clock \in 0..MaxClock /\ seq \in 0..MaxSeq /\ \A n, m \in inbox : n.seq = m.seq => n = m
          /\ pref \in [Arcades \X Endpoints -> {"unset", "on", "off"}]
      BY Zenon DEF NoticesInv, InboxStands, BrowsersStand
    <2>2. \A u \in Members : account[u].state \in {"absent", "active", "withdrawn"}
      BY DEF NoticesInv, AccountsStand, Account
    <2>3. \A e \in Endpoints : device[e] # None => device[e] \in [user : Members, locale : Locales]
      BY DEF NoticesInv, BrowsersStand, Device
    <2>4. \A s \in Announcements : story[s].cursor \in {0} \cup Members
      BY StoryIs DEF Story
    <2> QED
      BY <2>1, <2>2, <2>3, <2>4, Zenon DEF NoticeTypeOK
  <1>2. EveryoneWasTold
    <2> SUFFICES ASSUME NEW s \in Announcements
                 PROVE  LET event == <<"announcement", s>> IN
                        /\ story[s].sent => \A u \in story[s].audience : ActiveAccount(u) => HasNotice(u, event)
                        /\ \A n \in inbox : n.event = event =>
                              account[n.user].born <= story[s].at /\ n.copy = story[s].locales
                        /\ story[s].quiet => ~\E d \in queue : d.event = event
      BY Zenon DEF EveryoneWasTold
    <2>1. StoryTold(s)
      BY StoryIs
    <2> QED
      BY <2>1, Zenon DEF StoryTold, Telling
  <1>3. PagesAreWhole
    <2> SUFFICES ASSUME browse # None
                 PROVE  /\ IsInjective([i \in DOMAIN browse.seen |-> Key(browse.seen[i])])
                        /\ browse.next = None /\ ~browse.lost => browse.due \subseteq Keys(ToSet(browse.seen))
      BY Zenon DEF PagesAreWhole
    <2>1. PagesStand(browse)
      BY DEF NoticesInv
    <2>2. browse.seen \in Seq(Entry) /\ DOMAIN browse.seen = 1..Len(browse.seen) /\ Len(browse.seen) \in Nat
      BY <2>1 DEF PagesStand, Reading
    <2>3. ASSUME NEW i \in DOMAIN browse.seen, NEW j \in DOMAIN browse.seen,
                 Key(browse.seen[i]) = Key(browse.seen[j])
          PROVE  i = j
      <3>1. i \in Nat /\ j \in Nat /\ browse.seen[i] \in Entry /\ browse.seen[j] \in Entry
        BY <2>2
      <3>2. browse.seen[i].seq = browse.seen[j].seq /\ browse.seen[i].seq \in Nat
        BY <2>3, <3>1 DEF Key, Entry
      <3>3. ~ (i < j) /\ ~ (j < i)
        BY <2>1, <3>2 DEF PagesStand
      <3> QED
        BY <3>1, <3>3
    <2>4. browse.next = None /\ ~browse.lost => browse.due \subseteq Keys(ToSet(browse.seen))
      BY <2>1, Zenon DEF PagesStand
    <2>5. IsInjective([i \in DOMAIN browse.seen |-> Key(browse.seen[i])])
      BY <2>3 DEF IsInjective
    <2> QED
      BY <2>4, <2>5
  <1> QED
    BY <1>1, <1>2, <1>3, Zenon DEF TheRightOnesAreTold, NoticesInv

(* Accounts, browsers, notifications, stories and readers keep together    *)
(* what the properties rest on, whatever is reported, published, sent out, *)
(* read and removed meanwhile (service/usernotification).                  *)
THEOREM NoticesKeep == WatchSpec => []NoticesInv
  <1>1. NoticeInit /\ AimeInit => NoticesInv
    BY NoticesInitial
  <1>2. NoticesInv /\ [WatchNext]_watchVars => NoticesInv'
    BY NoticesStep
  <1> QED
    BY <1>1, <1>2, PTL DEF WatchSpec

(* Pushes are for the account of their browser and not of reports it does  *)
(* not want; who was there when a story was published is told of it when   *)
(* it is sent, with its texts; and the pages of an inbox leave nothing out *)
(* and show nothing twice (FanoutAnnouncementsBatch, enqueueDevicesTx,     *)
(* ReleaseOtherEndpointOwnersTx, scanInbox).                               *)
THEOREM RightOnesTold == WatchSpec => []TheRightOnesAreTold
  <1>1. NoticesInv => TheRightOnesAreTold
    BY NoticesMean
  <1> QED
    BY <1>1, NoticesKeep, PTL

-------------------------------------------------------------------------------
(* The watch over the game network.                                        *)

USE WatchAssumption DEF WatchAssumption

Watch == [incident : BOOLEAN, recovered : BOOLEAN, status : Statuses \cup {"none", "legacy"}, count : Nat,
          since : Nat \cup {None}, candidate : BOOLEAN, receipts : SUBSET Channels, seen : Nat \cup {None}]

\* The confirmations counted so far were good, and far enough apart.
Counted(w, since) ==
    w.status = "available" /\ w.incident /\ w.candidate /\ w.since # None /\ ~w.recovered =>
        /\ since # None /\ since <= w.since /\ w.seen # None /\ w.since <= w.seen
        /\ w.count <= Confirmations /\ w.since - since >= w.count * Apart

WatchInv ==
    /\ clock \in Nat /\ aime \in Watch /\ run \in Nat \cup {None}
    /\ aime.seen # None => aime.seen <= clock
    /\ run # None => aime.seen # None /\ run <= aime.seen
    /\ Counted(aime, run)

LEMMA WatchInitial == NoticeInit /\ AimeInit => WatchInv
  <1> SUFFICES ASSUME NoticeInit, AimeInit PROVE WatchInv
    OBVIOUS
  <1>1. clock = 0 /\ run = None /\ None \notin Nat
    BY DEF NoticeInit, AimeInit
  <1>2. CASE aime = Unwatched
    BY <1>1, <1>2 DEF WatchInv, Unwatched, Watch, Counted
  <1>3. CASE aime = [Unwatched EXCEPT !.incident = TRUE, !.status = "legacy", !.candidate = TRUE,
                                      !.count = Confirmations - 1, !.since = 0]
    <2>1. Confirmations - 1 \in Nat
      OBVIOUS
    <2>2. aime = [incident |-> TRUE, recovered |-> FALSE, status |-> "legacy", count |-> Confirmations - 1,
                  since |-> 0, candidate |-> TRUE, receipts |-> {}, seen |-> None]
      BY <1>3 DEF Unwatched
    <2> QED
      BY <1>1, <2>1, <2>2 DEF WatchInv, Watch, Counted
  <1> QED
    BY <1>2, <1>3 DEF AimeInit

LEMMA ObservationIs == \A pages : Observation(pages) \in Statuses
  BY DEF Observation, Statuses

\* What an observation makes of a watch.
LEMMA ObservedIs ==
    ASSUME NEW w \in Watch, NEW status \in Statuses, NEW now \in Nat
    PROVE  LET o == Observed(w, status, now) IN
           /\ o \in Watch
           /\ status # "available" => o.recovered = w.recovered
           /\ status = "available" =>
                 /\ o.incident = w.incident
                 /\ ~w.incident => o.recovered = w.recovered
                 /\ o.incident /\ ~w.recovered =>
                      \/ o.count = 0 /\ o.since = now /\ ~o.recovered
                      \/ /\ w.status = "available" /\ w.since # None /\ w.candidate /\ now - w.since <= Gap
                         /\ \/ o.count = w.count /\ o.since = w.since /\ ~o.recovered
                            \/ /\ now - w.since >= Apart /\ o.since = now
                               /\ o.count = IF w.count = Confirmations THEN w.count ELSE w.count + 1
                               /\ o.recovered => o.count = Confirmations /\ w.receipts = Channels
  <1> DEFINE o == Observed(w, status, now)
             st == IF w.status \in Statuses THEN w ELSE [w EXCEPT !.count = 0, !.since = now]
  <1>1. /\ st \in Watch /\ st.incident = w.incident /\ st.recovered = w.recovered /\ st.status = w.status
        /\ st.candidate = w.candidate /\ st.receipts = w.receipts
        /\ st.status = "available" => st = w
    <2>1. "available" \in Statuses
      BY DEF Statuses
    <2> QED
      BY <2>1 DEF Watch
  <1>2. o = IF status # "available"
              THEN [st EXCEPT !.incident = @ \/ status = "blocked", !.count = 0, !.since = now]
            ELSE IF st.incident THEN Confirmed(st, now) ELSE st
    BY DEF Observed
  <1> HIDE DEF o, st
  <1>3. CASE status # "available"
    <2> DEFINE b == st.incident \/ status = "blocked"
    <2>1. b \in BOOLEAN /\ o = [st EXCEPT !.incident = b, !.count = 0, !.since = now]
      BY <1>2, <1>3
    <2> HIDE DEF b
    <2>2. o \in Watch /\ o.recovered = st.recovered
      BY <1>1, <2>1 DEF Watch
    <2> QED
      BY <1>1, <1>3, <2>2 DEF o
  <1>4. CASE status = "available" /\ ~st.incident
    BY <1>1, <1>2, <1>4 DEF o
  <1>5. CASE status = "available" /\ st.incident
    <2>1. o = Confirmed(st, now)
      BY <1>2, <1>5
    <2>2. CASE ~st.candidate \/ st.status # "available" \/ st.since = None \/ now - st.since > Gap
      <3>1. o = [st EXCEPT !.candidate = TRUE, !.count = 0, !.since = now]
        BY <2>1, <2>2 DEF Confirmed
      <3>2. o \in Watch /\ o.count = 0 /\ o.since = now /\ o.recovered = st.recovered /\ o.incident = st.incident
        BY <1>1, <3>1 DEF Watch
      <3> QED
        BY <1>1, <1>5, <3>2 DEF o
    <2>3. CASE ~ (~st.candidate \/ st.status # "available" \/ st.since = None \/ now - st.since > Gap)
      <3>1. /\ st = w /\ st.candidate /\ st.since \in Nat /\ st.since # None /\ st.status = "available"
            /\ now - st.since <= Gap
        BY <1>1, <2>3 DEF Watch
      <3>2. CASE now - st.since < Apart
        <4>1. o = st
          BY <2>1, <2>3, <3>2 DEF Confirmed
        <4> QED
          BY <1>1, <1>5, <3>1, <4>1 DEF o
      <3>3. CASE ~ (now - st.since < Apart)
        <4> DEFINE count == IF st.count = Confirmations THEN st.count ELSE st.count + 1
                   rec == count = Confirmations /\ st.receipts = Channels
        <4>1. o = [st EXCEPT !.count = count, !.since = now, !.recovered = rec]
          BY <2>1, <2>3, <3>3 DEF Confirmed
        <4>2. count \in Nat /\ rec \in BOOLEAN /\ now - st.since >= Apart
          BY <1>1, <3>1, <3>3 DEF Watch
        <4> HIDE DEF count, rec
        <4>3. o \in Watch /\ o.count = count /\ o.since = now /\ o.recovered = rec /\ o.incident = st.incident
          BY <1>1, <4>1, <4>2 DEF Watch
        <4> QED
          BY <1>1, <1>5, <3>1, <4>2, <4>3 DEF o, count, rec
      <3> QED
        BY <3>2, <3>3
    <2> QED
      BY <2>2, <2>3
  <1> QED
    BY <1>1, <1>3, <1>4, <1>5 DEF Watch

\* What a probe proves when it ends the watch, and what it keeps.
LEMMA ProbeKeeps ==
    ASSUME WatchInv, NEW pages \in [Sources -> Pages], Probe(pages)
    PROVE  /\ WatchInv'
           /\ aime'.recovered /\ ~aime.recovered =>
                 /\ run # None /\ clock - run >= Confirmations * Apart
                 /\ aime.incident /\ aime.receipts = Channels
           /\ aime.recovered => aime'.recovered
  <1> DEFINE status == Observation(pages)
             o == Observed(aime, status, clock)
             w == IF aime.recovered THEN aime ELSE o
  <1>1. /\ aime' = [w EXCEPT !.status = status, !.seen = clock] /\ clock' = clock
        /\ run' = IF status # "available" THEN None
                  ELSE IF run = None \/ clock - aime.seen > Gap THEN clock ELSE run
    BY DEF Probe, noticeVars
  <1>2. status \in Statuses /\ clock \in Nat /\ aime \in Watch /\ run \in Nat \cup {None} /\ None \notin Nat
    BY ObservationIs DEF WatchInv
  <1>3. o \in Watch /\ w \in Watch
    <2>1. o \in Watch
      BY <1>2, ObservedIs
    <2> HIDE DEF o
    <2> QED
      BY <1>2, <2>1
  <1>4. /\ status # "available" => o.recovered = aime.recovered
        /\ status = "available" =>
              /\ o.incident = aime.incident
              /\ ~aime.incident => o.recovered = aime.recovered
              /\ o.incident /\ ~aime.recovered =>
                   \/ o.count = 0 /\ o.since = clock /\ ~o.recovered
                   \/ /\ aime.status = "available" /\ aime.since # None /\ aime.candidate /\ clock - aime.since <= Gap
                      /\ \/ o.count = aime.count /\ o.since = aime.since /\ ~o.recovered
                         \/ /\ clock - aime.since >= Apart /\ o.since = clock
                            /\ o.count = IF aime.count = Confirmations THEN aime.count ELSE aime.count + 1
                            /\ o.recovered => o.count = Confirmations /\ aime.receipts = Channels
    <2> HIDE DEF status
    <2> QED
      BY <1>2, ObservedIs
  <1> HIDE DEF status, o
  <1>5. /\ aime' \in Watch /\ aime'.status = status /\ aime'.seen = clock /\ aime'.recovered = w.recovered
        /\ aime'.incident = w.incident /\ aime'.since = w.since /\ aime'.count = w.count
    <2> HIDE DEF w
    <2> QED
      BY <1>1, <1>2, <1>3 DEF Watch
  <1>6. aime.recovered => aime'.recovered
    BY <1>5
  <1>7. /\ run' \in Nat \cup {None}
        /\ run' # None => run' <= clock
        /\ status = "available" => run' # None
    BY <1>1, <1>2 DEF WatchInv, Watch
  \* A good observation that counts: none was missing since the last one that did.
  <1>8. ASSUME status = "available", ~aime.recovered, aime.incident, aime.status = "available", aime.since # None,
               aime.candidate, clock - aime.since <= Gap
        PROVE  /\ run \in Nat /\ run' = run /\ aime.since \in Nat /\ run <= aime.since /\ aime.since <= clock
               /\ aime.count \in Nat /\ aime.count <= Confirmations /\ aime.since - run >= aime.count * Apart
    <2>1. /\ run # None /\ run <= aime.since /\ aime.seen # None /\ aime.since <= aime.seen /\ aime.seen <= clock
          /\ aime.count <= Confirmations /\ aime.since - run >= aime.count * Apart
      BY <1>8 DEF WatchInv, Counted
    <2>2. aime.since \in Nat /\ aime.seen \in Nat /\ run \in Nat /\ aime.count \in Nat
      BY <1>2, <1>8, <2>1 DEF Watch
    <2>3. clock - aime.seen <= Gap
      BY ONLY <1>2, <1>8, <2>1, <2>2, WatchAssumption DEF WatchAssumption
    <2>4. ~ (clock - aime.seen > Gap)
      BY ONLY <1>2, <2>2, <2>3, WatchAssumption DEF WatchAssumption
    <2>5. run' = run
      BY <1>1, <1>8, <2>1, <2>4
    <2>6. aime.since <= clock
      BY ONLY <1>2, <2>1, <2>2
    <2> QED
      BY <2>1, <2>2, <2>5, <2>6
  <1>9. ASSUME NEW c \in Nat, NEW r \in Nat, NEW s \in Nat, NEW t \in Nat, s - r >= c * Apart, t - s >= Apart
        PROVE  t - r >= c * Apart /\ t - r >= (c + 1) * Apart
    <2>1. c * Apart \in Nat /\ (c + 1) * Apart = c * Apart + Apart
      OBVIOUS
    <2> DEFINE p == c * Apart
               q == (c + 1) * Apart
    <2>2. p \in Nat /\ q = p + Apart /\ s - r >= p
      BY <1>9, <2>1
    <2> HIDE DEF p, q
    <2>3. t - r >= p /\ t - r >= q
      BY <1>9, <2>2
    <2> QED
      BY <2>3 DEF p, q
  \* A third kind of observation counts one more.
  <1>10. ASSUME status = "available", ~aime.recovered, aime.incident, aime.status = "available", aime.since # None,
                aime.candidate, clock - aime.since <= Gap, clock - aime.since >= Apart,
                o.count = IF aime.count = Confirmations THEN aime.count ELSE aime.count + 1
         PROVE  run \in Nat /\ run' = run /\ run <= clock /\ o.count <= Confirmations /\ clock - run >= o.count * Apart
    <2>1. /\ run \in Nat /\ run' = run /\ aime.since \in Nat /\ run <= aime.since /\ aime.since <= clock
          /\ aime.count \in Nat /\ aime.count <= Confirmations /\ aime.since - run >= aime.count * Apart
      BY <1>8, <1>10
    <2>2. clock - run >= aime.count * Apart /\ clock - run >= (aime.count + 1) * Apart
      BY <1>2, <1>9, <1>10, <2>1
    <2>3. run <= clock
      BY ONLY <1>2, <2>1
    <2>4. o.count <= Confirmations
      BY <1>10, <2>1
    <2>5. clock - run >= o.count * Apart
      BY <1>10, <2>2
    <2> QED
      BY <2>1, <2>3, <2>4, <2>5
  <1>11. ASSUME aime'.recovered, ~aime.recovered
         PROVE  /\ run # None /\ clock - run >= Confirmations * Apart
                /\ aime.incident /\ aime.receipts = Channels
    <2>1. o.recovered
      BY <1>5, <1>11
    <2>2. status = "available" /\ aime.incident /\ o.incident
      BY <1>2, <1>3, <1>4, <1>11, <2>1
    <2>3. /\ aime.status = "available" /\ aime.since # None /\ aime.candidate /\ clock - aime.since <= Gap
          /\ clock - aime.since >= Apart
          /\ o.count = IF aime.count = Confirmations THEN aime.count ELSE aime.count + 1
          /\ o.count = Confirmations /\ aime.receipts = Channels
      BY <1>4, <1>11, <2>1, <2>2
    <2>4. run \in Nat /\ clock - run >= o.count * Apart
      BY <1>10, <1>11, <2>2, <2>3
    <2> QED
      BY <1>2, <2>2, <2>3, <2>4
  <1>12. Counted(aime', run')
    <2> SUFFICES ASSUME aime'.status = "available", aime'.incident, aime'.since # None, ~aime'.recovered
                 PROVE  /\ run' # None /\ run' <= aime'.since /\ aime'.since <= clock
                        /\ aime'.count <= Confirmations /\ aime'.since - run' >= aime'.count * Apart
      BY <1>2, <1>5 DEF Counted
    <2>1. /\ status = "available" /\ ~aime.recovered /\ aime'.since = o.since /\ aime'.count = o.count
          /\ o.incident /\ aime.incident
      BY <1>4, <1>5
    <2>2. CASE o.count = 0 /\ o.since = clock
      <3>1. run' \in Nat /\ run' # None /\ run' <= clock
        BY ONLY <1>7, <2>1
      <3>2. clock - run' >= 0 /\ clock <= clock
        <4>1. \A c, r \in Nat : r <= c => c - r >= 0 /\ c <= c
          OBVIOUS
        <4> QED
          BY <1>2, <3>1, <4>1, Zenon
      <3>4. 0 * Apart = 0
        OBVIOUS
      <3>3. aime'.since = clock /\ aime'.count = 0 /\ 0 <= Confirmations
        BY ONLY <2>1, <2>2, WatchAssumption DEF WatchAssumption
      <3> QED
        BY ONLY <3>1, <3>2, <3>3, <3>4
    <2>3. CASE /\ aime.status = "available" /\ aime.since # None /\ aime.candidate /\ clock - aime.since <= Gap
               /\ o.count = aime.count /\ o.since = aime.since
      <3>1. /\ run \in Nat /\ run' = run /\ aime.since \in Nat /\ run <= aime.since /\ aime.since <= clock
            /\ aime.count \in Nat /\ aime.count <= Confirmations /\ aime.since - run >= aime.count * Apart
        BY <1>8, <2>1, <2>3
      <3> QED
        BY <1>2, <2>1, <2>3, <3>1
    <2>4. CASE /\ aime.status = "available" /\ aime.since # None /\ aime.candidate /\ clock - aime.since <= Gap
               /\ clock - aime.since >= Apart /\ o.since = clock
               /\ o.count = IF aime.count = Confirmations THEN aime.count ELSE aime.count + 1
      <3>1. run \in Nat /\ run' = run /\ run <= clock /\ o.count <= Confirmations /\ clock - run >= o.count * Apart
        BY <1>10, <2>1, <2>4
      <3> QED
        BY <1>2, <2>1, <2>4, <3>1
    <2> QED
      BY <1>4, <2>1, <2>2, <2>3, <2>4
  <1>13. WatchInv'
    <2>1. Counted(aime, run)' <=> Counted(aime', run')
      BY DEF Counted
    <2>2. run' # None => aime'.seen # None /\ run' <= aime'.seen
      BY <1>2, <1>5, <1>7
    <2>3. clock' \in Nat /\ (aime'.seen # None => aime'.seen <= clock') /\ aime' \in Watch /\ run' \in Nat \cup {None}
      BY <1>1, <1>2, <1>5, <1>7
    <2> QED
      BY <1>12, <2>1, <2>2, <2>3, Zenon DEF WatchInv
  <1> QED
    BY <1>6, <1>11, <1>13

\* Steps that look at nothing.
LEMMA WatchGoesOn ==
    ASSUME WatchInv, clock' \in Nat, clock <= clock', run' = run, aime' \in Watch,
           aime'.incident = aime.incident, aime'.recovered = aime.recovered, aime'.status = aime.status,
           aime'.count = aime.count, aime'.since = aime.since, aime'.candidate = aime.candidate, aime'.seen = aime.seen
    PROVE  WatchInv'
  <1>1. Counted(aime', run') <=> Counted(aime, run)
    BY Zenon DEF Counted
  <1>2. Counted(aime, run)' <=> Counted(aime', run')
    BY DEF Counted
  <1>3. aime'.seen # None => aime'.seen <= clock'
    <2> SUFFICES ASSUME aime.seen # None PROVE aime.seen <= clock'
      OBVIOUS
    <2>1. aime.seen \in Nat /\ aime.seen <= clock /\ clock \in Nat
      BY DEF WatchInv, Watch
    <2> QED
      BY ONLY <2>1, clock' \in Nat, clock <= clock'
  <1> QED
    BY <1>1, <1>2, <1>3, Zenon DEF WatchInv

LEMMA ClockGoesOn ==
    ASSUME NoticeNext, clock \in Nat
    PROVE  clock' \in Nat /\ clock <= clock'
  <1>1. clock' = clock \/ clock' = clock + 1
    <2>1. ASSUME NEW u \in Members, AccountStep(u) PROVE clock' = clock
      BY <2>1 DEF AccountStep, Withdraw, SignUp
    <2>2. ASSUME NEW u \in Members, ReadStep(u) PROVE clock' = clock
      BY <2>2 DEF ReadStep, ReadAll, Read, List
    <2>3. ASSUME NEW u \in Members, NEW e \in Endpoints, DeviceStep(u, e) PROVE clock' = clock
      BY <2>3 DEF DeviceStep, RemoveDevice, RegisterDevice, SyncLocale, Subscribe, Unsubscribe
    <2>4. ASSUME NEW u \in Members, NEW f \in Flags, ReportStep(u, f) PROVE clock' = clock
      BY <2>4 DEF ReportStep, React, Submit
    <2>5. ASSUME NEW s \in Announcements, StoryStep(s) PROVE clock' = clock
      <3>1. \A t : Edit(s, t) => clock' = clock
        BY DEF Edit
      <3>2. \A l, q : Publish(s, l, q) => clock' = clock
        BY Zenon DEF Publish
      <3>3. ArchiveStory(s) => clock' = clock
        BY DEF ArchiveStory
      <3> QED
        BY <2>5, <3>1, <3>2, <3>3, Zenon DEF StoryStep
    <2>6. ASSUME NEW f \in Flags, DeleteFlag(f) PROVE clock' = clock
      BY <2>6 DEF DeleteFlag
    <2>7. ASSUME NEW a, NEW look, SetArcade(a, look) PROVE clock' = clock
      BY <2>7 DEF SetArcade
    <2>8. ASSUME NEW d, DeliverPush(d) PROVE clock' = clock
      BY <2>8 DEF DeliverPush
    <2>9. SendBatch \/ More \/ Close => clock' = clock
      BY DEF SendBatch, More, Close
    <2>10. Tick => clock' = clock + 1
      BY DEF Tick
    <2> QED
      BY <2>1, <2>2, <2>3, <2>4, <2>5, <2>6, <2>7, <2>8, <2>9, <2>10, Zenon DEF NoticeNext
  <1> QED
    BY <1>1

Proven ==
    /\ aime'.recovered /\ ~aime.recovered =>
          /\ run # None /\ clock - run >= Confirmations * Apart
          /\ aime.incident /\ aime.receipts = Channels
    /\ aime.recovered => aime'.recovered

LEMMA WatchStep ==
    ASSUME WatchInv, [WatchNext]_watchVars
    PROVE  WatchInv' /\ Proven
  <1>1. clock \in Nat /\ aime \in Watch /\ clock <= clock
    BY DEF WatchInv
  <1>2. CASE NoticeNext /\ UNCHANGED aimeVars
    <2>1. clock' \in Nat /\ clock <= clock' /\ aime' = aime /\ run' = run
      BY <1>1, <1>2, ClockGoesOn DEF aimeVars
    <2> QED
      BY <1>1, <2>1, WatchGoesOn, Zenon DEF Proven
  <1>3. CASE UNCHANGED watchVars \/ DrainAimeRecoveries \/ \E u \in Members, enabled \in BOOLEAN : AimeSubscribe(u, enabled)
    <2>1. clock' = clock /\ aime' = aime /\ run' = run
      BY <1>3 DEF watchVars, noticeVars, aimeVars, DrainAimeRecoveries, AimeSubscribe
    <2> QED
      BY <1>1, <2>1, WatchGoesOn, Zenon DEF Proven
  <1>4. CASE \E ch \in Channels : Receipt(ch)
    <2>1. PICK ch \in Channels : Receipt(ch)
      BY <1>4
    <2>2. aime' = [aime EXCEPT !.receipts = @ \cup {ch}] /\ clock' = clock /\ run' = run
      BY <2>1 DEF Receipt, noticeVars
    <2>3. /\ aime' \in Watch /\ aime'.incident = aime.incident /\ aime'.recovered = aime.recovered
          /\ aime'.status = aime.status /\ aime'.count = aime.count /\ aime'.since = aime.since
          /\ aime'.candidate = aime.candidate /\ aime'.seen = aime.seen
      BY <1>1, <2>2 DEF Watch
    <2>4. WatchInv'
      BY <1>1, <2>2, <2>3, WatchGoesOn
    <2>5. Proven
      BY <2>3, Zenon DEF Proven
    <2> QED
      BY <2>4, <2>5
  <1>5. CASE \E pages \in [Sources -> Pages] : Probe(pages)
    BY <1>5, ProbeKeeps, Zenon DEF Proven
  <1> QED
    BY <1>2, <1>3, <1>4, <1>5 DEF WatchNext, AimeNext

(* Accounts are told of a recovery of the game network only after every    *)
(* observation of the whole confirmation time was good, with no break      *)
(* between them, and the operators were told over both channels; and it is *)
(* never taken back (RecordAimeProbe).                                     *)
THEOREM RecoveryProven == WatchSpec => RecoveryIsProven
  <1> DEFINE told == /\ aime'.recovered /\ ~aime.recovered =>
                          /\ run # None /\ clock - run >= Confirmations * Apart
                          /\ aime.incident /\ aime.receipts = Channels
                     /\ aime.recovered => aime'.recovered
  <1>1. NoticeInit /\ AimeInit => WatchInv
    BY WatchInitial
  <1>2. WatchInv /\ [WatchNext]_watchVars => WatchInv' /\ told
    BY WatchStep DEF Proven
  <1> QED
    BY <1>1, <1>2, PTL DEF WatchSpec, RecoveryIsProven
===============================================================================
