------------------------- MODULE ArcadeSections_proofs -------------------------
(***************************************************************************)
(* What holds of an arcade for any users, parts, places, photos and        *)
(* requests: its parts lead to what exists, requests do what they were     *)
(* asked to, publication is supported, and rewards are paid once.          *)
(***************************************************************************)
EXTENDS ArcadeSections, LedgerTheorems, SequenceTheorems

USE SectionsAssumption DEF SectionsAssumption

-------------------------------------------------------------------------------
(* The invariant, by the variables it is about                             *)

Who == Users \cup {System}

Rows == [part : AllParts, from : Nat, to : Nat \ {0}, by : Who]

\* Revisions, pointers and the changelog.
PartsInv ==
    /\ DOMAIN values = AllParts /\ \A p \in AllParts : values[p] \in Seq(Values(p))
    /\ ptr \in [AllParts -> Nat] /\ \A p \in AllParts : ptr[p] <= Len(values[p])
    /\ log \in Seq(Rows)
    /\ \A i \in 1..Len(log) : /\ log[i].from <= Len(values[log[i].part])
                              /\ log[i].to <= Len(values[log[i].part])

\* The flags; a proof of location is one of a place the creator stood at.
ArcadeInv ==
    /\ arcade \in [public : BOOLEAN, closed : BOOLEAN,
                   country : Countries \cup {NoCountry}, proof : Nat]
    /\ arcade.proof # 0 => /\ arcade.proof <= Len(values["basic"])
                           /\ values["basic"][arcade.proof].place \in stood

\* Photos that a revision shows are public.
AtomsInv ==
    /\ atoms \in [Atoms -> {"absent", "pending", "public", "deleted"}]
    /\ owner \in [Atoms -> Users]
    /\ PhotosResolve

\* A request knows a revision, or the creator's level at most.
Edits == [kind : {"basic"}, by : Users, body : Bodies, base : Nat, read : Nat \ {0}]
Publications == [kind : {"public"}, by : {Creator}, level : Nat]

ReqInv ==
    /\ req \in [Requests -> {Idle} \cup Edits \cup Publications]
    /\ \A r \in Requests :
         /\ req[r].kind = "basic" => req[r].read <= Len(values["basic"])
         /\ req[r].kind = "public" => req[r].level <= LevelFromExp(xp.exp[Creator])

\* A report names a change made by a user.
Reports == [kind : {"edit_report", "rollback_report"}, change : Nat \ {0},
            editor : Users, by : Users, status : {"waiting", "done"}]

ReportsInv == reports \in Seq(Reports) /\ \A i \in 1..Len(reports) : reports[i].change <= Len(log)

\* Grants are gains of the past; those for photos are of photos that are public.
Ledger(x, now) ==
    /\ x.exp \in [Users -> Nat] /\ IsFiniteSet(x.log)
    /\ \A e \in x.log : /\ e.user \in Users /\ e.diff \in Nat \ {0} /\ e.at \in 0..now
                        /\ e.kind[1] = "game" => IsFiniteSet(e.kind[3])

PhotosPaid(x, A) ==
    \A e \in x.log : e.kind[1] = "photo" => e.kind[2] \in Atoms /\ A[e.kind[2]] = "public"

XpInv == clock \in Nat /\ Ledger(xp, clock) /\ PhotosPaid(xp, atoms) /\ RewardsBounded

Inv == PartsInv /\ ArcadeInv /\ AtomsInv /\ ReqInv /\ ReportsInv /\ XpInv

-------------------------------------------------------------------------------
(* Parts                                                                   *)

LEMMA PartNames ==
    /\ "basic" \in AllParts /\ "basic" \notin Parts
    /\ Parts \subseteq AllParts /\ \A p \in AllParts : p = "basic" \/ p \in Parts
  BY DEF AllParts

LEMMA ValuesOf ==
    /\ Values("basic") = Basic /\ Values("photo") = (SUBSET Atoms) \ {{}}
    /\ \A p \in Parts \ {"photo"} : Values(p) = {"some", "none"}
  BY PartNames DEF Values

\* What was written stays.
PastKept ==
    /\ \A p \in AllParts : /\ Len(values'[p]) >= Len(values[p])
                           /\ \A i \in 1..Len(values[p]) : values'[p][i] = values[p][i]
    /\ Len(log') >= Len(log) /\ \A i \in 1..Len(log) : log'[i] = log[i]

Returned(p, to, by) ==
    /\ ptr[p] # 0 /\ to # ptr[p] /\ Move(p, to, by) /\ values' = values

LEMMA MoveKeeps ==
    ASSUME PartsInv, NEW p \in AllParts, NEW to \in Nat \ {0}, NEW by \in Who, Move(p, to, by),
           \A q \in AllParts : /\ values'[q] \in Seq(Values(q))
                               /\ Len(values'[q]) >= Len(values[q])
                               /\ \A i \in 1..Len(values[q]) : values'[q][i] = values[q][i],
           DOMAIN values' = AllParts, to <= Len(values'[p])
    PROVE  PartsInv' /\ PastKept
  <1> DEFINE row == [part |-> p, from |-> ptr[p], to |-> to, by |-> by]
             n   == Len(log)
  <1>1. row \in Rows /\ row.from <= Len(values[p]) /\ row.part = p /\ row.to = to /\ row.from = ptr[p]
    BY DEF PartsInv, Rows
  <1> HIDE DEF row
  <1>2. log \in Seq(Rows) /\ log' = Append(log, row) /\ ptr' = [ptr EXCEPT ![p] = to]
    BY DEF PartsInv, Move, row
  <1>3. /\ n \in Nat /\ log' \in Seq(Rows) /\ Len(log') = n + 1 /\ log'[n + 1] = row
        /\ \A i \in 1..n : log'[i] = log[i] /\ log[i] \in Rows
    BY <1>1, <1>2
  <1> HIDE DEF n
  <1>4. \A q \in AllParts : Len(values[q]) \in Nat /\ Len(values'[q]) \in Nat
    BY DEF PartsInv
  <1>5. ptr' \in [AllParts -> Nat] /\ \A q \in AllParts : ptr'[q] <= Len(values'[q])
    <2>1. ptr \in [AllParts -> Nat] /\ \A q \in AllParts : ptr[q] <= Len(values[q])
      BY DEF PartsInv
    <2>2. ptr' \in [AllParts -> Nat]
      BY <1>2, <2>1
    <2>3. ASSUME NEW q \in AllParts PROVE ptr'[q] <= Len(values'[q])
      <3>1. CASE q = p
        <4>1. ptr'[p] = to
          BY <1>2, <2>1
        <4> QED
          BY <3>1, <4>1
      <3>2. CASE q # p
        <4>1. ptr'[q] = ptr[q] /\ ptr[q] \in Nat
          BY <1>2, <2>1, <3>2
        <4>2. Len(values'[q]) >= Len(values[q]) /\ Len(values[q]) \in Nat /\ Len(values'[q]) \in Nat
          BY <1>4, Zenon
        <4>3. ptr[q] <= Len(values[q])
          BY <2>1
        <4> QED
          BY ONLY <4>1, <4>2, <4>3
      <3> QED
        BY <3>1, <3>2
    <2> QED
      BY <2>2, <2>3
  <1>6. ASSUME NEW i \in 1..(n + 1)
        PROVE  log'[i].from <= Len(values'[log'[i].part]) /\ log'[i].to <= Len(values'[log'[i].part])
    <2>1. CASE i = n + 1
      <3>1. row.from \in Nat
        BY <1>1 DEF Rows
      <3> QED
        BY <1>1, <1>3, <1>4, <2>1, <3>1
    <2>2. CASE i \in 1..n
      <3>1. /\ log'[i] = log[i] /\ log[i] \in Rows
            /\ log[i].from <= Len(values[log[i].part]) /\ log[i].to <= Len(values[log[i].part])
        BY <1>3, <2>2 DEF PartsInv, n
      <3>2. log[i].part \in AllParts /\ log[i].from \in Nat /\ log[i].to \in Nat
        BY <3>1 DEF Rows
      <3> QED
        BY <1>4, <3>1, <3>2
    <2> QED
      BY <1>3, <2>1, <2>2
  <1> QED
    BY <1>3, <1>5, <1>6 DEF PartsInv, PastKept, n

LEMMA ReplaceKeeps ==
    ASSUME PartsInv, NEW p \in AllParts, NEW v \in Values(p), NEW by \in Who, Replace(p, v, by)
    PROVE  /\ PartsInv' /\ PastKept
           /\ values'[p] = Append(values[p], v) /\ ptr'[p] = Len(values[p]) + 1
           /\ Len(values'[p]) = Len(values[p]) + 1 /\ values'[p][Len(values[p]) + 1] = v
           /\ \A q \in AllParts \ {p} : values'[q] = values[q] /\ ptr'[q] = ptr[q]
  <1> HIDE DEF Values
  <1>1. /\ DOMAIN values = AllParts /\ values' = [values EXCEPT ![p] = Append(@, v)]
        /\ values[p] \in Seq(Values(p)) /\ ptr' = [ptr EXCEPT ![p] = Len(values[p]) + 1]
        /\ ptr \in [AllParts -> Nat]
    BY DEF PartsInv, Replace, Move
  <1>2. DOMAIN values' = AllParts /\ values'[p] = Append(values[p], v)
        /\ \A q \in AllParts \ {p} : values'[q] = values[q]
    BY <1>1
  <1>3. /\ Append(values[p], v) \in Seq(Values(p))
        /\ Len(Append(values[p], v)) = Len(values[p]) + 1 /\ Len(values[p]) \in Nat
        /\ Append(values[p], v)[Len(values[p]) + 1] = v
        /\ \A i \in 1..Len(values[p]) : Append(values[p], v)[i] = values[p][i]
    BY <1>1
  <1>4. \A q \in AllParts : /\ values'[q] \in Seq(Values(q))
                            /\ Len(values'[q]) >= Len(values[q])
                            /\ \A i \in 1..Len(values[q]) : values'[q][i] = values[q][i]
    <2> SUFFICES ASSUME NEW q \in AllParts
                 PROVE  /\ values'[q] \in Seq(Values(q))
                        /\ Len(values'[q]) >= Len(values[q])
                        /\ \A i \in 1..Len(values[q]) : values'[q][i] = values[q][i]
      OBVIOUS
    <2>1. CASE q = p
      <3>1. /\ values'[p] \in Seq(Values(p)) /\ Len(values'[p]) >= Len(values[p])
            /\ \A i \in 1..Len(values[p]) : values'[p][i] = values[p][i]
        <4> DEFINE new == Append(values[p], v)
        <4> HIDE DEF new
        <4>1. /\ values'[p] = new /\ new \in Seq(Values(p)) /\ Len(new) = Len(values[p]) + 1
              /\ Len(values[p]) \in Nat /\ \A i \in 1..Len(values[p]) : new[i] = values[p][i]
          BY <1>2, <1>3 DEF new
        <4> QED
          BY ONLY <4>1
      <3> QED
        BY <2>1, <3>1, Zenon
    <2>2. CASE q # p
      <3>1. values'[q] = values[q] /\ values[q] \in Seq(Values(q))
        BY <1>2, <2>2 DEF PartsInv
      <3>2. Len(values[q]) \in Nat
        BY <3>1
      <3> QED
        BY <3>1, <3>2
    <2> QED
      BY <2>1, <2>2
  <1>5. Move(p, Len(values[p]) + 1, by)
    BY DEF Replace
  <1>6. PartsInv' /\ PastKept
    <2>1. Len(values[p]) + 1 \in Nat \ {0} /\ Len(values[p]) + 1 <= Len(values'[p])
      BY <1>2, <1>3
    <2> QED
      BY <1>2, <1>4, <1>5, <2>1, MoveKeeps
  <1>7. ptr'[p] = Len(values[p]) + 1 /\ \A q \in AllParts \ {p} : ptr'[q] = ptr[q]
    BY <1>1
  <1> QED
    BY <1>2, <1>3, <1>6, <1>7

LEMMA ReturnKeeps ==
    ASSUME PartsInv, NEW p \in AllParts, NEW to \in 1..Len(values[p]), NEW by \in Who,
           Returned(p, to, by)
    PROVE  PartsInv' /\ PastKept
  <1>1. values' = values /\ Move(p, to, by)
    BY DEF Returned
  <1>2. DOMAIN values = AllParts /\ \A q \in AllParts : values[q] \in Seq(Values(q)) /\ Len(values[q]) \in Nat
    BY DEF PartsInv
  <1>3. to \in Nat \ {0} /\ to <= Len(values[p])
    BY <1>2
  <1>4. \A q \in AllParts : /\ values'[q] \in Seq(Values(q))
                            /\ Len(values'[q]) >= Len(values[q])
                            /\ \A i \in 1..Len(values[q]) : values'[q][i] = values[q][i]
    BY <1>1, <1>2
  <1> QED
    BY <1>1, <1>2, <1>3, <1>4, MoveKeeps

LEMMA UnmovedKeeps ==
    ASSUME PartsInv, UNCHANGED <<values, ptr, log>>
    PROVE  PartsInv' /\ PastKept
  <1>1. \A q \in AllParts : Len(values[q]) \in Nat
    BY DEF PartsInv
  <1>2. Len(log) \in Nat
    BY DEF PartsInv
  <1> QED
    BY <1>1, <1>2 DEF PartsInv, PastKept
-------------------------------------------------------------------------------
(* What steps do to the parts                                              *)

LEMMA PresentBasics ==
    ASSUME PartsInv, NEW n \in 1..Len(values["basic"])
    PROVE  values["basic"][n] \in Basic
  BY PartNames, ValuesOf DEF PartsInv

LEMMA PresentIs ==
    ASSUME PartsInv, Exists
    PROVE  ptr["basic"] \in 1..Len(values["basic"]) /\ Current \in Basic
  <1>1. ptr["basic"] \in Nat /\ ptr["basic"] <= Len(values["basic"]) /\ ptr["basic"] # 0
    BY PartNames DEF PartsInv, Exists
  <1>2. Len(values["basic"]) \in Nat
    BY PartNames DEF PartsInv
  <1>3. ptr["basic"] \in 1..Len(values["basic"])
    BY <1>1, <1>2
  <1> QED
    BY <1>3, PresentBasics DEF Current

LEMMA MergeIsBasic ==
    ASSUME NEW cur \in Basic, NEW b \in Bodies
    PROVE  Merge(cur, b) \in Basic
  <1>1. /\ b.name \in Names \cup {Keep} /\ b.place \in Places \cup {Keep}
        /\ b.city \in Cities \cup {NoCity, Keep}
    OBVIOUS
  <1>2. cur.name \in Names /\ cur.place \in Places /\ cur.city \in Cities \cup {NoCity}
    BY DEF Basic
  <1> DEFINE city == IF b.city # Keep THEN b.city
                     ELSE IF b.place # Keep THEN NearestCity[b.place] ELSE cur.city
  <1>3. Given(b.name, cur.name) \in Names /\ Given(b.place, cur.place) \in Places
    BY <1>1, <1>2 DEF Given
  <1>4. city \in Cities \cup {NoCity}
    BY <1>1, <1>2
  <1> HIDE DEF city
  <1>5. [name |-> Given(b.name, cur.name), place |-> Given(b.place, cur.place), city |-> city] \in Basic
    BY <1>3, <1>4, Zenon DEF Basic
  <1> QED
    BY <1>5, Zenon DEF Merge, city

\* A revision of a part that has no shape of its own.
LEMMA SectionReplaces ==
    ASSUME NEW u \in Users, NEW p \in {"hour", "sns", "gtk", "memo", "game"},
           NEW v \in {"some", "none"}, Section(u, p, v)
    PROVE  p \in AllParts /\ v \in Values(p) /\ u \in Who /\ Replace(p, v, u)
  <1>1. p \in Parts /\ p # "photo" /\ Replace(p, v, u)
    BY DEF Section
  <1> QED
    BY <1>1, PartNames, ValuesOf DEF Who

Replaces == \E p \in AllParts, by \in Who : \E v \in Values(p) : Replace(p, v, by)
Returns == \E p \in AllParts, by \in Users : \E to \in 1..Len(values[p]) : Returned(p, to, by)

PartsStep == Replaces \/ Returns \/ UNCHANGED <<values, ptr, log>>

LEMMA EditRequest ==
    ASSUME ReqInv, NEW r \in Requests, req[r].kind = "basic"
    PROVE  req[r] \in Edits /\ req[r].read \in Nat \ {0} /\ req[r].read <= Len(values["basic"])
  <1>1. req[r] \in {Idle} \cup Edits \cup Publications
    BY DEF ReqInv
  <1>2. Idle.kind # "basic" /\ \A q \in Publications : q.kind # "basic"
    BY DEF Idle, Publications
  <1>3. req[r] \in Edits
    BY <1>1, <1>2
  <1> QED
    BY <1>3 DEF ReqInv, Edits

LEMMA PartsSteps ==
    ASSUME Inv, [Next]_vars
    PROVE  PartsStep
  <1> USE DEF PartsStep
  <1>0. PartsInv /\ ReqInv
    BY DEF Inv
  <1>1. ASSUME NewArcade PROVE PartsStep
    <2>1. PICK n \in Names, pl \in Places :
             Replace("basic", [name |-> n, place |-> pl, city |-> NearestCity[pl]], Creator)
      BY <1>1 DEF NewArcade
    <2> DEFINE v == [name |-> n, place |-> pl, city |-> NearestCity[pl]]
    <2>2. NearestCity[pl] \in Cities \cup {NoCity}
      OBVIOUS
    <2>3. v \in Basic
      BY <2>2, Zenon DEF Basic
    <2>4. v \in Values("basic") /\ Creator \in Who /\ "basic" \in AllParts
      BY <2>3, ValuesOf, PartNames DEF Who
    <2> HIDE DEF v
    <2> QED
      BY <2>1, <2>4, Zenon DEF Replaces, v
  <1>2. ASSUME NEW r \in Requests, CommitBasic(r) PROVE PartsStep
    <2> DEFINE next == Merge(values["basic"][req[r].read], req[r].body)
    <2>1. Replace("basic", next, req[r].by) /\ req[r].kind = "basic"
      BY <1>2, Zenon DEF CommitBasic
    <2>2. req[r] \in Edits /\ req[r].read \in 1..Len(values["basic"])
      <3>1. Len(values["basic"]) \in Nat
        BY <1>0, PartNames DEF PartsInv
      <3> QED
        BY <1>0, <2>1, <3>1, EditRequest
    <2>3. req[r].body \in Bodies /\ req[r].by \in Users
      BY <2>2 DEF Edits
    <2>4. values["basic"][req[r].read] \in Basic
      BY <1>0, <2>2, PresentBasics
    <2>5. next \in Values("basic") /\ req[r].by \in Who /\ "basic" \in AllParts
      BY <2>3, <2>4, MergeIsBasic, ValuesOf, PartNames DEF Who
    <2> HIDE DEF next
    <2> QED
      BY <2>1, <2>5, Zenon DEF Replaces
  <1>3. ASSUME NEW u \in Users, UpdateArcadeHour(u) \/ UpdateArcadeSNS(u) \/ UpdateArcadeGTK(u)
                                \/ UpdateArcadeMemo(u) \/ UpdateArcadeGame(u)
        PROVE  PartsStep
    <2>1. PICK p \in {"hour", "sns", "gtk", "memo", "game"}, v \in {"some", "none"} : Section(u, p, v)
      <3>1. CASE UpdateArcadeHour(u)
        BY <3>1 DEF UpdateArcadeHour
      <3>2. CASE UpdateArcadeSNS(u)
        BY <3>2 DEF UpdateArcadeSNS
      <3>3. CASE UpdateArcadeGTK(u)
        BY <3>3 DEF UpdateArcadeGTK
      <3>4. CASE UpdateArcadeMemo(u)
        BY <3>4 DEF UpdateArcadeMemo
      <3>5. CASE UpdateArcadeGame(u)
        BY <3>5 DEF UpdateArcadeGame
      <3> QED
        BY <1>3, <3>1, <3>2, <3>3, <3>4, <3>5
    <2>2. p \in AllParts /\ v \in Values(p) /\ u \in Who /\ Replace(p, v, u)
      BY <2>1, SectionReplaces
    <2> QED
      BY <2>2, Zenon DEF Replaces
  <1>4. ASSUME NEW u \in Users, NEW S \in SUBSET Stored, NEW target \in BOOLEAN,
               UpdateArcadePhoto(u, S, target)
        PROVE  PartsStep
    <2>1. Replace("photo", S, u) /\ S # {} /\ "photo" \in Parts
      BY <1>4, Zenon DEF UpdateArcadePhoto
    <2>2. S \subseteq Atoms
      BY DEF Stored
    <2>3. S \in Values("photo")
      <3>1. S \in (SUBSET Atoms) \ {{}}
        BY <2>1, <2>2, Zenon
      <3> QED
        BY <3>1, ValuesOf, Zenon
    <2>4. u \in Who /\ "photo" \in AllParts
      BY <2>1, PartNames, Zenon DEF Who
    <2> QED
      BY <2>1, <2>3, <2>4, Zenon DEF Replaces
  <1>5. ASSUME NEW by \in Who, ApplyCityAssignment(by) PROVE PartsStep
    <2>1. PICK city \in Cities : Replace("basic", [Current EXCEPT !.city = city], by)
      BY <1>5 DEF ApplyCityAssignment
    <2>2. Current \in Basic
      BY <1>0, <1>5, PresentIs DEF ApplyCityAssignment
    <2>3. [Current EXCEPT !.city = city] \in Basic
      BY <2>2 DEF Basic
    <2>4. [Current EXCEPT !.city = city] \in Values("basic") /\ "basic" \in AllParts
      BY <2>3, ValuesOf, PartNames
    <2> QED
      BY <2>1, <2>4, Zenon DEF Replaces
  <1>6. ASSUME NEW u \in Users, NEW p \in AllParts, NEW to \in 1..Len(values[p]),
               NEW c \in 0..Len(log), RollbackArcadePart(u, p, to, c)
        PROVE  PartsStep
    <2>1. Returned(p, to, u)
      BY <1>6 DEF RollbackArcadePart, Returned
    <2> QED
      BY <2>1, Zenon DEF Returns
  <1>7. \A r \in Requests : Fail(r) \/ BeginPublic(r) \/ CommitPublic(r) => UNCHANGED <<values, ptr, log>>
    BY DEF Fail, BeginPublic, CommitPublic
  <1>8. \A r \in Requests, u \in Users : BeginBasic(r, u) => UNCHANGED <<values, ptr, log>>
    BY DEF BeginBasic
  <1>9. \A u \in Users, a \in Atoms : Upload(u, a) \/ DeleteArcadePhotoAtom(u, a) => UNCHANGED <<values, ptr, log>>
    BY DEF Upload, DeleteArcadePhotoAtom
  <1>10. \A u \in Users, c \in 1..Len(log) : CreateArcadeEditReport(u, c) => UNCHANGED <<values, ptr, log>>
    BY DEF CreateArcadeEditReport
  <1>11. \A public, closed, country : UpdateArcadeStatus(public, closed, country) => UNCHANGED <<values, ptr, log>>
    BY DEF UpdateArcadeStatus
  <1>12. VerifyArcadeLocation \/ Tick \/ (\E i \in 1..Len(reports) : ReviewArcadeRequest(i))
         => UNCHANGED <<values, ptr, log>>
    BY DEF VerifyArcadeLocation, Tick, ReviewArcadeRequest
  <1>13. CASE UNCHANGED vars
    BY <1>13 DEF vars
  <1> HIDE DEF PartsStep
  <1>14. UNCHANGED <<values, ptr, log>> => PartsStep
    BY DEF PartsStep
  <1> QED
    BY <1>1, <1>2, <1>3, <1>4, <1>5, <1>6, <1>7, <1>8, <1>9, <1>10, <1>11, <1>12, <1>13, <1>14, Zenon
       DEF Next, Who

LEMMA PartsKept ==
    ASSUME Inv, [Next]_vars
    PROVE  PartsInv' /\ PastKept
  <1>1. PartsInv
    BY DEF Inv
  <1>2. CASE Replaces
    <2>1. PICK p \in AllParts, by \in Who : \E v \in Values(p) : Replace(p, v, by)
      BY <1>2, Zenon DEF Replaces
    <2>2. PICK v \in Values(p) : Replace(p, v, by)
      BY <2>1, Zenon
    <2> QED
      BY <1>1, <2>2, ReplaceKeeps
  <1>3. CASE Returns
    BY <1>1, <1>3, ReturnKeeps DEF Returns, Who
  <1> QED
    BY <1>1, <1>2, <1>3, PartsSteps, UnmovedKeeps DEF PartsStep
-------------------------------------------------------------------------------
(* Steps keep the flags, photos, requests and reports                      *)

Flags == [public : BOOLEAN, closed : BOOLEAN, country : Countries \cup {NoCountry}, proof : Nat]

LEMMA SyncedCountry ==
    ASSUME NEW b \in Bodies, arcade \in Flags
    PROVE  Synced(b) \in Countries \cup {NoCountry}
  <1>1. b.place \in Places \cup {Keep}
    OBVIOUS
  <1> QED
    BY <1>1 DEF Synced, Flags, Countries

\* Flags that a step writes: a new proof is of the present place.
FlagsStep ==
    /\ arcade' \in Flags
    /\ stood \subseteq stood'
    /\ \/ arcade'.proof = arcade.proof
       \/ Exists /\ arcade'.proof = ptr["basic"] /\ Current.place \in stood'

LEMMA FlagsSteps ==
    ASSUME Inv, [Next]_vars
    PROVE  FlagsStep
  <1> USE DEF FlagsStep
  <1>0. arcade \in Flags /\ PartsInv /\ ReqInv
    BY DEF Inv, ArcadeInv, Flags
  <1>1. ASSUME NewArcade PROVE FlagsStep
    <2>1. PICK pl \in Places : arcade' = [arcade EXCEPT !.country = CountryOf[pl]]
      BY <1>1 DEF NewArcade
    <2>2. CountryOf[pl] \in Countries
      BY DEF Countries
    <2>3. stood' = stood
      BY <1>1 DEF NewArcade
    <2> QED
      BY <1>0, <2>1, <2>2, <2>3 DEF Flags
  <1>2. ASSUME NEW r \in Requests, CommitBasic(r) PROVE FlagsStep
    <2>1. /\ arcade' = [arcade EXCEPT !.country = Synced(req[r].body)] /\ stood' = stood
          /\ req[r].kind = "basic"
      BY <1>2, Zenon DEF CommitBasic
    <2>2. req[r].body \in Bodies
      BY <1>0, <2>1, EditRequest DEF Edits
    <2>3. Synced(req[r].body) \in Countries \cup {NoCountry}
      BY <1>0, <2>2, SyncedCountry
    <2> DEFINE c == Synced(req[r].body)
    <2> HIDE DEF c
    <2>4. arcade' = [arcade EXCEPT !.country = c] /\ c \in Countries \cup {NoCountry}
      BY <2>1, <2>3 DEF c
    <2> QED
      BY <1>0, <2>1, <2>4 DEF Flags
  <1>3. ASSUME NEW r \in Requests, CommitPublic(r) PROVE FlagsStep
    BY <1>0, <1>3 DEF CommitPublic, Flags
  <1>4. ASSUME VerifyArcadeLocation PROVE FlagsStep
    <2>1. /\ Exists /\ arcade' = [arcade EXCEPT !.proof = ptr["basic"]]
          /\ stood' = stood \cup {Current.place}
      BY <1>4 DEF VerifyArcadeLocation
    <2>2. ptr["basic"] \in Nat
      BY <1>0, PartNames DEF PartsInv
    <2> QED
      BY <1>0, <2>1, <2>2 DEF Flags
  <1>5. ASSUME NEW public \in BOOLEAN, NEW closed \in BOOLEAN, NEW country \in Countries,
               UpdateArcadeStatus(public, closed, country)
        PROVE  FlagsStep
    BY <1>0, <1>5 DEF UpdateArcadeStatus, Flags
  <1>6. UNCHANGED <<arcade, stood>> => FlagsStep
    BY <1>0
  <1>7. \A r \in Requests : Fail(r) \/ BeginPublic(r) => UNCHANGED <<arcade, stood>>
    BY DEF Fail, BeginPublic
  <1>8. \A r \in Requests, u \in Users : BeginBasic(r, u) => UNCHANGED <<arcade, stood>>
    BY DEF BeginBasic
  <1>9. \A u \in Users, a \in Atoms : Upload(u, a) \/ DeleteArcadePhotoAtom(u, a) => UNCHANGED <<arcade, stood>>
    BY DEF Upload, DeleteArcadePhotoAtom
  <1>10. \A u \in Users, c \in 1..Len(log) : CreateArcadeEditReport(u, c) => UNCHANGED <<arcade, stood>>
    BY DEF CreateArcadeEditReport
  <1>11. \A u, S, target : UpdateArcadePhoto(u, S, target) => UNCHANGED <<arcade, stood>>
    BY Zenon DEF UpdateArcadePhoto
  <1>12. \A u, p, to, c : RollbackArcadePart(u, p, to, c) => UNCHANGED <<arcade, stood>>
    BY Zenon DEF RollbackArcadePart
  <1>13. Tick \/ (\E i \in 1..Len(reports) : ReviewArcadeRequest(i)) \/ (\E by : ApplyCityAssignment(by))
         => UNCHANGED <<arcade, stood>>
    BY DEF Tick, ReviewArcadeRequest, ApplyCityAssignment
  <1>14. \A u : UpdateArcadeHour(u) \/ UpdateArcadeSNS(u) \/ UpdateArcadeGTK(u)
                \/ UpdateArcadeMemo(u) \/ UpdateArcadeGame(u) => UNCHANGED <<arcade, stood>>
    BY Zenon DEF UpdateArcadeHour, UpdateArcadeSNS, UpdateArcadeGTK, UpdateArcadeMemo, UpdateArcadeGame, Section
  <1>15. UNCHANGED vars => UNCHANGED <<arcade, stood>>
    BY DEF vars
  <1> HIDE DEF FlagsStep
  <1> QED
    BY <1>1, <1>2, <1>3, <1>4, <1>5, <1>6, <1>7, <1>8, <1>9, <1>10, <1>11, <1>12, <1>13, <1>14,
       <1>15, Zenon DEF Next

LEMMA ArcadeKept ==
    ASSUME Inv, [Next]_vars
    PROVE  ArcadeInv'
  <1>0. ArcadeInv /\ PartsInv /\ PastKept /\ FlagsStep
    BY PartsKept, FlagsSteps DEF Inv
  <1>1. arcade' \in Flags
    BY <1>0 DEF FlagsStep
  <1>2. ASSUME arcade'.proof # 0
        PROVE  /\ arcade'.proof \in 1..Len(values["basic"])
               /\ values["basic"][arcade'.proof].place \in stood'
    <2>1. CASE arcade'.proof = arcade.proof
      <3>1. Len(values["basic"]) \in Nat
        BY <1>0, PartNames DEF PartsInv
      <3> QED
        BY <1>0, <1>1, <1>2, <2>1, <3>1 DEF ArcadeInv, FlagsStep, Flags
    <2>2. CASE Exists /\ arcade'.proof = ptr["basic"] /\ Current.place \in stood'
      BY <1>0, <2>2, PresentIs DEF Current
    <2> QED
      BY <1>0, <2>1, <2>2 DEF FlagsStep
  <1>3. Len(values'["basic"]) >= Len(values["basic"])
        /\ \A i \in 1..Len(values["basic"]) : values'["basic"][i] = values["basic"][i]
    BY <1>0, PartNames DEF PastKept
  <1>4. Len(values["basic"]) \in Nat /\ Len(values'["basic"]) \in Nat
    BY <1>0, PartNames, PartsKept DEF PartsInv
  <1> QED
    BY <1>1, <1>2, <1>3, <1>4 DEF ArcadeInv, Flags
-------------------------------------------------------------------------------
(* Extremes of finite sets                                                 *)

LEMMA Extremes ==
    ASSUME NEW S, IsFiniteSet(S), S \subseteq Int, S # {}
    PROVE  /\ Max(S) \in S /\ \A y \in S : y <= Max(S)
           /\ Min(S) \in S /\ \A y \in S : Min(S) <= y
  <1> DEFINE Bounded(T) == (\E m \in T : \A y \in T : y <= m) /\ (\E m \in T : \A y \in T : m <= y)
             F == {T \in SUBSET S : T # {} /\ ~Bounded(T)}
  <1>1. F = {}
    <2> SUFFICES ASSUME F # {} PROVE FALSE
      OBVIOUS
    <2>0. F \subseteq SUBSET S
      OBVIOUS
    <2>1. PICK T \in F : \A U \in F : U \subseteq T => U = T
      <3> HIDE DEF F
      <3> QED
        BY <2>0, SmallestSet
    <2>2. PICK x \in T : TRUE
      BY <2>1
    <2>3. T \subseteq Int /\ x \in Int
      BY <2>1
    <2>4. CASE T \ {x} = {}
      <3>1. \A y \in T : y = x
        BY <2>4
      <3> QED
        BY <2>1, <2>3, <3>1
    <2>5. CASE T \ {x} # {}
      <3>1. Bounded(T \ {x})
        <4>1. T \ {x} \in SUBSET S /\ T \ {x} # T /\ T \ {x} \subseteq T
          BY <2>1
        <4> HIDE DEF Bounded
        <4> QED
          BY <2>1, <2>5, <4>1
      <3>2. PICK m \in T \ {x} : \A y \in T \ {x} : y <= m
        BY <3>1
      <3>3. PICK n \in T \ {x} : \A y \in T \ {x} : n <= y
        BY <3>1
      <3>4. \E k \in T : \A y \in T : y <= k
        <4>1. CASE m <= x
          <5>1. \A y \in T : y <= x
            BY <2>3, <3>2, <4>1
          <5> QED
            BY <5>1
        <4>2. CASE x <= m
          <5>1. \A y \in T : y <= m
            BY <2>3, <3>2, <4>2
          <5> QED
            BY <5>1
        <4> QED
          BY <2>3, <4>1, <4>2
      <3>5. \E k \in T : \A y \in T : k <= y
        <4>1. CASE x <= n
          <5>1. \A y \in T : x <= y
            BY <2>3, <3>3, <4>1
          <5> QED
            BY <5>1
        <4>2. CASE n <= x
          <5>1. \A y \in T : n <= y
            BY <2>3, <3>3, <4>2
          <5> QED
            BY <5>1
        <4> QED
          BY <2>3, <4>1, <4>2
      <3> QED
        BY <2>1, <3>4, <3>5
    <2> QED
      BY <2>4, <2>5
  <1>2. Bounded(S)
    <2> HIDE DEF Bounded
    <2> QED
      BY <1>1
  <1>3. PICK m \in S : \A y \in S : y <= m
    BY <1>2
  <1>4. PICK n \in S : \A y \in S : n <= y
    BY <1>2
  <1>5. \A y \in S : m >= y
    BY <1>3
  <1> QED
    BY <1>3, <1>4, <1>5 DEF Max, Min

LEMMA Pairs ==
    ASSUME NEW a \in Int, NEW b \in Int
    PROVE  /\ Min({a, b}) = IF a <= b THEN a ELSE b
           /\ Max({a, b}) = IF a <= b THEN b ELSE a
  <1>1. IsFiniteSet({a, b})
    <2>1. IsFiniteSet({a}) /\ {a, b} = {a} \cup {b}
      BY FS_Singleton
    <2> QED
      BY ONLY <2>1, FS_AddElement
  <1>2. /\ Max({a, b}) \in {a, b} /\ \A y \in {a, b} : y <= Max({a, b})
        /\ Min({a, b}) \in {a, b} /\ \A y \in {a, b} : Min({a, b}) <= y
    BY <1>1, Extremes
  <1> QED
    BY <1>2

-------------------------------------------------------------------------------
(* Photos                                                                  *)

\* A photo that is public stays so, and a new revision shows public ones.
AtomsStep ==
    /\ atoms' \in [Atoms -> {"absent", "pending", "public", "deleted"}]
    /\ owner' \in [Atoms -> Users]
    /\ \A a \in Atoms : atoms[a] = "public" => atoms'[a] = "public"
    /\ "photo" \in Parts =>
         \/ values'["photo"] = values["photo"]
         \/ \E S \in SUBSET Atoms : /\ values'["photo"] = Append(values["photo"], S)
                                    /\ \A a \in S : atoms'[a] = "public"

LEMMA UploadsAbsent ==
    ASSUME NEW a \in Atoms, a = Min({b \in Atoms : atoms[b] = "absent"} \cup {a + 1})
    PROVE  atoms[a] = "absent"
  <1> DEFINE S == {b \in Atoms : atoms[b] = "absent"} \cup {a + 1}
  <1>1. IsFiniteSet({b \in Atoms : atoms[b] = "absent"})
    <2>1. {b \in Atoms : atoms[b] = "absent"} \subseteq Atoms
      OBVIOUS
    <2> QED
      BY <2>1, FS_Subset
  <1>2. IsFiniteSet(S) /\ S \subseteq Int /\ S # {}
    <2> DEFINE A == {b \in Atoms : atoms[b] = "absent"}
    <2>1. A \subseteq Int /\ a + 1 \in Int
      OBVIOUS
    <2>2. IsFiniteSet(A) /\ S = A \cup {a + 1}
      BY <1>1
    <2> HIDE DEF A, S
    <2>3. IsFiniteSet(A \cup {a + 1})
      BY ONLY <2>2, FS_AddElement
    <2> QED
      BY <2>1, <2>2, <2>3
  <1>3. Min(S) \in S
    <2> HIDE DEF S
    <2> QED
      BY <1>2, Extremes
  <1>4. a # a + 1
    OBVIOUS
  <1> QED
    BY <1>3, <1>4

LEMMA OtherParts ==
    ASSUME PartsInv, NEW p \in AllParts, NEW v, NEW by, Replace(p, v, by), p # "photo", "photo" \in Parts
    PROVE  values'["photo"] = values["photo"]
  BY PartNames DEF PartsInv, Replace

LEMMA AtomsSteps ==
    ASSUME Inv, [Next]_vars
    PROVE  AtomsStep
  <1> USE DEF AtomsStep
  <1>0. /\ PartsInv
        /\ atoms \in [Atoms -> {"absent", "pending", "public", "deleted"}]
        /\ owner \in [Atoms -> Users]
    BY DEF Inv, AtomsInv
  <1>1. ASSUME NEW u \in Users, NEW a \in Atoms, Upload(u, a) PROVE AtomsStep
    <2>1. atoms[a] = "absent"
      BY <1>1, UploadsAbsent DEF Upload
    <2> QED
      BY <1>0, <1>1, <2>1 DEF Upload
  <1>2. ASSUME NEW u \in Users, NEW a \in Atoms, DeleteArcadePhotoAtom(u, a) PROVE AtomsStep
    BY <1>0, <1>2 DEF DeleteArcadePhotoAtom, Deletable
  <1>3. ASSUME NEW u \in Users, NEW S \in SUBSET Stored, NEW target \in BOOLEAN,
               UpdateArcadePhoto(u, S, target)
        PROVE  AtomsStep
    <2>1. Replace("photo", S, u) /\ "photo" \in Parts /\ owner' = owner /\ Promote(S)
      BY <1>3, Zenon DEF UpdateArcadePhoto
    <2>2. S \in SUBSET Atoms
      BY DEF Stored
    <2>3. /\ atoms' \in [Atoms -> {"absent", "pending", "public", "deleted"}]
          /\ \A a \in Atoms : atoms[a] = "public" => atoms'[a] = "public"
          /\ \A a \in S : atoms'[a] = "public"
      BY <1>0, <2>1, <2>2 DEF Promote
    <2>4. values'["photo"] = Append(values["photo"], S)
      <3>1. values' = [values EXCEPT !["photo"] = Append(@, S)]
        BY <2>1, Zenon DEF Replace
      <3>2. "photo" \in DOMAIN values
        BY <1>0, <2>1, PartNames DEF PartsInv
      <3> QED
        BY <3>1, <3>2
    <2> QED
      BY <1>0, <2>1, <2>2, <2>3, <2>4, Zenon
  <1>4. UNCHANGED <<atoms, owner, values>> => AtomsStep
    BY <1>0
  <1> HIDE DEF AtomsStep
  <1>5. ASSUME NEW p \in AllParts, NEW v, NEW by, Replace(p, v, by), p # "photo", UNCHANGED <<atoms, owner>>
        PROVE  AtomsStep
    <2>1. "photo" \in Parts => values'["photo"] = values["photo"]
      BY <1>0, <1>5, OtherParts
    <2> QED
      BY <1>0, <1>5, <2>1 DEF AtomsStep
  <1>6. NewArcade \/ (\E r \in Requests : CommitBasic(r)) \/ (\E by \in Who : ApplyCityAssignment(by)) => AtomsStep
    <2>1. "basic" \in AllParts /\ "basic" # "photo"
      BY PartNames
    <2>2. ASSUME NewArcade PROVE \E v, by : Replace("basic", v, by) /\ UNCHANGED <<atoms, owner>>
      BY <2>2, Zenon DEF NewArcade
    <2>3. ASSUME NEW r \in Requests, CommitBasic(r)
          PROVE  \E v, by : Replace("basic", v, by) /\ UNCHANGED <<atoms, owner>>
      BY <2>3, Zenon DEF CommitBasic
    <2>4. ASSUME NEW c, ApplyCityAssignment(c)
          PROVE  \E v, by : Replace("basic", v, by) /\ UNCHANGED <<atoms, owner>>
      BY <2>4, Zenon DEF ApplyCityAssignment
    <2> QED
      BY <1>5, <2>1, <2>2, <2>3, <2>4, Zenon
  <1>7. ASSUME NEW u \in Users, NEW p \in {"hour", "sns", "gtk", "memo", "game"}, NEW v \in {"some", "none"},
               Section(u, p, v)
        PROVE  AtomsStep
    <2>1. p \in AllParts /\ Replace(p, v, u) /\ p # "photo"
      BY <1>7, SectionReplaces
    <2>2. UNCHANGED <<atoms, owner>>
      BY <1>7, Zenon DEF Section
    <2> QED
      BY <1>5, <2>1, <2>2, Zenon
  <1>8. ASSUME NEW u \in Users, UpdateArcadeHour(u) \/ UpdateArcadeSNS(u) \/ UpdateArcadeGTK(u)
                                \/ UpdateArcadeMemo(u) \/ UpdateArcadeGame(u)
        PROVE  AtomsStep
    <2> DEFINE names == {"hour", "sns", "gtk", "memo", "game"}
               vals == {"some", "none"}
    <2>1. /\ "hour" \in names /\ "sns" \in names /\ "gtk" \in names /\ "memo" \in names /\ "game" \in names
          /\ "some" \in vals
      OBVIOUS
    <2>2. \A v : v \in {"some", "none"} <=> v \in vals
      OBVIOUS
    <2> HIDE DEF names, vals
    <2>3. \E p \in names, v \in vals : Section(u, p, v)
      BY <1>8, <2>1, <2>2, Zenon DEF UpdateArcadeHour, UpdateArcadeSNS, UpdateArcadeGTK, UpdateArcadeMemo,
                                     UpdateArcadeGame
    <2> QED
      BY <1>7, <2>3, Zenon DEF names, vals
  <1>9. \A r \in Requests : Fail(r) \/ BeginPublic(r) \/ CommitPublic(r) => UNCHANGED <<atoms, owner, values>>
    BY DEF Fail, BeginPublic, CommitPublic
  <1>10. \A r \in Requests, u \in Users : BeginBasic(r, u) => UNCHANGED <<atoms, owner, values>>
    BY DEF BeginBasic
  <1>11. \A u \in Users, c \in 1..Len(log) : CreateArcadeEditReport(u, c) => UNCHANGED <<atoms, owner, values>>
    BY DEF CreateArcadeEditReport
  <1>12. \A public, closed, country : UpdateArcadeStatus(public, closed, country) => UNCHANGED <<atoms, owner, values>>
    BY DEF UpdateArcadeStatus
  <1>13. VerifyArcadeLocation \/ Tick \/ (\E i \in 1..Len(reports) : ReviewArcadeRequest(i))
         => UNCHANGED <<atoms, owner, values>>
    BY DEF VerifyArcadeLocation, Tick, ReviewArcadeRequest
  <1>14. \A u, p, to, c : RollbackArcadePart(u, p, to, c) => UNCHANGED <<atoms, owner, values>>
    BY Zenon DEF RollbackArcadePart
  <1>15. UNCHANGED vars => UNCHANGED <<atoms, owner, values>>
    BY DEF vars
  <1> QED
    BY <1>1, <1>2, <1>3, <1>4, <1>6, <1>8, <1>9, <1>10, <1>11, <1>12, <1>13, <1>14, <1>15, Zenon
       DEF Next, Who

LEMMA AtomsKept ==
    ASSUME Inv, [Next]_vars
    PROVE  AtomsInv'
  <1>0. AtomsStep /\ PartsInv /\ PhotosResolve /\ atoms \in [Atoms -> {"absent", "pending", "public", "deleted"}]
    BY AtomsSteps DEF Inv, AtomsInv
  <1>1. ASSUME "photo" \in Parts, NEW S \in Range(values'["photo"]), NEW a \in S PROVE atoms'[a] = "public"
    <2> DEFINE V == values["photo"]
    <2>1. V \in Seq((SUBSET Atoms) \ {{}})
      BY <1>0, <1>1, PartNames, ValuesOf DEF PartsInv
    <2>2. \A T \in Range(V) : T \subseteq Atoms /\ \A b \in T : atoms[b] = "public"
      <3>1. \A T \in Range(V) : T \subseteq Atoms
        BY <2>1 DEF Range
      <3> QED
        BY <1>0, <1>1, <3>1 DEF PhotosResolve
    <2>3. S \in Range(V) => atoms'[a] = "public"
      <3> HIDE DEF V
      <3> QED
        BY <1>0, <1>1, <2>2 DEF AtomsStep
    <2>4. CASE values'["photo"] = V
      BY <1>1, <2>3, <2>4
    <2>5. CASE \E T \in SUBSET Atoms : values'["photo"] = Append(V, T) /\ \A b \in T : atoms'[b] = "public"
      <3>1. PICK T \in SUBSET Atoms : values'["photo"] = Append(V, T) /\ \A b \in T : atoms'[b] = "public"
        BY <2>5
      <3> HIDE DEF V
      <3>2. S \in Range(V) \/ S = T
        <4>1. PICK i \in DOMAIN Append(V, T) : S = Append(V, T)[i]
          BY <1>1, <3>1 DEF Range
        <4>2. i \in 1..Len(V) \/ i = Len(V) + 1
          BY <2>1, <4>1
        <4> QED
          BY <2>1, <4>1, <4>2 DEF Range
      <3> QED
        BY <1>1, <2>3, <3>1, <3>2
    <2> QED
      BY <1>0, <1>1, <2>4, <2>5 DEF AtomsStep
  <1>2. PhotosResolve'
    BY <1>1, Zenon DEF PhotosResolve
  <1> QED
    BY <1>0, <1>2 DEF AtomsInv, AtomsStep
-------------------------------------------------------------------------------
(* Reports                                                                 *)

ReportsStep ==
    \/ reports' = reports
    \/ \E i \in 1..Len(reports) : reports' = [reports EXCEPT ![i].status = "done"]
    \/ \E x \in Reports : /\ x.change <= Len(log) /\ reports' = Append(reports, x)
                          /\ x.kind = "rollback_report" => Len(log') = Len(log) + 1

LEMMA ReportedIs ==
    ASSUME PartsInv, NEW u \in Users, NEW c \in 1..Len(log), Reportable(u, c),
           NEW kind \in {"edit_report", "rollback_report"}, Reported(kind, u, c)
    PROVE  \E x \in Reports : /\ x.kind = kind /\ x.change = c
                              /\ x.change <= Len(log) /\ reports' = Append(reports, x)
  <1> DEFINE x == [kind |-> kind, change |-> c, editor |-> log[c].by, by |-> u, status |-> "waiting"]
  <1>1. log[c].by \in Users
    <2>1. log[c] \in Rows
      BY DEF PartsInv
    <2>2. log[c].by \in Who /\ log[c].by # System
      BY <2>1 DEF Rows, Reportable
    <2> QED
      BY <2>2 DEF Who
  <1>2. c \in Nat \ {0} /\ c <= Len(log)
    <2>1. Len(log) \in Nat
      BY DEF PartsInv
    <2> QED
      BY <2>1
  <1>3. x \in Reports
    <2>1. "waiting" \in {"waiting", "done"}
      OBVIOUS
    <2> QED
      BY <1>1, <1>2, <2>1, Zenon DEF Reports
  <1>4. reports' = Append(reports, x)
    BY Zenon DEF Reported
  <1> HIDE DEF x
  <1>5. x.kind = kind /\ x.change = c
    BY DEF x
  <1> QED
    BY <1>2, <1>3, <1>4, <1>5

LEMMA ReportsSteps ==
    ASSUME Inv, [Next]_vars
    PROVE  ReportsStep
  <1> USE DEF ReportsStep
  <1>0. PartsInv
    BY DEF Inv
  <1>1. ASSUME NEW u \in Users, NEW c \in 1..Len(log), CreateArcadeEditReport(u, c) PROVE ReportsStep
    <2>1. Reportable(u, c) /\ Reported("edit_report", u, c)
      BY <1>1, Zenon DEF CreateArcadeEditReport
    <2>2. "edit_report" \in {"edit_report", "rollback_report"}
      OBVIOUS
    <2>3. \E x \in Reports : /\ x.kind = "edit_report" /\ x.change = c
                             /\ x.change <= Len(log) /\ reports' = Append(reports, x)
      BY <1>0, <2>1, <2>2, ReportedIs, ZenonT(40)
    <2> QED
      BY <2>3
  <1>2. ASSUME NEW u \in Users, NEW p \in AllParts, NEW to \in 1..Len(values[p]),
               NEW c \in 0..Len(log), RollbackArcadePart(u, p, to, c)
        PROVE  ReportsStep
    <2>1. CASE c = 0
      BY <1>2, <2>1 DEF RollbackArcadePart
    <2>2. CASE c # 0
      <3>1. Reportable(u, c) /\ Reported("rollback_report", u, c)
        BY <1>2, <2>2, Zenon DEF RollbackArcadePart
      <3>2. c \in 1..Len(log)
        BY <3>1 DEF Reportable
      <3>3. "rollback_report" \in {"edit_report", "rollback_report"}
        OBVIOUS
      <3>4. Len(log') = Len(log) + 1
        BY <1>0, <1>2 DEF RollbackArcadePart, Move, PartsInv
      <3> QED
        BY <1>0, <3>1, <3>2, <3>3, <3>4, ReportedIs, Zenon
    <2> QED
      BY <2>1, <2>2
  <1>3. \A i \in 1..Len(reports) : ReviewArcadeRequest(i) => ReportsStep
    BY Zenon DEF ReviewArcadeRequest
  <1>4. reports' = reports => ReportsStep
    OBVIOUS
  <1> HIDE DEF ReportsStep
  <1>5. \A r \in Requests : Fail(r) \/ BeginPublic(r) \/ CommitPublic(r) \/ CommitBasic(r) => reports' = reports
    BY Zenon DEF Fail, BeginPublic, CommitPublic, CommitBasic
  <1>6. \A r \in Requests, u \in Users : BeginBasic(r, u) => reports' = reports
    BY Zenon DEF BeginBasic
  <1>7. \A u \in Users, a \in Atoms : Upload(u, a) \/ DeleteArcadePhotoAtom(u, a) => reports' = reports
    BY Zenon DEF Upload, DeleteArcadePhotoAtom
  <1>8. \A u, S, target : UpdateArcadePhoto(u, S, target) => reports' = reports
    BY Zenon DEF UpdateArcadePhoto
  <1>9. \A public, closed, country : UpdateArcadeStatus(public, closed, country) => reports' = reports
    BY Zenon DEF UpdateArcadeStatus
  <1>10. NewArcade \/ VerifyArcadeLocation \/ Tick \/ (\E by : ApplyCityAssignment(by)) => reports' = reports
    BY Zenon DEF NewArcade, VerifyArcadeLocation, Tick, ApplyCityAssignment
  <1>11. \A u : UpdateArcadeHour(u) \/ UpdateArcadeSNS(u) \/ UpdateArcadeGTK(u)
                \/ UpdateArcadeMemo(u) \/ UpdateArcadeGame(u) => reports' = reports
    BY Zenon DEF UpdateArcadeHour, UpdateArcadeSNS, UpdateArcadeGTK, UpdateArcadeMemo, UpdateArcadeGame, Section
  <1>12. UNCHANGED vars => reports' = reports
    BY DEF vars
  <1> QED
    BY <1>1, <1>2, <1>3, <1>4, <1>5, <1>6, <1>7, <1>8, <1>9, <1>10, <1>11, <1>12, Zenon DEF Next

LEMMA ReportsKept ==
    ASSUME Inv, [Next]_vars
    PROVE  ReportsInv'
  <1>0. ReportsInv /\ ReportsStep /\ PastKept /\ PartsInv /\ PartsInv'
    BY ReportsSteps, PartsKept DEF Inv
  <1>1. Len(log) \in Nat /\ Len(log') \in Nat /\ Len(log') >= Len(log)
    BY <1>0 DEF PastKept, PartsInv
  <1>2. /\ reports \in Seq(Reports) /\ Len(reports) \in Nat
        /\ \A i \in 1..Len(reports) : reports[i] \in Reports /\ reports[i].change <= Len(log)
    BY <1>0 DEF ReportsInv
  <1>3. \A x \in Reports : x.change \in Nat /\ (x.change <= Len(log) => x.change <= Len(log'))
    BY <1>1 DEF Reports
  <1>4. CASE reports' = reports
    BY <1>2, <1>3, <1>4 DEF ReportsInv
  <1>5. ASSUME NEW i \in 1..Len(reports), reports' = [reports EXCEPT ![i].status = "done"] PROVE ReportsInv'
    <2> DEFINE x == [reports[i] EXCEPT !.status = "done"]
    <2>1. reports' = [reports EXCEPT ![i] = x]
      BY <1>5
    <2>2. x \in Reports /\ x.change = reports[i].change
      BY <1>2 DEF Reports
    <2> HIDE DEF x
    <2>3. /\ reports' \in Seq(Reports) /\ Len(reports') = Len(reports)
          /\ \A j \in 1..Len(reports) : reports'[j] = IF j = i THEN x ELSE reports[j]
      BY <1>2, <2>1, <2>2
    <2>4. \A j \in 1..Len(reports') : reports'[j].change <= Len(log')
      BY <1>2, <1>3, <2>2, <2>3
    <2> QED
      BY <2>3, <2>4 DEF ReportsInv
  <1>6. ASSUME NEW x \in Reports, x.change <= Len(log), reports' = Append(reports, x) PROVE ReportsInv'
    <2>1. /\ reports' \in Seq(Reports) /\ Len(reports') = Len(reports) + 1
          /\ reports'[Len(reports) + 1] = x
          /\ \A j \in 1..Len(reports) : reports'[j] = reports[j]
      BY <1>2, <1>6
    <2>2. \A j \in 1..Len(reports') : reports'[j].change <= Len(log')
      <3> SUFFICES ASSUME NEW j \in 1..Len(reports') PROVE reports'[j].change <= Len(log')
        OBVIOUS
      <3>1. j \in 1..Len(reports) \/ j = Len(reports) + 1
        BY <1>2, <2>1
      <3> QED
        BY <1>2, <1>3, <1>6, <2>1, <3>1
    <2> QED
      BY <2>1, <2>2 DEF ReportsInv
  <1> QED
    BY <1>0, <1>4, <1>5, <1>6 DEF ReportsStep

-------------------------------------------------------------------------------
(* Levels                                                                  *)

(* A level is not lost by gaining experience.                              *)
LEMMA LevelsRise ==
    ASSUME NEW d \in Nat, NEW e \in Nat, d <= e
    PROVE  LevelFromExp(d) \in Nat /\ LevelFromExp(e) \in Nat /\ LevelFromExp(d) <= LevelFromExp(e)
  <1> DEFINE L(x) == {l \in 1..(x \div 3) : LevelBaseExp(l) <= x}
  <1>1. d \div 3 \in Nat /\ e \div 3 \in Nat /\ d \div 3 <= e \div 3
    OBVIOUS
  <1>2. \A l \in Nat : LevelBaseExp(l) \in Int
    <2>1. ASSUME NEW l \in Nat PROVE LevelBaseExp(l) \in Int
      <3>1. 2 * (6 * l * l + 110 * l) + 29 \in Int
        OBVIOUS
      <3> DEFINE n == 2 * (6 * l * l + 110 * l) + 29
      <3> HIDE DEF n
      <3>2. n \in Int => n \div 58 \in Int
        OBVIOUS
      <3>3. LevelBaseExp(l) = IF l <= 0 THEN 0 ELSE n \div 58
        BY Zenon DEF LevelBaseExp, n
      <3> QED
        BY <3>1, <3>2, <3>3 DEF n
    <2> QED
      BY <2>1
  <1>3. L(d) \subseteq L(e)
    BY <1>1, <1>2
  <1>4. IsFiniteSet(L(e)) /\ IsFiniteSet(L(d))
    <2>1. IsFiniteSet(1..(e \div 3)) /\ IsFiniteSet(1..(d \div 3))
      <3>1. ASSUME NEW n \in Nat PROVE IsFiniteSet(1..n)
        BY ONLY n \in Nat, FS_Interval
      <3> QED
        BY <1>1, <3>1, Zenon
    <2>2. L(e) \subseteq 1..(e \div 3) /\ L(d) \subseteq 1..(d \div 3)
      OBVIOUS
    <2> HIDE DEF L
    <2> QED
      BY <2>1, <2>2, FS_Subset
  <1>5. LevelFromExp(d) = Cardinality(L(d)) /\ LevelFromExp(e) = Cardinality(L(e))
    BY Zenon DEF LevelFromExp
  <1> HIDE DEF L
  <1>6. Cardinality(L(d)) \in Nat /\ Cardinality(L(e)) \in Nat /\ Cardinality(L(d)) <= Cardinality(L(e))
    BY <1>3, <1>4, FS_Subset, FS_CardinalityType
  <1> QED
    BY <1>5, <1>6
-------------------------------------------------------------------------------
(* Ledgers.  A ledger is fair if what RewardsBounded says holds of it.     *)

EditKind(k)  == k[1] = "edit" /\ Len(k) = 3
PhotoKind(k) == k[1] = "photo"

OncePerWindow(x) ==
    \A u \in Users, p \in AllParts : \A e, f \in EditGrants(x, u, p) :
        e = f \/ e.at - f.at >= Week \/ f.at - e.at >= Week

PhotosOnce(x) == \A e, f \in x.log : PhotoKind(e.kind) /\ PhotoKind(f.kind) /\ e.kind = f.kind => e = f

\* The grants for photos that count for user u at time t.
Album(x, u, t) == {e \in Recent(PhotoGrants(x, u), t) : e.at <= t}

PhotosCapped(x, now) == \A u \in Users, t \in 0..now : Gained(Album(x, u, t)) <= PhotoLimit(TRUE)

LEMMA RewardsBoundedIs ==
    RewardsBounded <=> OncePerWindow(xp) /\ PhotosOnce(xp) /\ PhotosCapped(xp, clock)
  <1>1. PhotosOnce(xp) <=> \A e, f \in {g \in xp.log : g.kind[1] = "photo"} : e.kind = f.kind => e = f
    BY Zenon DEF PhotosOnce, PhotoKind
  <1> HIDE DEF PhotosOnce
  <1> QED
    BY <1>1, Zenon DEF RewardsBounded, OncePerWindow, PhotosCapped, Album, Total, Gained

LEMMA RewardsBoundedNext ==
    RewardsBounded' <=> OncePerWindow(xp') /\ PhotosOnce(xp') /\ PhotosCapped(xp', clock')
  <1>1. RewardsBounded' <=> (OncePerWindow(xp) /\ PhotosOnce(xp) /\ PhotosCapped(xp, clock))'
    BY RewardsBoundedIs, PTL
  <1> QED
    BY <1>1 DEF OncePerWindow, PhotosOnce, PhotosCapped, Album, EditGrants, PhotoGrants, Recent

Fair(x, now, A) ==
    /\ Ledger(x, now) /\ OncePerWindow(x) /\ PhotosOnce(x) /\ PhotosCapped(x, now)
    /\ PhotosPaid(x, A)

\* Nobody loses experience.
Richer(x, y) == \A u \in Users : y.exp[u] \in Nat /\ y.exp[u] >= x.exp[u]

(* What is granted is a row of the log and adds to the total.              *)
LEMMA RowLedger ==
    ASSUME NEW now \in Nat, NEW x, NEW y, NEW row, Ledger(x, now), Pays(x, y, row),
           row.user \in Users, row.diff \in Nat \ {0}, row.at = now,
           row.kind[1] = "game" => IsFiniteSet(row.kind[3])
    PROVE  Ledger(y, now) /\ Richer(x, y)
  <1>1. y.exp = [x.exp EXCEPT ![row.user] = @ + row.diff] /\ y.log = x.log \cup {row}
    BY Zenon DEF Pays
  <1>2. x.exp \in [Users -> Nat] /\ IsFiniteSet(x.log)
    BY DEF Ledger
  <1>3. y.exp \in [Users -> Nat] /\ Richer(x, y)
    BY <1>1, <1>2 DEF Richer
  <1>4. IsFiniteSet(y.log)
    <2> DEFINE S == x.log
    <2>1. IsFiniteSet(S)
      BY <1>2
    <2>2. IsFiniteSet(S \cup {row})
      <3> HIDE DEF S
      <3> QED
        BY <2>1, FS_AddElement
    <2> QED
      BY <1>1, <2>2, Zenon
  <1>5. \A e \in y.log : /\ e.user \in Users /\ e.diff \in Nat \ {0} /\ e.at \in 0..now
                         /\ e.kind[1] = "game" => IsFiniteSet(e.kind[3])
    <2>1. now \in 0..now
      OBVIOUS
    <2> QED
      BY <1>1, <2>1, Zenon DEF Ledger
  <1> QED
    BY <1>3, <1>4, <1>5 DEF Ledger

LEMMA AlbumFacts ==
    ASSUME NEW now \in Nat, NEW x, Ledger(x, now), NEW u, NEW t
    PROVE  /\ Album(x, u, t) \subseteq x.log /\ Countable(Album(x, u, t))
           /\ Gained(Album(x, u, t)) \in Int
           /\ \A e \in Album(x, u, t) : e.diff >= 0
  <1>1. Album(x, u, t) \subseteq x.log
    BY DEF Album, Recent, PhotoGrants
  <1>2. Countable(Album(x, u, t))
    <2>1. IsFiniteSet(Album(x, u, t))
      BY <1>1, FS_Subset DEF Ledger
    <2> QED
      BY <1>1, <2>1 DEF Countable, Ledger
  <1>3. \A e \in Album(x, u, t) : e.diff >= 0
    <2>1. \A e \in x.log : e.diff \in Nat
      BY DEF Ledger
    <2>2. \A e \in Album(x, u, t) : e.diff \in Nat
      BY <1>1, <2>1, Zenon
    <2> QED
      BY <2>2
  <1> QED
    BY <1>1, <1>2, <1>3, GainedType

(* Rows that are not of a kind leave what is said of the kind as it is.    *)
LEMMA NoPhotoRow ==
    ASSUME NEW now \in Nat, NEW x, NEW y, NEW row, NEW A, Pays(x, y, row), ~PhotoKind(row.kind),
           PhotosOnce(x), PhotosCapped(x, now), PhotosPaid(x, A)
    PROVE  PhotosOnce(y) /\ PhotosCapped(y, now) /\ PhotosPaid(y, A)
  <1>1. y.log = x.log \cup {row}
    BY Zenon DEF Pays
  <1>2. PhotosOnce(y)
    BY <1>1 DEF PhotosOnce
  <1>3. ASSUME NEW u, NEW t PROVE Album(y, u, t) = Album(x, u, t)
    BY <1>1 DEF Album, Recent, PhotoGrants, PhotoKind
  <1>4. PhotosCapped(y, now)
    BY <1>3, Zenon DEF PhotosCapped
  <1>5. PhotosPaid(y, A)
    BY <1>1, Zenon DEF PhotosPaid, PhotoKind
  <1> QED
    BY <1>2, <1>4, <1>5

LEMMA NoEditRow ==
    ASSUME NEW x, NEW y, NEW row, Pays(x, y, row), ~EditKind(row.kind), OncePerWindow(x)
    PROVE  OncePerWindow(y)
  <1>1. y.log = x.log \cup {row}
    BY Zenon DEF Pays
  <1>2. ASSUME NEW u, NEW p PROVE EditGrants(y, u, p) \subseteq EditGrants(x, u, p)
    BY <1>1, Zenon DEF EditGrants, EditKind
  <1> QED
    BY <1>2, Zenon DEF OncePerWindow

(* A row of another kind.                                                  *)
LEMMA OtherRow ==
    ASSUME NEW now \in Nat, NEW x, NEW y, NEW row, NEW A, Fair(x, now, A), Pays(x, y, row),
           row.user \in Users, row.diff \in Nat \ {0}, row.at = now,
           row.kind[1] = "game" => IsFiniteSet(row.kind[3]),
           ~EditKind(row.kind), ~PhotoKind(row.kind)
    PROVE  Fair(y, now, A) /\ Richer(x, y)
  BY RowLedger, NoPhotoRow, NoEditRow DEF Fair

LEMMA RicherSame == ASSUME NEW now, NEW x, Ledger(x, now) PROVE Richer(x, x)
  BY DEF Ledger, Richer

(* An edit is paid when no other edit of the part was in the window.       *)
LEMMA EditPaid ==
    ASSUME NEW now \in Nat, NEW x, NEW A, Fair(x, now, A), NEW u \in Users, NEW p
    PROVE  Fair(AwardEdit(x, u, p, now), now, A) /\ Richer(x, AwardEdit(x, u, p, now))
  <1> DEFINE y    == AwardEdit(x, u, p, now)
             kind == <<"edit", p, now>>
             row  == LedgerRow(u, kind, EditExp, now)
  <1>0. Ledger(x, now)
    BY DEF Fair
  <1>1. CASE y = x
    BY <1>0, <1>1, RicherSame
  <1>2. CASE Pays(x, y, row) /\ Recent(EditGrants(x, u, p), now) = {}
    <2>1. /\ row.user = u /\ row.diff = 2 /\ row.at = now /\ row.kind = kind
          /\ kind[1] = "edit" /\ kind[2] = p /\ ~PhotoKind(kind)
      BY DEF LedgerRow, EditExp, PhotoKind
    <2> HIDE DEF y, row, kind
    <2>2. Ledger(y, now) /\ Richer(x, y)
      BY <1>0, <1>2, <2>1, RowLedger
    <2>3. PhotosOnce(y) /\ PhotosCapped(y, now) /\ PhotosPaid(y, A)
      BY <1>2, <2>1, NoPhotoRow DEF Fair
    <2>4. OncePerWindow(y)
      <3>1. y.log = x.log \cup {row}
        BY <1>2, Zenon DEF Pays
      <3> SUFFICES ASSUME NEW v \in Users, NEW q \in AllParts,
                          NEW e \in EditGrants(y, v, q), NEW f \in EditGrants(y, v, q), e # f
                   PROVE  e.at - f.at >= Week \/ f.at - e.at >= Week
        BY Zenon DEF OncePerWindow
      <3>2. ASSUME NEW g \in EditGrants(y, v, q)
            PROVE  g = row \/ g \in EditGrants(x, v, q)
        BY <3>1, Zenon DEF EditGrants
      <3>3. ASSUME row \in EditGrants(y, v, q) PROVE v = u /\ q = p
        BY <2>1, <3>3, Zenon DEF EditGrants
      <3>4. ASSUME NEW g \in EditGrants(x, u, p) PROVE now - g.at >= Week
        <4>1. ~ (g.at > now - Week)
          BY <1>2, <3>4, Zenon DEF Recent
        <4>2. g.at \in 0..now
          <5>1. g \in x.log
            BY DEF EditGrants
          <5> QED
            BY <1>0, <5>1, Zenon DEF Ledger
        <4> QED
          BY <4>1, <4>2, WindowAssumption
      <3>5. CASE e = row
        BY <2>1, <3>2, <3>3, <3>4, <3>5
      <3>6. CASE f = row
        BY <2>1, <3>2, <3>3, <3>4, <3>6
      <3>7. CASE e # row /\ f # row
        <4>1. e \in EditGrants(x, v, q) /\ f \in EditGrants(x, v, q)
          BY <3>2, <3>7
        <4> QED
          BY <4>1, Zenon DEF Fair, OncePerWindow
      <3> QED
        BY <3>5, <3>6, <3>7
    <2> QED
      BY <2>2, <2>3, <2>4 DEF Fair, y
  <1>3. y = x \/ (Pays(x, y, row) /\ Recent(EditGrants(x, u, p), now) = {})
    <2>1. Award(x, u, kind, EditExp, now) = x \/ Pays(x, Award(x, u, kind, EditExp, now), row)
      BY AwardRow, Zenon
    <2> HIDE DEF row
    <2> QED
      BY <2>1, Zenon DEF AwardEdit
  <1> QED
    BY <1>1, <1>2, <1>3, Zenon

(* What a batch of games adds for the window is a gain.                    *)
LEMMA GamePaid ==
    ASSUME NEW now \in Nat, NEW x, NEW A, Fair(x, now, A), NEW u \in Users, NEW v
    PROVE  /\ Fair(AwardGameEdit(x, u, {v}, now), now, A)
           /\ Richer(x, AwardGameEdit(x, u, {v}, now))
  <1> DEFINE G    == Recent(GameGrants(x, u), now)
             K    == {e.kind[3] : e \in G}
             seen == {v} \cup UNION K
             P    == {e \in G : e.diff > 0}
             diff == ArcadeGameEditExp(Cardinality(seen)) - Total(P)
             kind == <<"game", now, {v}>>
             row  == LedgerRow(u, kind, diff, now)
             y    == AwardGameEdit(x, u, {v}, now)
  <1>0. Ledger(x, now)
    BY DEF Fair
  <1>1. G \subseteq x.log /\ IsFiniteSet(G) /\ \A e \in G : e.kind[1] = "game"
    <2>1. G \subseteq x.log /\ \A e \in G : e.kind[1] = "game"
      BY Zenon DEF Recent, GameGrants
    <2> HIDE DEF G
    <2> QED
      BY <1>0, <2>1, FS_Subset DEF Ledger
  <1>2. Cardinality(seen) \in Nat
    <2> DEFINE g == [e \in G |-> e.kind[3]]
    <2>1. g \in Surjection(G, K)
      BY Zenon DEF Surjection
    <2>2. \A s \in K : IsFiniteSet(s)
      BY <1>0, <1>1 DEF Ledger
    <2> HIDE DEF G, g, K
    <2>3. IsFiniteSet(K)
      BY <1>1, <2>1, FS_Surjection
    <2>4. IsFiniteSet(UNION K)
      BY <2>2, <2>3, FS_UNION
    <2>5. IsFiniteSet({v}) /\ IsFiniteSet({v} \cup UNION K)
      BY <2>4, FS_Singleton, FS_Union
    <2> QED
      BY <2>5, FS_CardinalityType
  <1>3. Countable(P)
    <2>1. P \subseteq G
      OBVIOUS
    <2>2. \A e \in P : e.diff \in Int
      BY <1>0, <1>1 DEF Ledger
    <2> HIDE DEF G, P
    <2>3. IsFiniteSet(P)
      BY <1>1, <2>1, FS_Subset
    <2> QED
      BY <2>2, <2>3 DEF Countable
  <1>4. diff \in Int
    <2>1. Total(P) \in Int
      <3>1. Total(P) = Gained(P)
        BY Zenon DEF Total, Gained
      <3> HIDE DEF P
      <3> QED
        BY <1>3, <3>1, GainedType
    <2>2. ArcadeGameEditExp(Cardinality(seen)) \in Int
      <3> HIDE DEF seen
      <3> QED
        BY <1>2, WindowAssumption DEF ArcadeGameEditExp
    <2> HIDE DEF seen, P
    <2> QED
      BY <2>1, <2>2
  <1>5. y = x \/ (diff > 0 /\ Pays(x, y, row))
    <2>1. Award(x, u, kind, diff, now) = x \/ Pays(x, Award(x, u, kind, diff, now), row)
      BY AwardRow, Zenon
    <2>2. y = IF {v} = {} \/ diff <= 0 THEN x ELSE Award(x, u, kind, diff, now)
      BY Zenon DEF AwardGameEdit
    <2>3. diff <= 0 \/ diff > 0
      <3> HIDE DEF diff
      <3> QED
        BY <1>4
    <2> HIDE DEF row, diff, y, kind
    <2> QED
      BY <2>1, <2>2, <2>3
  <1>6. CASE y = x
    BY <1>0, <1>6, RicherSame
  <1>7. CASE diff > 0 /\ Pays(x, y, row)
    <2>1. /\ row.user = u /\ row.diff = diff /\ row.at = now /\ row.kind = kind
          /\ ~PhotoKind(kind) /\ ~EditKind(kind) /\ kind[3] = {v}
      BY DEF LedgerRow, PhotoKind, EditKind
    <2>2. IsFiniteSet(kind[3])
      BY <2>1, FS_Singleton
    <2>3. diff \in Nat \ {0}
      <3> HIDE DEF diff
      <3> QED
        BY <1>4, <1>7
    <2> HIDE DEF y, row, kind, diff
    <2> QED
      BY <1>7, <2>1, <2>2, <2>3, OtherRow DEF y
  <1> QED
    BY <1>5, <1>6, <1>7, Zenon

-------------------------------------------------------------------------------
(* What publication pays for the time before                               *)

Public == <<"public">>

LEMMA BackfillIs ==
    ASSUME NEW L, NEW u
    PROVE  /\ IsFiniteSet(BackfillKinds(L, u)) /\ IsFiniteSet(Dues(BackfillKinds(L, u)))
           /\ \A k \in BackfillKinds(L, u) : k[1] = "edit" /\ Len(k) = 2 /\ k # Public
  <1> DEFINE P == BackfillParts(L, u)
             B == BackfillKinds(L, u)
  <1>1. IsFiniteSet(P)
    <2>1. IsFiniteSet({"basic"}) /\ IsFiniteSet({"game"}) /\ IsFiniteSet({"hour"})
          /\ IsFiniteSet({"sns"}) /\ IsFiniteSet({"gtk"})
      BY FS_Singleton
    <2> DEFINE S == {"basic"} \cup {"game"} \cup {"hour"} \cup {"sns"} \cup {"gtk"}
    <2>2. IsFiniteSet(S)
      BY <2>1, FS_Union
    <2>3. P \subseteq S
      BY DEF BackfillParts
    <2> HIDE DEF P, S
    <2> QED
      BY <2>2, <2>3, FS_Subset
  <1>2. IsFiniteSet(B)
    <2> DEFINE f == [p \in P |-> <<"edit", p>>]
    <2>1. f \in Surjection(P, B)
      BY Zenon DEF Surjection, BackfillKinds
    <2> HIDE DEF P, B, f
    <2> QED
      BY <1>1, <2>1, FS_Surjection
  <1>3. IsFiniteSet(Dues(B))
    <2> DEFINE D == {[kind |-> k, diff |-> EditExp] : k \in B}
               d == [kind |-> <<"public">>, diff |-> PublicExp]
               f == [k \in B |-> [kind |-> k, diff |-> EditExp]]
    <2>1. f \in Surjection(B, D)
      BY Zenon DEF Surjection
    <2>2. Dues(B) = D \cup {d}
      BY Zenon DEF Dues
    <2> HIDE DEF B, D, f, d
    <2>3. IsFiniteSet(D)
      BY <1>2, <2>1, FS_Surjection
    <2>4. IsFiniteSet({d})
      BY FS_Singleton
    <2>5. IsFiniteSet(D \cup {d})
      BY <2>3, <2>4, FS_Union
    <2> QED
      BY <2>2, <2>5, Zenon
  <1>4. \A k \in B : k[1] = "edit" /\ Len(k) = 2 /\ k # Public
    BY DEF BackfillKinds, Public
  <1> QED
    BY <1>2, <1>3, <1>4

LEMMA DuesAre ==
    ASSUME NEW B, \A k \in B : k[1] = "edit" /\ Len(k) = 2 /\ k # Public, NEW k \in Dues(B)
    PROVE  /\ (k.kind \in B /\ k.diff = EditExp) \/ (k.kind = Public /\ k.diff = PublicExp)
           /\ k.diff \in Nat \ {0} /\ ~EditKind(k.kind) /\ ~PhotoKind(k.kind) /\ k.kind[1] # "game"
  <1>1. (k.kind \in B /\ k.diff = EditExp) \/ (k.kind = Public /\ k.diff = PublicExp)
    BY DEF Dues, Public
  <1>2. k.diff \in Nat \ {0}
    BY <1>1 DEF EditExp, PublicExp
  <1>3. ~EditKind(k.kind) /\ ~PhotoKind(k.kind) /\ k.kind[1] # "game"
    <2>1. CASE k.kind \in B
      <3>1. k.kind[1] = "edit" /\ Len(k.kind) = 2
        BY <2>1
      <3> QED
        BY <3>1 DEF EditKind, PhotoKind
    <2>2. CASE k.kind = Public
      BY <2>2 DEF EditKind, PhotoKind, Public
    <2> QED
      BY <1>1, <2>1, <2>2
  <1> QED
    BY <1>1, <1>2, <1>3

\* What user u has in y and had not in x, and what that has brought.
NewKinds(x, y, u, B) == {k \in B : Has(y, u, k) /\ ~Has(x, u, k)}

NewPublic(x, y, u) == IF Has(y, u, Public) /\ ~Has(x, u, Public) THEN PublicExp ELSE 0

Accounted(x, y, u, B) ==
    /\ \A kind : Has(x, u, kind) => Has(y, u, kind)
    /\ y.exp[u] = x.exp[u] + NewPublic(x, y, u) + EditExp * Cardinality(NewKinds(x, y, u, B))

LEMMA NothingNew ==
    ASSUME NEW now, NEW x, Ledger(x, now), NEW u \in Users, NEW B
    PROVE  Accounted(x, x, u, B)
  <1>1. NewKinds(x, x, u, B) = {} /\ NewPublic(x, x, u) = 0
    BY DEF NewKinds, NewPublic
  <1>2. x.exp[u] \in Nat
    BY DEF Ledger
  <1> QED
    BY <1>1, <1>2, FS_EmptySet DEF Accounted, EditExp

LEMMA OneMoreKind ==
    ASSUME NEW x, NEW y, NEW z, NEW u, NEW B, IsFiniteSet(B), Public \notin B, NEW k,
           (k.kind \in B /\ k.diff = EditExp) \/ (k.kind = Public /\ k.diff = PublicExp),
           NEW row, row.user = u, row.kind = k.kind, row.diff = k.diff,
           ~Has(y, u, k.kind), Pays(y, z, row), Accounted(x, y, u, B),
           x.exp[u] \in Nat, y.exp \in [Users -> Nat], u \in Users
    PROVE  Accounted(x, z, u, B)
  <1>1. z.log = y.log \cup {row} /\ z.exp[u] = y.exp[u] + k.diff
    BY DEF Pays
  <1>2. \A kind : Has(z, u, kind) <=> Has(y, u, kind) \/ kind = k.kind
    BY <1>1 DEF Has
  <1>3. \A kind : Has(x, u, kind) => Has(y, u, kind)
    BY DEF Accounted
  <1>4. ~Has(x, u, k.kind)
    BY <1>3
  <1> DEFINE M == NewKinds(x, y, u, B)
             N == NewKinds(x, z, u, B)
  <1>5. y.exp[u] = x.exp[u] + NewPublic(x, y, u) + EditExp * Cardinality(M)
    BY DEF Accounted
  <1>6. IsFiniteSet(M) /\ Cardinality(M) \in Nat
    <2>1. M \subseteq B
      BY DEF NewKinds
    <2> HIDE DEF M
    <2> QED
      BY <2>1, FS_Subset, FS_CardinalityType
  <1>7. CASE k.kind \in B /\ k.diff = EditExp
    <2>1. N = M \cup {k.kind} /\ k.kind \notin M
      BY <1>2, <1>4, <1>7, Zenon DEF NewKinds
    <2>2. Cardinality(N) = Cardinality(M) + 1
      <3> DEFINE c == k.kind
      <3> HIDE DEF M, N, c
      <3>1. N = M \cup {c} /\ c \notin M
        BY <2>1 DEF c
      <3> QED
        BY <1>6, <3>1, FS_AddElement
    <2>3. NewPublic(x, z, u) = NewPublic(x, y, u) /\ NewPublic(x, y, u) \in Nat
      <3>1. k.kind # Public
        BY <1>7
      <3>2. Has(z, u, Public) <=> Has(y, u, Public)
        BY <1>2, <3>1
      <3> QED
        BY <3>2 DEF NewPublic, PublicExp
    <2> HIDE DEF M, N
    <2>4. z.exp[u] = x.exp[u] + NewPublic(x, z, u) + EditExp * Cardinality(N)
      BY <1>1, <1>5, <1>6, <1>7, <2>2, <2>3 DEF EditExp
    <2> QED
      BY <1>2, <1>3, <2>4 DEF Accounted, N
  <1>8. CASE k.kind = Public /\ k.diff = PublicExp
    <2>1. N = M
      BY <1>2, <1>8 DEF NewKinds
    <2>2. NewPublic(x, z, u) = PublicExp /\ NewPublic(x, y, u) = 0
      BY <1>2, <1>4, <1>8 DEF NewPublic
    <2> HIDE DEF M, N
    <2>3. z.exp[u] = x.exp[u] + NewPublic(x, z, u) + EditExp * Cardinality(N)
      BY <1>1, <1>5, <1>6, <1>8, <2>1, <2>2 DEF EditExp, PublicExp
    <2> QED
      BY <1>2, <1>3, <2>3 DEF Accounted, N
  <1> QED
    BY <1>7, <1>8

(* Publication pays each kind that is owed and nothing twice: what the     *)
(* preview announces.                                                      *)
LEMMA PublicationPaid ==
    ASSUME NEW now \in Nat, NEW x, NEW A, Fair(x, now, A), NEW u \in Users, NEW L
    PROVE  /\ Fair(AwardPublication(x, u, L, now), now, A)
           /\ Richer(x, AwardPublication(x, u, L, now))
           /\ AwardPublication(x, u, L, now).exp[u] = x.exp[u] + PreviewPublication(x, u, L)
  <1> DEFINE B    == BackfillKinds(L, u)
             K    == Dues(B)
             Row(k) == LedgerRow(u, k.kind, k.diff, now)
             All  == {x} \cup [exp : [Users -> Nat], log : SUBSET (x.log \cup {Row(k) : k \in K})]
             P(y) == Fair(y, now, A) /\ Richer(x, y) /\ Accounted(x, y, u, B)
             Good == {y \in All : P(y)}
             z    == AwardPublication(x, u, L, now)
  <1>1. z = InTurn(x, K, u, now)
    BY Zenon DEF AwardPublication, InTurn, Paid
  <1>2. IsFiniteSet(B) /\ IsFiniteSet(K) /\ \A k \in B : k[1] = "edit" /\ Len(k) = 2 /\ k # Public
    BY BackfillIs, Zenon
  <1>3. Ledger(x, now) /\ x.exp[u] \in Nat
    BY DEF Fair, Ledger
  <1>4. x \in Good
    <2>1. P(x)
      BY <1>3, RicherSame, NothingNew
    <2> QED
      BY <2>1, Zenon
  <1>5. ASSUME NEW y \in Good, NEW k \in K PROVE Paid(y, k, u, now) \in Good
    <2> DEFINE w   == Paid(y, k, u, now)
               row == Row(k)
    <2>1. y \in All /\ Fair(y, now, A) /\ Richer(x, y) /\ Accounted(x, y, u, B)
      BY <1>5, Zenon
    <2>2. /\ (k.kind \in B /\ k.diff = EditExp) \/ (k.kind = Public /\ k.diff = PublicExp)
          /\ k.diff \in Nat \ {0} /\ ~EditKind(k.kind) /\ ~PhotoKind(k.kind) /\ k.kind[1] # "game"
      BY <1>2, <1>5, DuesAre, Zenon
    <2>3. row.user = u /\ row.kind = k.kind /\ row.diff = k.diff /\ row.at = now
      BY DEF LedgerRow
    <2>4. w = y \/ (~Has(y, u, k.kind) /\ Pays(y, w, row))
      BY AwardRow, Zenon DEF Paid
    <2>5. CASE w = y
      BY <1>5, <2>5, Zenon
    <2>6. CASE ~Has(y, u, k.kind) /\ Pays(y, w, row)
      <3>1. Fair(w, now, A) /\ Richer(y, w)
        <4> HIDE DEF w, row
        <4> QED
          BY <2>1, <2>2, <2>3, <2>6, OtherRow
      <3>2. Richer(x, w)
        <4>1. ASSUME NEW v \in Users PROVE w.exp[v] \in Nat /\ w.exp[v] >= x.exp[v]
          <5>1. w.exp[v] \in Nat /\ w.exp[v] >= y.exp[v] /\ y.exp[v] \in Nat /\ y.exp[v] >= x.exp[v]
            BY <2>1, <3>1, Zenon DEF Richer
          <5>2. x.exp[v] \in Nat
            BY <1>3 DEF Ledger
          <5> QED
            BY ONLY <5>1, <5>2
        <4> QED
          BY <4>1, Zenon DEF Richer
      <3>3. Accounted(x, w, u, B)
        <4>1. y.exp \in [Users -> Nat]
          BY <2>1 DEF Fair, Ledger
        <4>2. Public \notin B
          BY <1>2, Zenon
        <4> HIDE DEF w, row, B
        <4> QED
          BY <1>2, <1>3, <2>1, <2>2, <2>3, <2>6, <4>1, <4>2, OneMoreKind
      <3>4. w \in All
        <4>1. w = [exp |-> w.exp, log |-> w.log]
          <5>1. w # y
            BY <2>6, Zenon DEF Pays
          <5>2. w = [exp |-> [y.exp EXCEPT ![u] = @ + k.diff],
                     log |-> y.log \cup {[user |-> u, kind |-> k.kind, diff |-> k.diff, at |-> now]}]
            BY <5>1, Zenon DEF Paid, Award
          <5> HIDE DEF w
          <5> QED
            BY <5>2
        <4>2. w.exp \in [Users -> Nat]
          BY <3>1 DEF Fair, Ledger
        <4>3. w.log \subseteq x.log \cup {Row(j) : j \in K}
          <5>1. w.log = y.log \cup {row}
            BY <2>6, Zenon DEF Pays
          <5>2. y.log \subseteq x.log \cup {Row(j) : j \in K}
            <6> HIDE DEF Row, K
            <6> QED
              BY <2>1
          <5>3. row \in {Row(j) : j \in K}
            BY <1>5, Zenon
          <5> HIDE DEF w, row, Row, K
          <5> QED
            BY <5>1, <5>2, <5>3
        <4> HIDE DEF w, Row, K
        <4> QED
          BY <4>1, <4>2, <4>3, Zenon
      <3> QED
        BY <3>1, <3>2, <3>3, <3>4, Zenon
    <2> QED
      BY <2>4, <2>5, <2>6, Zenon
  <1>6. z \in Good
    <2> HIDE DEF Good, z, K
    <2> QED
      BY <1>1, <1>2, <1>4, <1>5, AwardsStay
  <1>7. Fair(z, now, A) /\ Richer(x, z) /\ Accounted(x, z, u, B)
    BY <1>6, Zenon
  <1>8. z.exp[u] = x.exp[u] + PreviewPublication(x, u, L)
    <2>1. CASE u \notin Named
      <3>1. \A y \in {x}, k \in K : Paid(y, k, u, now) \in {x}
        BY <2>1 DEF Paid, Award
      <3>2. z \in {x}
        <4> HIDE DEF z, K
        <4>1. x \in {x}
          OBVIOUS
        <4> QED
          BY <1>1, <1>2, <3>1, <4>1, AwardsStay
      <3>3. PreviewPublication(x, u, L) = 0
        BY <2>1, Zenon DEF PreviewPublication
      <3> HIDE DEF z
      <3> QED
        BY <1>3, <3>2, <3>3
    <2>2. CASE u \in Named
      <3>1. \A k \in K : k.diff # 0
        BY <1>2, DuesAre
      <3>2. \A k \in K : Has(z, u, k.kind)
        <4> HIDE DEF z, K
        <4> QED
          BY <1>1, <1>2, <2>2, <3>1, AwardsReach
      <3>3. \A k \in B : Has(z, u, k)
        <4> SUFFICES ASSUME NEW k \in B PROVE Has(z, u, k)
          OBVIOUS
        <4> DEFINE d == [kind |-> k, diff |-> EditExp]
        <4>1. d \in K
          BY Zenon DEF Dues
        <4>2. d.kind = k
          OBVIOUS
        <4> HIDE DEF d, z, K
        <4> QED
          BY <3>2, <4>1, <4>2
      <3>4. Has(z, u, Public)
        <4> DEFINE d == [kind |-> <<"public">>, diff |-> PublicExp]
        <4>1. d \in K
          BY Zenon DEF Dues
        <4>2. d.kind = Public
          BY DEF Public
        <4> HIDE DEF d, z, K
        <4> QED
          BY <3>2, <4>1, <4>2
      <3>5. NewKinds(x, z, u, B) = {k \in B : ~Has(x, u, k)}
        BY <3>3, Zenon DEF NewKinds
      <3>6. NewPublic(x, z, u) = IF Has(x, u, <<"public">>) THEN 0 ELSE PublicExp
        BY <3>4, Zenon DEF NewPublic, Public
      <3>7. z.exp[u] = x.exp[u] + (IF Has(x, u, <<"public">>) THEN 0 ELSE PublicExp)
                         + EditExp * Cardinality({k \in B : ~Has(x, u, k)})
        BY <1>7, <3>5, <3>6, Zenon DEF Accounted
      <3> DEFINE M == {k \in B : ~Has(x, u, k)}
                 p == IF Has(x, u, <<"public">>) THEN 0 ELSE PublicExp
      <3>8. PreviewPublication(x, u, L) = p + EditExp * Cardinality(M)
        BY <2>2, Zenon DEF PreviewPublication
      <3>9. p \in Nat
        BY DEF PublicExp
      <3>10. Cardinality(M) \in Nat
        <4>1. M \subseteq B
          OBVIOUS
        <4> HIDE DEF M, B
        <4> QED
          BY <1>2, <4>1, FS_Subset, FS_CardinalityType
      <3>11. z.exp[u] = x.exp[u] + p + EditExp * Cardinality(M)
        BY <3>7
      <3> HIDE DEF z, M, p
      <3> QED
        BY <1>3, <3>8, <3>9, <3>10, <3>11 DEF EditExp
    <2> QED
      BY <2>1, <2>2
  <1> QED
    BY <1>7, <1>8

-------------------------------------------------------------------------------
(* Photos are paid one after the other, the lowest number first.  The      *)
(* outcome is again a function by recursion over subsets.                  *)

GrantPhoto(u, each, now, id, acc) ==
    LET diff == Min({each, acc.left}) IN
    IF diff = 0 \/ Has(acc.x, u, <<"photo", id>>) THEN acc
    ELSE [x |-> Award(acc.x, u, <<"photo", id>>, diff, now), left |-> acc.left - diff]

PhotosInTurn(b, u, each, now, S) ==
    MapThenFoldSet(LAMBDA id, acc : GrantPhoto(u, each, now, id, acc), b, LAMBDA id : id, Max, S)

PhotoStep(b, u, each, now, g, s) ==
    IF s = {} THEN b ELSE GrantPhoto(u, each, now, Max(s), g[s \ {Max(s)}])

\* g has what is granted and left after each set of photos.
Grants(b, u, each, now, g, S) == g = [s \in SUBSET S |-> PhotoStep(b, u, each, now, g, s)]

LEMMA OneMorePhoto ==
    ASSUME NEW S, NEW b, NEW u, NEW each, NEW now, NEW g, Grants(b, u, each, now, g, S),
           NEW s \in SUBSET S, IsFiniteSet(s), s \subseteq Int, s # {}
    PROVE  /\ Max(s) \in s /\ s \ {Max(s)} \in SUBSET S
           /\ g[s] = GrantPhoto(u, each, now, Max(s), g[s \ {Max(s)}])
  <1>1. g[s] = PhotoStep(b, u, each, now, g, s)
    <2> HIDE DEF PhotoStep
    <2> QED
      BY DEF Grants
  <1>2. Max(s) \in s
    BY Extremes
  <1> HIDE DEF Max, GrantPhoto
  <1> QED
    BY <1>1, <1>2 DEF PhotoStep

LEMMA NoPhotos ==
    ASSUME NEW S, NEW b, NEW u, NEW each, NEW now, NEW g, Grants(b, u, each, now, g, S)
    PROVE  g[{}] = b
  <1>1. g[{}] = PhotoStep(b, u, each, now, g, {})
    BY DEF Grants
  <1>2. PhotoStep(b, u, each, now, g, {}) = b
    BY DEF PhotoStep
  <1> QED
    BY <1>1, <1>2

LEMMA GrantsAgree ==
    ASSUME NEW S, NEW T, NEW b, NEW u, NEW each, NEW now, NEW g, NEW h,
           Grants(b, u, each, now, g, S), Grants(b, u, each, now, h, T),
           NEW s, s \subseteq S, s \subseteq T, IsFiniteSet(s), s \subseteq Int
    PROVE  g[s] = h[s]
  <1> DEFINE F == {r \in SUBSET s : g[r] # h[r]}
  <1> SUFFICES ASSUME F # {} PROVE FALSE
    BY DEF F
  <1>0. F \subseteq SUBSET s
    OBVIOUS
  <1>1. PICK r \in F : \A v \in F : v \subseteq r => v = r
    <2> HIDE DEF F
    <2> QED
      BY <1>0, SmallestSet
  <1>2. r \in SUBSET S /\ r \in SUBSET T /\ g[r] # h[r] /\ r \in SUBSET s /\ r \subseteq Int
    BY <1>1
  <1>3. r # {}
    <2>1. g[{}] = b /\ h[{}] = b
      BY NoPhotos
    <2> QED
      BY <1>2, <2>1
  <1>4. IsFiniteSet(r)
    BY <1>2, FS_Subset
  <1>5. /\ Max(r) \in r
        /\ g[r] = GrantPhoto(u, each, now, Max(r), g[r \ {Max(r)}])
        /\ h[r] = GrantPhoto(u, each, now, Max(r), h[r \ {Max(r)}])
    <2> HIDE DEF F
    <2>1. IsFiniteSet(r) /\ r \subseteq Int /\ r # {} /\ r \in SUBSET S /\ r \in SUBSET T
      BY <1>2, <1>3, <1>4
    <2>2. Max(r) \in r
      BY <2>1, Extremes
    <2>3. g[r] = GrantPhoto(u, each, now, Max(r), g[r \ {Max(r)}])
      BY <2>1, OneMorePhoto
    <2>4. h[r] = GrantPhoto(u, each, now, Max(r), h[r \ {Max(r)}])
      BY <2>1, OneMorePhoto
    <2> QED
      BY <2>2, <2>3, <2>4
  <1>6. g[r \ {Max(r)}] = h[r \ {Max(r)}]
    <2> HIDE DEF Max
    <2> QED
      BY <1>1, <1>5
  <1> QED
    BY <1>2, <1>5, <1>6

LEMMA GrantsExist ==
    ASSUME NEW S, IsFiniteSet(S), S \subseteq Int, NEW b, NEW u, NEW each, NEW now
    PROVE  \E g : Grants(b, u, each, now, g, S)
  <1> DEFINE F == {T \in SUBSET S : ~ \E g : Grants(b, u, each, now, g, T)}
  <1> SUFFICES ASSUME F # {} PROVE FALSE
    <2>1. S \in SUBSET S
      OBVIOUS
    <2> QED
      BY <2>1
  <1>0. F \subseteq SUBSET S
    OBVIOUS
  <1>1. PICK T \in F : \A U \in F : U \subseteq T => U = T
    <2> HIDE DEF F
    <2> QED
      BY <1>0, SmallestSet
  <1> DEFINE G(U) == CHOOSE g : Grants(b, u, each, now, g, U)
             V(U) == U \ {Max(U)}
             L(U) == IF U = {} THEN b ELSE GrantPhoto(u, each, now, Max(U), G(V(U))[V(U)])
             h    == [U \in SUBSET T |-> L(U)]
  <1>2. ASSUME NEW U \in SUBSET T, U # T PROVE Grants(b, u, each, now, G(U), U)
    <2>1. U \in SUBSET S
      BY <1>1
    <2>2. U \notin F
      BY <1>1, <1>2
    <2>3. \E g : Grants(b, u, each, now, g, U)
      BY <2>1, <2>2
    <2> QED
      BY <2>3, Zenon
  <1>3. ASSUME NEW U \in SUBSET T, U # {}
        PROVE  IsFiniteSet(U) /\ U \subseteq Int /\ Max(U) \in U /\ V(U) \in SUBSET U /\ V(U) # U
    <2>1. U \in SUBSET S /\ U \subseteq Int
      BY <1>1
    <2>2. IsFiniteSet(U)
      BY <2>1, FS_Subset
    <2>3. Max(U) \in U
      BY <1>3, <2>1, <2>2, Extremes
    <2> HIDE DEF Max
    <2> QED
      BY <2>1, <2>2, <2>3
  <1>4. ASSUME NEW U \in SUBSET T, U # {} PROVE h[V(U)] = G(V(U))[V(U)]
    <2> DEFINE W == V(U)
    <2>2. W \in SUBSET T /\ W # T
      <3>1. V(U) \in SUBSET U /\ V(U) # U
        BY <1>3, <1>4, Zenon
      <3> HIDE DEF V
      <3> QED
        BY <3>1
    <2> HIDE DEF W
    <2>3. Grants(b, u, each, now, G(W), W)
      BY <1>2, <2>2
    <2>4. h[W] = L(W)
      <3> HIDE DEF L
      <3> QED
        BY <2>2
    <2>5. CASE W = {}
      <3>1. G(W)[{}] = b
        <4> HIDE DEF G
        <4> QED
          BY <2>3, NoPhotos
      <3> QED
        BY <2>4, <2>5, <3>1 DEF W
    <2>6. CASE W # {}
      <3> DEFINE X == V(W)
      <3>1. IsFiniteSet(W) /\ W \subseteq Int /\ X \in SUBSET W /\ X # W
        BY <1>3, <2>2, <2>6, Zenon
      <3>2. X \in SUBSET T /\ X # T /\ IsFiniteSet(X) /\ X \subseteq Int
        <4> HIDE DEF X
        <4> QED
          BY <3>1, <2>2, FS_Subset
      <3>3. G(W)[W] = GrantPhoto(u, each, now, Max(W), G(W)[X])
        <4> HIDE DEF G
        <4>1. W \in SUBSET W
          OBVIOUS
        <4> QED
          BY <2>3, <2>6, <3>1, <4>1, OneMorePhoto
      <3>4. L(W) = GrantPhoto(u, each, now, Max(W), G(X)[X])
        BY <2>6, Zenon
      <3> HIDE DEF X
      <3>5. Grants(b, u, each, now, G(X), X)
        BY <1>2, <3>2
      <3>6. G(W)[X] = G(X)[X]
        <4> HIDE DEF G
        <4> QED
          BY <2>3, <3>1, <3>2, <3>5, GrantsAgree
      <3> QED
        BY <2>4, <3>3, <3>4, <3>6 DEF W
    <2> QED
      BY <2>5, <2>6
  <1>5. \A U \in SUBSET T : L(U) = PhotoStep(b, u, each, now, h, U)
    <2> SUFFICES ASSUME NEW U \in SUBSET T PROVE L(U) = PhotoStep(b, u, each, now, h, U)
      OBVIOUS
    <2> HIDE DEF h, G, Max, GrantPhoto
    <2> QED
      BY <1>4 DEF PhotoStep
  <1>6. Grants(b, u, each, now, h, T)
    <2> DEFINE R(U) == PhotoStep(b, u, each, now, h, U)
    <2>1. \A U \in SUBSET T : L(U) = R(U)
      BY <1>5
    <2>2. h = [U \in SUBSET T |-> L(U)]
      BY Zenon
    <2> HIDE DEF L, R
    <2>3. h = [U \in SUBSET T |-> R(U)]
      BY <2>1, <2>2
    <2> HIDE DEF h
    <2> QED
      BY <2>3, Zenon DEF R, Grants
  <1> QED
    BY <1>1, <1>6

(* Granting in turn does not leave a set that each single grant stays in.  *)
LEMMA GrantsStay ==
    ASSUME NEW S, IsFiniteSet(S), S \subseteq Int, NEW u, NEW each, NEW now, NEW Good, NEW b \in Good,
           \A acc \in Good, id \in S : GrantPhoto(u, each, now, id, acc) \in Good
    PROVE  PhotosInTurn(b, u, each, now, S) \in Good
  <1> DEFINE g == CHOOSE g : Grants(b, u, each, now, g, S)
  <1>1. Grants(b, u, each, now, g, S)
    BY GrantsExist, Zenon
  <1>2. PhotosInTurn(b, u, each, now, S) = g[S]
    BY Zenon DEF PhotosInTurn, MapThenFoldSet, Grants, PhotoStep
  <1> HIDE DEF g
  <1> DEFINE F == {T \in SUBSET S : g[T] \notin Good}
  <1> SUFFICES ASSUME F # {} PROVE FALSE
    <2>1. S \in SUBSET S
      OBVIOUS
    <2> QED
      BY <1>2, <2>1
  <1>3. F \subseteq SUBSET S
    OBVIOUS
  <1>4. PICK T \in F : \A U \in F : U \subseteq T => U = T
    <2> HIDE DEF F
    <2> QED
      BY <1>3, SmallestSet
  <1>5. T \in SUBSET S /\ g[T] \notin Good /\ T \subseteq Int
    BY <1>4
  <1>6. T # {}
    <2>1. g[{}] = b
      BY <1>1, NoPhotos
    <2> QED
      BY <1>5, <2>1
  <1>7. IsFiniteSet(T)
    BY <1>5, FS_Subset
  <1>8. /\ Max(T) \in T /\ T \ {Max(T)} \in SUBSET S
        /\ g[T] = GrantPhoto(u, each, now, Max(T), g[T \ {Max(T)}])
    BY <1>1, <1>5, <1>6, <1>7, OneMorePhoto
  <1>9. g[T \ {Max(T)}] \in Good
    <2> HIDE DEF Max
    <2> QED
      BY <1>4, <1>8
  <1> HIDE DEF Max, GrantPhoto
  <1> QED
    BY <1>5, <1>8, <1>9

(* A photo that was not granted, within what is left of the cap.           *)
LEMMA PhotoRow ==
    ASSUME NEW now \in Nat, NEW B, NEW u \in Users, NEW id \in Atoms, B[id] = "public",
           NEW d \in Nat \ {0}, NEW y, NEW z, NEW row,
           row.user = u, row.kind = <<"photo", id>>, row.diff = d, row.at = now,
           Fair(y, now, B), Pays(y, z, row), \A e \in y.log : e.kind # <<"photo", id>>,
           Gained(Album(y, u, now)) + d <= PhotoLimit(TRUE)
    PROVE  /\ Fair(z, now, B) /\ Richer(y, z)
           /\ Gained(Album(z, u, now)) <= Gained(Album(y, u, now)) + d
  <1> DEFINE kind == <<"photo", id>>
  <1>0. kind[1] = "photo" /\ kind[2] = id /\ ~EditKind(kind)
    BY DEF EditKind
  <1> HIDE DEF kind
  <1>1. z.log = y.log \cup {row} /\ row \notin y.log /\ row.kind = kind
    BY Zenon DEF Pays, kind
  <1>2. Ledger(z, now) /\ Richer(y, z)
    BY <1>0, <1>1, RowLedger DEF Fair
  <1>3. OncePerWindow(z)
    BY <1>0, <1>1, NoEditRow, Zenon DEF Fair
  <1>4. PhotosOnce(z)
    BY <1>1, Zenon DEF Fair, PhotosOnce, kind
  <1>5. PhotosPaid(z, B)
    BY <1>0, <1>1, Zenon DEF Fair, PhotosPaid
  <1>6. /\ Gained(Album(z, u, now)) <= Gained(Album(y, u, now)) + d
        /\ Gained(Album(y, u, now)) \in Int
    <2> DEFINE E == Album(y, u, now)
               D == Album(z, u, now)
    <2>1. E \subseteq y.log /\ Countable(E) /\ Gained(E) \in Int
      BY AlbumFacts DEF Fair
    <2>2. D = E \/ D = E \cup {row}
      BY <1>1 DEF Album, Recent, PhotoGrants
    <2> HIDE DEF E, D
    <2>3. row \notin E /\ row.diff \in Int
      BY <1>1, <2>1
    <2>4. Gained(E \cup {row}) = Gained(E) + row.diff
      BY ONLY <2>1, <2>3, GainedWith
    <2>5. Gained(D) = Gained(E) \/ Gained(D) = Gained(E) + d
      BY <2>2, <2>4, Zenon
    <2>6. Gained(D) <= Gained(E) + d
      BY ONLY <2>1, <2>5, d \in Nat \ {0}
    <2> QED
      BY <2>1, <2>6, Zenon DEF E, D
  <1>7. PhotosCapped(z, now)
    <2> SUFFICES ASSUME NEW v \in Users, NEW t \in 0..now
                 PROVE  Gained(Album(z, v, t)) <= PhotoLimit(TRUE)
      BY Zenon DEF PhotosCapped
    <2> DEFINE cap == PhotoLimit(TRUE)
    <2>1. cap \in Nat /\ Gained(Album(y, u, now)) + d <= cap
      BY PhotoCapAssumption DEF PhotoLimit
    <2>2. CASE v = u /\ t = now
      <3>1. Gained(Album(z, u, now)) \in Int
        BY <1>2, AlbumFacts
      <3>2. Gained(Album(z, u, now)) <= cap
        <4> HIDE DEF cap
        <4> QED
          BY ONLY <1>6, <2>1, <3>1, d \in Nat \ {0}
      <3> QED
        BY <2>2, <3>2, Zenon
    <2>3. CASE v # u \/ t # now
      <3>1. Album(z, v, t) = Album(y, v, t)
        <4>1. ~(row.user = v /\ row.at <= t)
          BY <2>3
        <4> QED
          BY <1>1, <4>1, Zenon DEF Album, Recent, PhotoGrants
      <3> QED
        BY <3>1, Zenon DEF Fair, PhotosCapped
    <2> QED
      BY <2>2, <2>3
  <1> QED
    BY <1>2, <1>3, <1>4, <1>5, <1>6, <1>7 DEF Fair

\* What holds while photos are granted: those that x had not are of user u.
Granted(x, acc, u, now, B) ==
    /\ Fair(acc.x, now, B) /\ Richer(x, acc.x)
    /\ acc.left \in Nat /\ Gained(Album(acc.x, u, now)) + acc.left <= PhotoLimit(TRUE)
    /\ \A e \in acc.x.log : PhotoKind(e.kind) => e \in x.log \/ e.user = u

LEMMA PhotoGranted ==
    ASSUME NEW now \in Nat, NEW A, NEW B, NEW u \in Users, NEW id \in Atoms,
           A[id] = "pending", B[id] = "public", NEW each \in Nat, NEW x, Ledger(x, now), PhotosPaid(x, A),
           NEW acc, Granted(x, acc, u, now, B)
    PROVE  Granted(x, GrantPhoto(u, each, now, id, acc), u, now, B)
  <1> DEFINE d    == Min({each, acc.left})
             kind == <<"photo", id>>
             new  == GrantPhoto(u, each, now, id, acc)
             y    == acc.x
             z    == Award(y, u, kind, d, now)
             row  == LedgerRow(u, kind, d, now)
  <1>1. d \in Nat /\ d <= acc.left /\ acc.left \in Nat
    <2>1. acc.left \in Nat
      BY DEF Granted
    <2>2. Min({each, acc.left}) = IF each <= acc.left THEN each ELSE acc.left
      BY <2>1, Pairs
    <2> QED
      BY <2>1, <2>2
  <1>2. kind[1] = "photo" /\ kind[2] = id
    OBVIOUS
  <1>3. row.user = u /\ row.kind = kind /\ row.diff = d /\ row.at = now
    BY DEF LedgerRow
  <1>4. \/ new = acc
        \/ d # 0 /\ ~Has(y, u, kind) /\ new = [x |-> z, left |-> acc.left - d]
    BY Zenon DEF GrantPhoto
  <1> HIDE DEF d, kind, row
  <1>5. z = y \/ Pays(y, z, row)
    BY AwardRow, Zenon DEF row
  <1> DEFINE m   == Gained(Album(y, u, now))
             cap == PhotoLimit(TRUE)
  <1>6. m \in Int /\ m + acc.left <= cap
    <2>1. Fair(y, now, B) /\ m + acc.left <= cap
      BY Zenon DEF Granted
    <2> QED
      BY <2>1, AlbumFacts DEF Fair
  <1>7. cap \in Nat
    BY PhotoCapAssumption DEF PhotoLimit
  <1>8. CASE d # 0 /\ ~Has(y, u, kind) /\ new = [x |-> z, left |-> acc.left - d]
    <2> HIDE DEF z, new
    <2>1. new.x = z /\ new.left = acc.left - d /\ new.left \in Nat
      BY <1>1, <1>8
    <2>2. CASE z = y
      <3>1. m + (acc.left - d) <= cap
        <4> HIDE DEF m, cap
        <4> QED
          BY ONLY <1>1, <1>6, <1>7
      <3>2. Gained(Album(new.x, u, now)) + new.left <= PhotoLimit(TRUE)
        BY <2>1, <2>2, <3>1, Zenon
      <3>3. Granted(x, new, u, now, B)
        BY <2>1, <2>2, <3>2, Zenon DEF Granted
      <3> QED
        BY <3>3, Zenon DEF new
    <2>3. CASE Pays(y, z, row)
      <3>1. \A e \in y.log : e.kind # kind
        <4> SUFFICES ASSUME NEW e \in y.log, e.kind = kind PROVE FALSE
          OBVIOUS
        <4>1. PhotoKind(e.kind)
          BY <1>2 DEF PhotoKind
        <4>2. CASE e \in x.log
          <5>1. A[id] = "public"
            BY <1>2, <4>2 DEF PhotosPaid
          <5> QED
            BY <5>1
        <4>3. CASE e.user = u
          BY <1>8, <4>3 DEF Has
        <4> QED
          BY <4>1, <4>2, <4>3 DEF Granted
      <3>2. d \in Nat \ {0} /\ m + d <= cap
        <4> HIDE DEF m, cap
        <4>1. d # 0
          BY <1>8
        <4> QED
          BY ONLY <1>1, <1>6, <1>7, <4>1
      <3>3. /\ Fair(z, now, B) /\ Richer(y, z)
            /\ Gained(Album(z, u, now)) <= Gained(Album(y, u, now)) + d
        <4>1. Fair(y, now, B) /\ row.kind = <<"photo", id>> /\ \A e \in y.log : e.kind # <<"photo", id>>
          BY <1>3, <3>1, Zenon DEF Granted, kind
        <4>2. Gained(Album(y, u, now)) + d <= PhotoLimit(TRUE) /\ d \in Nat \ {0}
          BY <3>2
        <4>3. row.user = u /\ row.diff = d /\ row.at = now
          BY <1>3
        <4> HIDE DEF y, m
        <4> QED
          BY ONLY <2>3, <4>1, <4>2, <4>3, PhotoRow, now \in Nat, u \in Users, id \in Atoms, B[id] = "public"
      <3>4. Richer(x, z)
        <4>1. ASSUME NEW v \in Users PROVE z.exp[v] \in Nat /\ z.exp[v] >= x.exp[v]
          <5>1. z.exp[v] \in Nat /\ z.exp[v] >= y.exp[v] /\ y.exp[v] \in Nat /\ y.exp[v] >= x.exp[v]
            BY <3>3, Zenon DEF Richer, Granted
          <5>2. x.exp[v] \in Nat
            BY DEF Ledger
          <5> QED
            BY ONLY <5>1, <5>2
        <4> QED
          BY <4>1, Zenon DEF Richer
      <3>5. Gained(Album(z, u, now)) + (acc.left - d) <= cap
        <4>1. Gained(Album(z, u, now)) \in Int
          BY <3>3, AlbumFacts DEF Fair
        <4>2. Gained(Album(z, u, now)) <= m + d
          BY <3>3
        <4> HIDE DEF m, cap
        <4> QED
          BY ONLY <1>1, <1>6, <1>7, <4>1, <4>2
      <3>6. \A e \in z.log : PhotoKind(e.kind) => e \in x.log \/ e.user = u
        <4>1. z.log = y.log \cup {row}
          BY <2>3, Zenon DEF Pays
        <4> QED
          BY <1>3, <4>1, Zenon DEF Granted
      <3>7. Gained(Album(new.x, u, now)) + new.left <= PhotoLimit(TRUE)
        BY <2>1, <3>5, Zenon
      <3>8. Granted(x, new, u, now, B)
        BY <2>1, <3>3, <3>4, <3>6, <3>7, Zenon DEF Granted
      <3> QED
        BY <3>8, Zenon DEF new
    <2> QED
      BY <1>5, <2>2, <2>3 DEF z
  <1> QED
    BY <1>4, <1>8, Zenon

(* Photos that become public are paid once, and within the cap.            *)
LEMMA PhotosAwarded ==
    ASSUME NEW now \in Nat, NEW A, NEW B, NEW u \in Users, NEW ids \in SUBSET Atoms,
           \A id \in ids : A[id] = "pending" /\ B[id] = "public",
           \A a \in Atoms : A[a] = "public" => B[a] = "public",
           NEW target \in BOOLEAN, NEW x, Fair(x, now, A)
    PROVE  /\ Fair(AwardPhotos(x, u, ids, target, now), now, B)
           /\ Richer(x, AwardPhotos(x, u, ids, target, now))
  <1> DEFINE each  == IF target THEN 2 * EditExp ELSE EditExp
             spent == Total(Recent(PhotoGrants(x, u), now))
             limit == PhotoLimit(target)
             cap   == PhotoLimit(TRUE)
             left  == Max({limit - spent, 0})
             b     == [x |-> x, left |-> left]
             rows  == {LedgerRow(u, <<"photo", i>>, n, now) : i \in ids, n \in Nat}
             Xs    == {x} \cup [exp : [Users -> Nat], log : SUBSET (x.log \cup rows)]
             All   == [x : Xs, left : Nat]
             Good  == {a \in All : Granted(x, a, u, now, B)}
             out   == PhotosInTurn(b, u, each, now, ids)
  <1>1. AwardPhotos(x, u, ids, target, now) = out.x
    BY Zenon DEF AwardPhotos, PhotosInTurn, GrantPhoto
  <1>2. Ledger(x, now) /\ PhotosPaid(x, A) /\ PhotosCapped(x, now)
    BY Zenon DEF Fair
  <1>3. each \in Nat /\ limit \in Nat /\ cap \in Nat /\ limit <= cap
    <2>1. each \in Nat
      BY DEF EditExp
    <2>2. target = TRUE \/ target = FALSE
      OBVIOUS
    <2>3. limit = PhotoCap \/ limit = 2 * PhotoCap
      BY Zenon DEF PhotoLimit
    <2>4. cap = 2 * PhotoCap
      BY Zenon DEF PhotoLimit
    <2> HIDE DEF limit, cap, each
    <2> QED
      BY ONLY <2>1, <2>3, <2>4, PhotoCap \in Nat, PhotoCapAssumption DEF PhotoCapAssumption
  <1>4. spent = Gained(Album(x, u, now)) /\ spent \in Int /\ spent <= cap
    <2>1. Recent(PhotoGrants(x, u), now) = Album(x, u, now)
      <3>1. ASSUME NEW e \in Recent(PhotoGrants(x, u), now) PROVE e.at <= now
        <4>1. e \in x.log
          BY DEF Recent, PhotoGrants
        <4>2. e.at \in 0..now
          BY <1>2, <4>1, Zenon DEF Ledger
        <4> QED
          BY <4>2
      <3> QED
        BY <3>1, Zenon DEF Album
    <2>2. spent = Gained(Album(x, u, now))
      BY <2>1, Zenon DEF Total, Gained
    <2>3. now \in 0..now
      OBVIOUS
    <2>4. Gained(Album(x, u, now)) \in Int
      BY <1>2, AlbumFacts
    <2>5. Gained(Album(x, u, now)) <= cap
      BY <1>2, <2>3, Zenon DEF PhotosCapped
    <2> QED
      BY <2>2, <2>4, <2>5, Zenon
  <1>5. left \in Nat /\ spent + left <= cap
    <2> HIDE DEF spent, limit, cap
    <2>1. limit - spent \in Int /\ 0 \in Int
      BY <1>3, <1>4
    <2>2. left = IF limit - spent <= 0 THEN 0 ELSE limit - spent
      BY <2>1, Pairs
    <2> HIDE DEF left
    <2> QED
      BY ONLY <1>3, <1>4, <2>2
  <1>6. b \in Good
    <2> HIDE DEF left, spent, cap
    <2>1. b.x = x /\ b.left = left
      OBVIOUS
    <2>2. b \in All
      <3>1. x \in Xs
        OBVIOUS
      <3> HIDE DEF Xs
      <3> QED
        BY <1>5, <3>1
    <2>3. Fair(x, now, B)
      <3>1. PhotosPaid(x, B)
        BY <1>2, Zenon DEF PhotosPaid
      <3> QED
        BY <3>1, Zenon DEF Fair
    <2>4. Richer(x, x)
      BY <1>2, RicherSame
    <2>5. Gained(Album(b.x, u, now)) + b.left <= PhotoLimit(TRUE)
      BY <1>4, <1>5, <2>1, Zenon DEF cap
    <2>6. b.left \in Nat
      BY <1>5, <2>1
    <2>7. Granted(x, b, u, now, B)
      BY <2>1, <2>3, <2>4, <2>5, <2>6, Zenon DEF Granted
    <2> HIDE DEF b, All
    <2> QED
      BY ONLY <2>2, <2>7 DEF Good
  <1>7. ASSUME NEW acc \in Good, NEW id \in ids PROVE GrantPhoto(u, each, now, id, acc) \in Good
    <2> DEFINE new == GrantPhoto(u, each, now, id, acc)
               d   == Min({each, acc.left})
               y   == Award(acc.x, u, <<"photo", id>>, d, now)
    <2>1. acc \in All /\ Granted(x, acc, u, now, B)
      <3> HIDE DEF All
      <3> QED
        BY <1>7, Zenon
    <2>2. Granted(x, new, u, now, B)
      <3>1. id \in Atoms /\ A[id] = "pending" /\ B[id] = "public"
        BY <1>7
      <3> HIDE DEF each, Good
      <3> QED
        BY <1>2, <1>3, <2>1, <3>1, PhotoGranted
    <2>3. new = acc \/ new = [x |-> y, left |-> acc.left - d]
      <3> HIDE DEF each, Good
      <3> QED
        BY Zenon DEF GrantPhoto
    <2>4. CASE new = acc
      <3> HIDE DEF Good, each
      <3> QED
        BY <1>7, <2>4, Zenon
    <2>5. CASE new = [x |-> y, left |-> acc.left - d]
      <3>1. new.x = y /\ new.left = acc.left - d
        <4> HIDE DEF new, y, d
        <4> QED
          BY <2>5
      <3>2. new.left \in Nat /\ Fair(y, now, B)
        <4> HIDE DEF new, y, Good
        <4>1. new.left \in Nat /\ Fair(new.x, now, B)
          BY <2>2, Zenon DEF Granted
        <4> QED
          BY <3>1, <4>1
      <3>3. y \in Xs
        <4>1. acc.x \in Xs
          <5> HIDE DEF Xs
          <5> QED
            BY <2>1
        <4>2. CASE y = acc.x
          <5> HIDE DEF y, Xs, Good
          <5> QED
            BY <4>1, <4>2
        <4>3. CASE y = [exp |-> [acc.x.exp EXCEPT ![u] = @ + d],
                        log |-> acc.x.log \cup {LedgerRow(u, <<"photo", id>>, d, now)}]
                   /\ d # 0
          <5>1. y.exp \in [Users -> Nat]
            <6> HIDE DEF y
            <6> QED
              BY <3>2 DEF Fair, Ledger
          <5>2. y.log = acc.x.log \cup {LedgerRow(u, <<"photo", id>>, d, now)}
            <6> HIDE DEF y
            <6> QED
              BY <4>3
          <5>3. y = [exp |-> y.exp, log |-> y.log]
            <6> HIDE DEF y
            <6> QED
              BY <4>3
          <5>4. d \in Nat
            <6>1. acc.left \in Nat
              BY <2>1 DEF Granted
            <6>2. d = each \/ d = acc.left
              <7> HIDE DEF each
              <7> QED
                BY <1>3, <6>1, Pairs
            <6> HIDE DEF d, each
            <6> QED
              BY <1>3, <6>1, <6>2
          <5>5. LedgerRow(u, <<"photo", id>>, d, now) \in rows
            <6> HIDE DEF d
            <6> QED
              BY <1>7, <5>4
          <5>6. acc.x.log \subseteq x.log \cup rows
            <6> DEFINE w == acc.x
            <6>1. w \in Xs
              BY <4>1
            <6> HIDE DEF rows, w
            <6> QED
              BY <6>1 DEF w
          <5>7. y.log \subseteq x.log \cup rows
            <6> HIDE DEF rows, y
            <6> QED
              BY <5>2, <5>5, <5>6
          <5> HIDE DEF y, rows
          <5> QED
            BY <5>1, <5>3, <5>7, Zenon
        <4>4. \/ y = acc.x
              \/ /\ y = [exp |-> [acc.x.exp EXCEPT ![u] = @ + d],
                          log |-> acc.x.log \cup {LedgerRow(u, <<"photo", id>>, d, now)}]
                 /\ d # 0
          <5> HIDE DEF d, Good
          <5> QED
            BY Zenon DEF Award, LedgerRow
        <4> HIDE DEF y, d, Xs
        <4> QED
          BY <4>2, <4>3, <4>4, Zenon
      <3>4. new \in All
        <4> HIDE DEF new, y, Xs
        <4>1. acc.left - d \in Nat
          BY <3>1, <3>2
        <4> HIDE DEF d
        <4> QED
          BY <2>5, <3>3, <4>1
      <3> HIDE DEF All
      <3> QED
        BY <2>2, <3>4, Zenon
    <2> HIDE DEF Good, each
    <2> QED
      BY <2>3, <2>4, <2>5, Zenon
  <1>8. out \in Good
    <2>1. IsFiniteSet(ids) /\ ids \subseteq Int
      <3>1. ids \subseteq Atoms /\ IsFiniteSet(Atoms)
        OBVIOUS
      <3>2. IsFiniteSet(ids)
        BY <3>1, FS_Subset
      <3> QED
        BY <3>1, <3>2
    <2> HIDE DEF Good, b, each
    <2> QED
      BY <1>6, <1>7, <2>1, GrantsStay
  <1>9. Fair(out.x, now, B) /\ Richer(x, out.x)
    <2>1. Granted(x, out, u, now, B)
      <3> HIDE DEF out, All
      <3> QED
        BY <1>8, Zenon
    <2> HIDE DEF out
    <2> QED
      BY <2>1, Zenon DEF Granted
  <1> QED
    BY <1>1, <1>9, Zenon

-------------------------------------------------------------------------------
(* What steps do to the ledger                                             *)

XpStep ==
    \/ xp' = xp /\ (clock' = clock \/ clock' = clock + 1)
    \/ /\ clock' = clock
       /\ \/ \E u \in Users : \E p : xp' = AwardEdit(xp, u, p, clock)
          \/ \E u \in Users : \E v : xp' = AwardGameEdit(xp, u, {v}, clock)
          \/ \E u \in Users, ids \in SUBSET Atoms, target \in BOOLEAN :
               /\ \A id \in ids : atoms[id] = "pending" /\ atoms'[id] = "public"
               /\ xp' = AwardPhotos(xp, u, ids, target, clock)
          \/ xp' = AwardPublication(xp, Creator, log, clock)

LEMMA XpSteps ==
    ASSUME Inv, [Next]_vars
    PROVE  XpStep
  <1>1. ASSUME NEW u \in Users, NEW p, PaidEdit(u, p), clock' = clock PROVE XpStep
    BY <1>1, Zenon DEF PaidEdit, XpStep
  <1>2. UNCHANGED <<xp, clock>> => XpStep
    BY DEF XpStep
  <1>3. ASSUME NEW u \in Users, NEW S \in SUBSET Stored, NEW target \in BOOLEAN,
               UpdateArcadePhoto(u, S, target)
        PROVE  XpStep
    <2> DEFINE fresh == {a \in S : atoms[a] = "pending"}
    <2>1. /\ xp' = (IF arcade.public /\ fresh # {} THEN AwardPhotos(xp, u, fresh, target, clock) ELSE xp)
          /\ Promote(S) /\ clock' = clock
      BY <1>3, Zenon DEF UpdateArcadePhoto
    <2>2. fresh \in SUBSET Atoms /\ \A id \in fresh : atoms[id] = "pending" /\ atoms'[id] = "public"
      BY <2>1 DEF Stored, Promote
    <2> HIDE DEF fresh
    <2>3. xp' = xp \/ xp' = AwardPhotos(xp, u, fresh, target, clock)
      BY <2>1, Zenon
    <2> QED
      BY <2>1, <2>2, <2>3, Zenon DEF XpStep
  <1>4. ASSUME NEW r \in Requests, CommitBasic(r) PROVE XpStep
    <2>1. PaidEdit(req[r].by, "basic") /\ clock' = clock /\ req[r].kind = "basic"
      BY <1>4, Zenon DEF CommitBasic
    <2>2. req[r].by \in Users
      BY <2>1, EditRequest DEF Inv, Edits
    <2> QED
      BY <1>1, <2>1, <2>2
  <1>5. ASSUME NEW r \in Requests, CommitPublic(r) PROVE XpStep
    BY <1>5, Zenon DEF CommitPublic, XpStep
  <1>6. ASSUME NEW u \in Users, UpdateArcadeHour(u) \/ UpdateArcadeSNS(u) \/ UpdateArcadeGTK(u)
        PROVE  XpStep
    <2>1. clock' = clock /\ (PaidEdit(u, "hour") \/ PaidEdit(u, "sns") \/ PaidEdit(u, "gtk"))
      BY <1>6, Zenon DEF UpdateArcadeHour, UpdateArcadeSNS, UpdateArcadeGTK, Section
    <2> QED
      BY <1>1, <2>1, Zenon
  <1>7. ASSUME NEW u \in Users, UpdateArcadeGame(u) PROVE XpStep
    <2>1. PICK v \in {"some", "none"} : Section(u, "game", v)
                       /\ xp' = IF arcade.public THEN AwardGameEdit(xp, u, {v}, clock) ELSE xp
      BY <1>7, Zenon DEF UpdateArcadeGame
    <2>2. clock' = clock
      BY <2>1, Zenon DEF Section
    <2> QED
      BY <2>1, <2>2, Zenon DEF XpStep
  <1>8. ASSUME NEW u \in Users, UpdateArcadeMemo(u) PROVE UNCHANGED <<xp, clock>>
    BY <1>8, Zenon DEF UpdateArcadeMemo, Section
  <1>9. Tick => XpStep
    BY Zenon DEF Tick, XpStep
  <1>10. \A r \in Requests : Fail(r) \/ BeginPublic(r) => UNCHANGED <<xp, clock>>
    BY Zenon DEF Fail, BeginPublic
  <1>11. \A r \in Requests, u \in Users : BeginBasic(r, u) => UNCHANGED <<xp, clock>>
    BY Zenon DEF BeginBasic
  <1>12. \A u \in Users, a \in Atoms : Upload(u, a) \/ DeleteArcadePhotoAtom(u, a) => UNCHANGED <<xp, clock>>
    BY Zenon DEF Upload, DeleteArcadePhotoAtom
  <1>13. \A public, closed, country : UpdateArcadeStatus(public, closed, country) => UNCHANGED <<xp, clock>>
    BY Zenon DEF UpdateArcadeStatus
  <1>14. \A u, c : CreateArcadeEditReport(u, c) => UNCHANGED <<xp, clock>>
    BY Zenon DEF CreateArcadeEditReport
  <1>15. \A u, p, to, c : RollbackArcadePart(u, p, to, c) => UNCHANGED <<xp, clock>>
    BY Zenon DEF RollbackArcadePart
  <1>16. NewArcade \/ VerifyArcadeLocation \/ (\E by : ApplyCityAssignment(by))
         \/ (\E i : ReviewArcadeRequest(i)) => UNCHANGED <<xp, clock>>
    BY Zenon DEF NewArcade, VerifyArcadeLocation, ApplyCityAssignment, ReviewArcadeRequest
  <1>17. UNCHANGED vars => UNCHANGED <<xp, clock>>
    BY DEF vars
  <1> QED
    BY <1>2, <1>3, <1>4, <1>5, <1>6, <1>7, <1>8, <1>9, <1>10, <1>11, <1>12, <1>13, <1>14, <1>15, <1>16, <1>17,
       Zenon DEF Next

(* A window moves on: what it holds is no more than it was.                *)
LEMMA LaterAlbum ==
    ASSUME NEW now \in Nat, NEW x, Ledger(x, now), PhotosCapped(x, now)
    PROVE  Ledger(x, now + 1) /\ PhotosCapped(x, now + 1)
  <1>1. Ledger(x, now + 1)
    BY DEF Ledger
  <1> DEFINE cap == PhotoLimit(TRUE)
  <1>2. cap \in Nat
    BY PhotoCapAssumption DEF PhotoLimit
  <1>3. ASSUME NEW u \in Users PROVE Gained(Album(x, u, now + 1)) <= cap
    <2> DEFINE E == Album(x, u, now)
               S == Album(x, u, now + 1)
    <2>1. Countable(E) /\ Gained(E) \in Int /\ \A e \in E : e.diff >= 0
      BY AlbumFacts
    <2>2. S \in SUBSET E
      <3>1. ASSUME NEW e \in S PROVE e \in E
        <4>1. e \in x.log /\ e \in PhotoGrants(x, u) /\ e.at > (now + 1) - Week
          BY DEF Album, Recent, PhotoGrants
        <4>2. e.at \in 0..now
          BY <4>1, Zenon DEF Ledger
        <4>3. e.at > now - Week /\ e.at <= now
          <5>1. e.at > (now + 1) - Week
            BY <4>1
          <5> QED
            BY <4>2, <5>1, WindowAssumption
        <4> QED
          BY <4>1, <4>3, Zenon DEF Album, Recent
      <3> QED
        BY <3>1, Zenon
    <2>3. Gained(E) <= cap
      <3>1. now \in 0..now
        OBVIOUS
      <3> QED
        BY <3>1, Zenon DEF PhotosCapped
    <2>4. Gained(S) \in Int
      BY <1>1, AlbumFacts
    <2> HIDE DEF E, S, cap
    <2>5. Gained(S) <= Gained(E)
      BY <2>1, <2>2, GainedMonotone
    <2>6. Gained(S) <= cap
      BY ONLY <1>2, <2>1, <2>3, <2>4, <2>5
    <2> QED
      BY <2>6 DEF S
  <1>4. PhotosCapped(x, now + 1)
    <2> SUFFICES ASSUME NEW u \in Users, NEW t \in 0..(now + 1) PROVE Gained(Album(x, u, t)) <= cap
      BY Zenon DEF PhotosCapped
    <2>1. t \in 0..now \/ t = now + 1
      OBVIOUS
    <2>2. CASE t \in 0..now
      BY <2>2, Zenon DEF PhotosCapped
    <2>3. CASE t = now + 1
      BY <1>3, <2>3, Zenon
    <2> QED
      BY <2>1, <2>2, <2>3
  <1> QED
    BY <1>1, <1>4

LEMMA XpKept ==
    ASSUME Inv, [Next]_vars
    PROVE  XpInv' /\ Richer(xp, xp')
  <1>0. XpInv /\ AtomsStep /\ XpStep
    BY XpSteps, AtomsSteps DEF Inv
  <1>1. clock \in Nat /\ Ledger(xp, clock) /\ Fair(xp, clock, atoms)
    BY <1>0, RewardsBoundedIs DEF XpInv, Fair
  <1>2. \A a \in Atoms : atoms[a] = "public" => atoms'[a] = "public"
    BY <1>0 DEF AtomsStep
  <1>3. ASSUME NEW x, PhotosPaid(x, atoms) PROVE PhotosPaid(x, atoms')
    BY <1>2, <1>3 DEF PhotosPaid
  <1>4. ASSUME NEW x, Fair(x, clock, atoms) PROVE Fair(x, clock, atoms')
    BY <1>3, <1>4, Zenon DEF Fair
  <1>5. clock' \in Nat /\ Fair(xp', clock', atoms') /\ Richer(xp, xp')
    <2>1. CASE xp' = xp /\ clock' = clock
      BY <1>1, <1>4, <2>1, RicherSame
    <2>2. CASE xp' = xp /\ clock' = clock + 1
      <3>1. Ledger(xp, clock + 1) /\ PhotosCapped(xp, clock + 1)
        BY <1>1, LaterAlbum DEF Fair
      <3>2. Fair(xp, clock + 1, atoms')
        BY <1>1, <1>4, <3>1, Zenon DEF Fair
      <3>3. Richer(xp, xp)
        BY <1>1, RicherSame
      <3>4. clock + 1 \in Nat
        BY <1>1
      <3> QED
        BY <2>2, <3>2, <3>3, <3>4
    <2>3. ASSUME NEW u \in Users, NEW p, xp' = AwardEdit(xp, u, p, clock), clock' = clock
          PROVE  clock' \in Nat /\ Fair(xp', clock', atoms') /\ Richer(xp, xp')
      <3>1. Fair(xp', clock, atoms) /\ Richer(xp, xp')
        BY <1>1, <2>3, EditPaid
      <3> QED
        BY <1>1, <1>4, <2>3, <3>1
    <2>4. ASSUME NEW u \in Users, NEW v, xp' = AwardGameEdit(xp, u, {v}, clock), clock' = clock
          PROVE  clock' \in Nat /\ Fair(xp', clock', atoms') /\ Richer(xp, xp')
      <3>1. Fair(xp', clock, atoms) /\ Richer(xp, xp')
        BY <1>1, <2>4, GamePaid
      <3> QED
        BY <1>1, <1>4, <2>4, <3>1
    <2>5. ASSUME NEW u \in Users, NEW ids \in SUBSET Atoms, NEW target \in BOOLEAN,
                 \A id \in ids : atoms[id] = "pending" /\ atoms'[id] = "public",
                 xp' = AwardPhotos(xp, u, ids, target, clock), clock' = clock
          PROVE  clock' \in Nat /\ Fair(xp', clock', atoms') /\ Richer(xp, xp')
      <3>1. Fair(xp', clock, atoms') /\ Richer(xp, xp')
        BY <1>1, <1>2, <2>5, PhotosAwarded
      <3> QED
        BY <1>1, <2>5, <3>1
    <2>6. ASSUME xp' = AwardPublication(xp, Creator, log, clock), clock' = clock
          PROVE  clock' \in Nat /\ Fair(xp', clock', atoms') /\ Richer(xp, xp')
      <3>1. Fair(xp', clock, atoms) /\ Richer(xp, xp')
        BY <1>1, <2>6, PublicationPaid
      <3> QED
        BY <1>1, <1>4, <2>6, <3>1
    <2> QED
      BY <1>0, <2>1, <2>2, <2>3, <2>4, <2>5, <2>6, Zenon DEF XpStep
  <1>6. RewardsBounded'
    BY <1>5, RewardsBoundedNext DEF Fair
  <1>7. Ledger(xp', clock') /\ PhotosPaid(xp', atoms')
    BY <1>5 DEF Fair
  <1>8. XpInv' <=> clock' \in Nat /\ Ledger(xp', clock') /\ PhotosPaid(xp', atoms') /\ RewardsBounded'
    BY DEF XpInv, Ledger, PhotosPaid
  <1> QED
    BY <1>5, <1>6, <1>7, <1>8

-------------------------------------------------------------------------------
(* Requests                                                                *)

\* A request begins with what it knows, or ends.
ReqStep ==
    \/ req' = req
    \/ \E r \in Requests : \E q \in {Idle} \cup Edits \cup Publications :
         /\ req' = [req EXCEPT ![r] = q]
         /\ q.kind = "basic" => /\ Exists /\ q.read = ptr["basic"]
                                /\ q.read <= Len(values["basic"]) /\ q.base <= Len(values["basic"])
         /\ q.kind = "public" => q.level <= LevelFromExp(xp.exp[Creator])

LEMMA CreatorsLevel ==
    ASSUME XpInv
    PROVE  xp.exp[Creator] \in Nat /\ LevelFromExp(xp.exp[Creator]) \in Nat
  <1>1. xp.exp[Creator] \in Nat
    BY DEF XpInv, Ledger
  <1> QED
    BY <1>1, LevelsRise

LEMMA ReqSteps ==
    ASSUME Inv, [Next]_vars
    PROVE  ReqStep
  <1>0. PartsInv /\ XpInv
    BY DEF Inv
  <1>1. ASSUME NEW r \in Requests, req' = [req EXCEPT ![r] = Idle] PROVE ReqStep
    <2>1. Idle.kind # "basic" /\ Idle.kind # "public"
      BY DEF Idle
    <2> HIDE DEF Idle
    <2> QED
      BY <1>1, <2>1, Zenon DEF ReqStep
  <1>2. \A r \in Requests : Fail(r) \/ CommitBasic(r) \/ CommitPublic(r) => ReqStep
    BY <1>1, Zenon DEF Fail, CommitBasic, CommitPublic
  <1>3. ASSUME NEW r \in Requests, NEW u \in Users, BeginBasic(r, u) PROVE ReqStep
    <2>1. PICK b \in Bodies, base \in 0..Len(values["basic"]) :
             req' = [req EXCEPT ![r] = [kind |-> "basic", by |-> u, body |-> b,
                                        base |-> base, read |-> ptr["basic"]]]
      BY <1>3, Zenon DEF BeginBasic
    <2> DEFINE q == [kind |-> "basic", by |-> u, body |-> b, base |-> base, read |-> ptr["basic"]]
    <2>2. Exists /\ ptr["basic"] \in Nat \ {0} /\ ptr["basic"] <= Len(values["basic"])
      <3>1. Exists
        BY <1>3 DEF BeginBasic
      <3> QED
        BY <1>0, <3>1, PartNames DEF PartsInv, Exists
    <2>3. q \in Edits /\ q.read = ptr["basic"] /\ q.kind = "basic" /\ q.base <= Len(values["basic"])
      <3>1. base \in Nat /\ base <= Len(values["basic"])
        <4>1. Len(values["basic"]) \in Nat
          BY <1>0, PartNames DEF PartsInv
        <4> QED
          BY <4>1
      <3> QED
        BY <2>2, <3>1 DEF Edits
    <2>4. req' = [req EXCEPT ![r] = q]
      BY <2>1
    <2> HIDE DEF q
    <2>5. q.kind # "public"
      BY <2>3
    <2> QED
      BY <2>2, <2>3, <2>4, <2>5, Zenon DEF ReqStep
  <1>4. ASSUME NEW r \in Requests, BeginPublic(r) PROVE ReqStep
    <2> DEFINE level == LevelFromExp(xp.exp[Creator])
               q     == [kind |-> "public", by |-> Creator, level |-> level]
    <2>1. req' = [req EXCEPT ![r] = q]
      BY <1>4, Zenon DEF BeginPublic
    <2>2. level \in Nat
      BY <1>0, CreatorsLevel
    <2> HIDE DEF level
    <2>3. q \in Publications /\ q.level <= level /\ q.kind # "basic"
      BY <2>2 DEF Publications
    <2> HIDE DEF q
    <2> QED
      BY <2>1, <2>3, Zenon DEF ReqStep, level
  <1>5. req' = req => ReqStep
    BY DEF ReqStep
  <1>6. \A u \in Users, a \in Atoms : Upload(u, a) \/ DeleteArcadePhotoAtom(u, a) => req' = req
    BY Zenon DEF Upload, DeleteArcadePhotoAtom
  <1>7. \A u, S, target : UpdateArcadePhoto(u, S, target) => req' = req
    BY Zenon DEF UpdateArcadePhoto
  <1>8. \A public, closed, country : UpdateArcadeStatus(public, closed, country) => req' = req
    BY Zenon DEF UpdateArcadeStatus
  <1>9. NewArcade \/ VerifyArcadeLocation \/ Tick \/ (\E by : ApplyCityAssignment(by))
        \/ (\E i : ReviewArcadeRequest(i)) => req' = req
    BY Zenon DEF NewArcade, VerifyArcadeLocation, Tick, ApplyCityAssignment, ReviewArcadeRequest
  <1>10. \A u : UpdateArcadeHour(u) \/ UpdateArcadeSNS(u) \/ UpdateArcadeGTK(u)
                \/ UpdateArcadeMemo(u) \/ UpdateArcadeGame(u) => req' = req
    BY Zenon DEF UpdateArcadeHour, UpdateArcadeSNS, UpdateArcadeGTK, UpdateArcadeMemo, UpdateArcadeGame, Section
  <1>11. \A u, c : CreateArcadeEditReport(u, c) => req' = req
    BY Zenon DEF CreateArcadeEditReport
  <1>12. \A u, p, to, c : RollbackArcadePart(u, p, to, c) => req' = req
    BY Zenon DEF RollbackArcadePart
  <1>13. UNCHANGED vars => req' = req
    BY DEF vars
  <1> QED
    BY <1>2, <1>3, <1>4, <1>5, <1>6, <1>7, <1>8, <1>9, <1>10, <1>11, <1>12, <1>13, Zenon DEF Next

LEMMA ReqKept ==
    ASSUME Inv, [Next]_vars
    PROVE  ReqInv'
  <1> DEFINE n == Len(values["basic"])
             m == Len(values'["basic"])
             d == LevelFromExp(xp.exp[Creator])
             e == LevelFromExp(xp'.exp[Creator])
  <1>0. PartsInv /\ PartsInv' /\ PastKept /\ ReqInv /\ ReqStep /\ XpInv /\ Richer(xp, xp')
    BY PartsKept, ReqSteps, XpKept DEF Inv
  <1>1. n \in Nat /\ m \in Nat /\ n <= m
    BY <1>0, PartNames DEF PartsInv, PastKept
  <1>2. d \in Nat /\ e \in Nat /\ d <= e
    <2>1. xp.exp[Creator] \in Nat /\ xp'.exp[Creator] \in Nat /\ xp.exp[Creator] <= xp'.exp[Creator]
      BY <1>0, CreatorsLevel DEF Richer
    <2> QED
      BY <2>1, LevelsRise
  <1> HIDE DEF n, m, d, e
  <1>3. /\ req \in [Requests -> {Idle} \cup Edits \cup Publications]
        /\ \A r \in Requests : /\ req[r].kind = "basic" => req[r].read <= n
                               /\ req[r].kind = "public" => req[r].level <= d
    BY <1>0, Zenon DEF ReqInv, n, d
  <1>4. \/ req' = req
        \/ \E r \in Requests : \E q \in {Idle} \cup Edits \cup Publications :
             /\ req' = [req EXCEPT ![r] = q]
             /\ q.kind = "basic" => q.read <= n
             /\ q.kind = "public" => q.level <= d
    BY <1>0, Zenon DEF ReqStep, n, d
  <1>5. /\ req' \in [Requests -> {Idle} \cup Edits \cup Publications]
        /\ \A r \in Requests : /\ req'[r].kind = "basic" => req'[r].read <= n
                               /\ req'[r].kind = "public" => req'[r].level <= d
    <2>1. CASE req' = req
      BY <1>3, <2>1, Zenon
    <2>2. ASSUME NEW r \in Requests, NEW q \in {Idle} \cup Edits \cup Publications,
                 req' = [req EXCEPT ![r] = q],
                 q.kind = "basic" => q.read <= n, q.kind = "public" => q.level <= d
          PROVE  /\ req' \in [Requests -> {Idle} \cup Edits \cup Publications]
                 /\ \A s \in Requests : /\ req'[s].kind = "basic" => req'[s].read <= n
                                        /\ req'[s].kind = "public" => req'[s].level <= d
      <3> DEFINE All == {Idle} \cup Edits \cup Publications
      <3> HIDE DEF All
      <3>1. req \in [Requests -> All] /\ q \in All
        BY <1>3, <2>2 DEF All
      <3>2. req' \in [Requests -> All] /\ \A s \in Requests : req'[s] = IF s = r THEN q ELSE req[s]
        BY <2>2, <3>1
      <3> QED
        BY <1>3, <2>2, <3>2, Zenon DEF All
    <2> QED
      BY <1>4, <2>1, <2>2, Zenon
  <1>6. ASSUME NEW r \in Requests
        PROVE  /\ req'[r].kind = "basic" => req'[r].read <= m
               /\ req'[r].kind = "public" => req'[r].level <= e
    <2>1. CASE req'[r] = Idle
      BY <2>1 DEF Idle
    <2>2. CASE req'[r] \in Edits
      <3>1. req'[r].read \in Nat /\ req'[r].kind = "basic" /\ req'[r].read <= n
        BY <1>5, <2>2 DEF Edits
      <3> QED
        BY <1>1, <3>1
    <2>3. CASE req'[r] \in Publications
      <3>1. req'[r].level \in Nat /\ req'[r].kind = "public" /\ req'[r].level <= d
        BY <1>5, <2>3 DEF Publications
      <3> QED
        BY <1>2, <3>1
    <2>4. req'[r] \in {Idle} \cup Edits \cup Publications
      BY <1>5
    <2> QED
      BY <2>1, <2>2, <2>3, <2>4
  <1> QED
    BY <1>5, <1>6 DEF ReqInv, n, m, d, e

-------------------------------------------------------------------------------
(* Invariance                                                              *)

LEMMA InitHolds == Init => Inv
  <1> SUFFICES ASSUME Init PROVE Inv
    OBVIOUS
  <1> USE DEF Init
  <1>1. PartsInv
    <2>1. \A p \in AllParts : values[p] = <<>> /\ ptr[p] = 0
      OBVIOUS
    <2>2. \A p \in AllParts : values[p] \in Seq(Values(p)) /\ Len(values[p]) = 0
      BY <2>1
    <2> QED
      BY <2>1, <2>2 DEF PartsInv
  <1>2. ArcadeInv
    BY DEF ArcadeInv
  <1>3. AtomsInv
    <2>1. "photo" \in Parts => values["photo"] = <<>>
      BY PartNames
    <2>2. Range(<<>>) = {}
      BY DEF Range
    <2>3. PhotosResolve
      BY <2>1, <2>2 DEF PhotosResolve
    <2> QED
      BY <2>3 DEF AtomsInv
  <1>4. ReqInv
    BY DEF ReqInv, Idle
  <1>5. ReportsInv
    BY DEF ReportsInv
  <1>6. XpInv
    <2>1. xp.log = {} /\ xp.exp \in [Users -> Nat] /\ clock = 0
      OBVIOUS
    <2>2. Ledger(xp, clock) /\ PhotosPaid(xp, atoms)
      BY <2>1, FS_EmptySet DEF Ledger, PhotosPaid
    <2>3. OncePerWindow(xp) /\ PhotosOnce(xp)
      BY <2>1 DEF OncePerWindow, PhotosOnce, EditGrants
    <2>4. PhotosCapped(xp, clock)
      <3>1. \A u, t : Album(xp, u, t) = {}
        BY <2>1 DEF Album, Recent, PhotoGrants
      <3> DEFINE cap == PhotoLimit(TRUE)
      <3>2. cap \in Nat
        BY PhotoCapAssumption DEF PhotoLimit
      <3>3. Gained({}) <= cap
        <4> HIDE DEF cap
        <4> QED
          BY <3>2, GainedByNone
      <3> QED
        BY <3>1, <3>3, Zenon DEF PhotosCapped
    <2> QED
      BY <2>1, <2>2, <2>3, <2>4, RewardsBoundedIs DEF XpInv
  <1> QED
    BY <1>1, <1>2, <1>3, <1>4, <1>5, <1>6 DEF Inv

LEMMA NextKeeps == Inv /\ [Next]_vars => Inv'
  BY PartsKept, ArcadeKept, AtomsKept, ReqKept, ReportsKept, XpKept DEF Inv

(* The invariant from which the rest follows.                              *)
THEOREM Invariance == Spec => []Inv
  <1> QED
    BY InitHolds, NextKeeps, PTL DEF Spec

(* Every pointer, changelog row and photo leads to something that exists,  *)
(* whatever is edited, rolled back, uploaded and deleted                   *)
(* (arcade_update_helper.go:66, photo/atoms.go:78).                        *)
THEOREM PartsStaySound == Spec => []PartsAreSound
  <1>1. ASSUME Inv PROVE PartsAreSound
    <2>1. PartsInv /\ ArcadeInv /\ AtomsInv /\ ReqInv /\ ReportsInv
      BY <1>1 DEF Inv
    <2>2. \A p \in AllParts : Len(values[p]) \in Nat
      BY <2>1 DEF PartsInv
    <2>3. arcade \in [public : BOOLEAN, closed : BOOLEAN,
                      country : Countries \cup {NoCountry}, proof : 0..Len(values["basic"])]
      <3>1. arcade.proof \in 0..Len(values["basic"])
        BY <2>1, <2>2, PartNames DEF ArcadeInv
      <3> DEFINE P == 0..Len(values["basic"])
                 C == Countries \cup {NoCountry}
      <3>2. arcade.proof \in P /\ arcade \in [public : BOOLEAN, closed : BOOLEAN, country : C, proof : Nat]
        BY <2>1, <3>1 DEF ArcadeInv
      <3> HIDE DEF P, C
      <3>3. arcade \in [public : BOOLEAN, closed : BOOLEAN, country : C, proof : P]
        BY <3>2
      <3> QED
        BY <3>3 DEF P, C
    <2>4. \A p \in AllParts : values[p] \in Seq(Values(p)) /\ ptr[p] \in 0..Len(values[p])
      BY <2>1, <2>2 DEF PartsInv
    <2>5. ASSUME NEW e \in Range(log)
          PROVE  /\ e.part \in AllParts /\ e.by \in Users \cup {System}
                 /\ e.from \in 0..Len(values[e.part]) /\ e.to \in 1..Len(values[e.part])
      <3>1. log \in Seq(Rows)
        BY <2>1 DEF PartsInv
      <3>2. PICK i \in 1..Len(log) : e = log[i]
        <4>1. DOMAIN log = 1..Len(log)
          BY <3>1
        <4>2. \E i \in DOMAIN log : e = log[i]
          BY <2>5, Zenon DEF Range
        <4> QED
          BY <4>1, <4>2
      <3>3. e \in Rows /\ e.from <= Len(values[e.part]) /\ e.to <= Len(values[e.part])
        BY <2>1, <3>1, <3>2 DEF PartsInv
      <3>4. e.part \in AllParts /\ e.by \in Who /\ e.from \in Nat /\ e.to \in Nat \ {0}
        BY <3>3 DEF Rows
      <3>5. Len(values[e.part]) \in Nat
        BY <2>2, <3>4
      <3> QED
        BY <3>3, <3>4, <3>5 DEF Who
    <2>6. \A r \in Requests : req[r].kind = "basic" => req[r].read \in 1..Len(values["basic"])
      <3> SUFFICES ASSUME NEW r \in Requests, req[r].kind = "basic"
                   PROVE  req[r].read \in 1..Len(values["basic"])
        OBVIOUS
      <3>1. req[r].read \in Nat \ {0} /\ req[r].read <= Len(values["basic"])
        BY <2>1, EditRequest
      <3>2. Len(values["basic"]) \in Nat
        BY <2>2, PartNames
      <3> QED
        BY <3>1, <3>2
    <2>7. ASSUME NEW x \in Range(reports) PROVE x.change \in 1..Len(log) /\ x.editor \in Users
      <3>1. reports \in Seq(Reports)
        BY <2>1 DEF ReportsInv
      <3>2. PICK i \in 1..Len(reports) : x = reports[i]
        <4>1. DOMAIN reports = 1..Len(reports)
          BY <3>1
        <4>2. \E i \in DOMAIN reports : x = reports[i]
          BY <2>7, Zenon DEF Range
        <4> QED
          BY <4>1, <4>2
      <3>3. x \in Reports /\ x.change <= Len(log) /\ Len(log) \in Nat
        BY <2>1, <3>1, <3>2 DEF ReportsInv, PartsInv
      <3> QED
        BY <3>3 DEF Reports
    <2>8. TypeOK
      BY <2>1, <2>3, <2>4, <2>5, <2>6, <2>7 DEF TypeOK, AtomsInv
    <2> QED
      BY <2>1, <2>8 DEF PartsAreSound, AtomsInv
  <1> QED
    BY <1>1, Invariance, PTL

(* A part is paid once in a window, a photo once for ever and to one user, *)
(* photos never above the cap, and publication pays exactly what the       *)
(* preview announces (xp.go:366, 515, public/preview.go:45).               *)
THEOREM RewardsStayExact == Spec => []RewardsAreExact
  <1>1. ASSUME Inv PROVE RewardsAreExact
    <2>1. clock \in Nat /\ Fair(xp, clock, atoms) /\ RewardsBounded
      BY <1>1, RewardsBoundedIs DEF Inv, XpInv, Fair
    <2>2. PreviewIsExact
      BY <2>1, PublicationPaid DEF PreviewIsExact
    <2> QED
      BY <2>1, <2>2 DEF RewardsAreExact
  <1> QED
    BY <1>1, Invariance, PTL

-------------------------------------------------------------------------------
(* Publication                                                             *)

\* Of the steps that publish, those of a request are commits.
LEMMA PublishedByRequest ==
    ASSUME Inv, Next, ~arcade.public, arcade'.public, req' # req
    PROVE  \E r \in Requests : CommitPublic(r)
  <1>0. arcade \in Flags
    BY DEF Inv, ArcadeInv, Flags
  <1>1. \A c : [arcade EXCEPT !.country = c].public = arcade.public
    BY <1>0 DEF Flags
  <1>2. ~NewArcade /\ (\A r \in Requests : ~CommitBasic(r))
    BY <1>1, Zenon DEF NewArcade, CommitBasic
  <1>3. \A r \in Requests : ~Fail(r) /\ ~BeginPublic(r)
    BY Zenon DEF Fail, BeginPublic
  <1>4. \A r \in Requests, u \in Users : ~BeginBasic(r, u)
    BY Zenon DEF BeginBasic
  <1>5. \A u : ~UpdateArcadeHour(u) /\ ~UpdateArcadeSNS(u) /\ ~UpdateArcadeGTK(u)
               /\ ~UpdateArcadeMemo(u) /\ ~UpdateArcadeGame(u)
    BY Zenon DEF UpdateArcadeHour, UpdateArcadeSNS, UpdateArcadeGTK, UpdateArcadeMemo, UpdateArcadeGame, Section
  <1>6. \A u \in Users, a \in Atoms : ~Upload(u, a) /\ ~DeleteArcadePhotoAtom(u, a)
    BY Zenon DEF Upload, DeleteArcadePhotoAtom
  <1>7. \A u, S, target : ~UpdateArcadePhoto(u, S, target)
    BY Zenon DEF UpdateArcadePhoto
  <1>8. \A u, c : ~CreateArcadeEditReport(u, c)
    BY Zenon DEF CreateArcadeEditReport
  <1>9. \A u, p, to, c : ~RollbackArcadePart(u, p, to, c)
    BY Zenon DEF RollbackArcadePart
  <1>10. ~Tick /\ ~VerifyArcadeLocation /\ (\A by : ~ApplyCityAssignment(by)) /\ (\A i : ~ReviewArcadeRequest(i))
    BY Zenon DEF Tick, VerifyArcadeLocation, ApplyCityAssignment, ReviewArcadeRequest
  <1>11. \A public, closed, country : ~UpdateArcadeStatus(public, closed, country)
    BY Zenon DEF UpdateArcadeStatus
  <1> QED
    BY <1>2, <1>3, <1>4, <1>5, <1>6, <1>7, <1>8, <1>9, <1>10, <1>11, Zenon DEF Next

(* An arcade its creator published has games and, below level 10, a photo  *)
(* or a proof of the place that is published (public/policy.go:109).       *)
THEOREM PublicationSupported == Spec => PublicationIsSupported
  <1> DEFINE Supported == ~arcade.public /\ arcade'.public /\ req' # req =>
                            /\ Registered("game")
                            /\ LevelFromExp(xp.exp[Creator]) < 10 => HasPhoto \/ Current.place \in stood
  <1>1. Inv /\ [Next]_vars => [Supported]_vars
    <2> SUFFICES ASSUME Inv, Next, ~arcade.public, arcade'.public, req' # req
                 PROVE  /\ Registered("game")
                        /\ LevelFromExp(xp.exp[Creator]) < 10 => HasPhoto \/ Current.place \in stood
      BY Zenon DEF vars
    <2>1. PICK r \in Requests : CommitPublic(r)
      BY PublishedByRequest
    <2>2. req[r].kind = "public" /\ RequirementsMet(req[r].level)
      BY <2>1, Zenon DEF CommitPublic
    <2>3. Registered("game")
      BY <2>2, Zenon DEF RequirementsMet
    <2>4. ASSUME LevelFromExp(xp.exp[Creator]) < 10 PROVE HasPhoto \/ Current.place \in stood
      <3>1. req[r] \in Publications
        <4>1. req[r] \in {Idle} \cup Edits \cup Publications
          BY DEF Inv, ReqInv
        <4>2. Idle.kind # "public" /\ \A q \in Edits : q.kind # "public"
          BY DEF Idle, Edits
        <4> QED
          BY <2>2, <4>1, <4>2
      <3>2. req[r].level \in Nat /\ req[r].level <= LevelFromExp(xp.exp[Creator])
        BY <2>2, <3>1 DEF Inv, ReqInv, Publications
      <3>3. LevelFromExp(xp.exp[Creator]) \in Nat
        BY CreatorsLevel DEF Inv
      <3>4. req[r].level < 10
        BY <2>4, <3>2, <3>3
      <3>5. HasPhoto \/ LocationVerified
        BY <2>2, <3>4, Zenon DEF RequirementsMet
      <3>6. LocationVerified => Current.place \in stood
        BY DEF LocationVerified, Current, Inv, ArcadeInv
      <3> QED
        BY <3>5, <3>6
    <2> QED
      BY <2>3, <2>4
  <1> QED
    BY <1>1, Invariance, PTL DEF Spec, PublicationIsSupported

-------------------------------------------------------------------------------
(* Edits                                                                   *)

\* Of the steps that move the pointers, those that end a request are commits.
LEMMA MovedByRequest ==
    ASSUME Next, ptr' # ptr, req' # req
    PROVE  \E r \in Requests : CommitBasic(r)
  <1>1. \A r \in Requests : ~Fail(r) /\ ~BeginPublic(r) /\ ~CommitPublic(r)
    BY Zenon DEF Fail, BeginPublic, CommitPublic
  <1>2. \A r \in Requests, u \in Users : ~BeginBasic(r, u)
    BY Zenon DEF BeginBasic
  <1>3. \A u : ~UpdateArcadeHour(u) /\ ~UpdateArcadeSNS(u) /\ ~UpdateArcadeGTK(u)
               /\ ~UpdateArcadeMemo(u) /\ ~UpdateArcadeGame(u)
    BY Zenon DEF UpdateArcadeHour, UpdateArcadeSNS, UpdateArcadeGTK, UpdateArcadeMemo, UpdateArcadeGame, Section
  <1>4. \A u \in Users, a \in Atoms : ~Upload(u, a) /\ ~DeleteArcadePhotoAtom(u, a)
    BY Zenon DEF Upload, DeleteArcadePhotoAtom
  <1>5. \A u, S, target : ~UpdateArcadePhoto(u, S, target)
    BY Zenon DEF UpdateArcadePhoto
  <1>6. \A u, c : ~CreateArcadeEditReport(u, c)
    BY Zenon DEF CreateArcadeEditReport
  <1>7. \A u, p, to, c : ~RollbackArcadePart(u, p, to, c)
    BY Zenon DEF RollbackArcadePart
  <1>8. ~NewArcade /\ ~Tick /\ ~VerifyArcadeLocation
        /\ (\A by : ~ApplyCityAssignment(by)) /\ (\A i : ~ReviewArcadeRequest(i))
    BY Zenon DEF NewArcade, Tick, VerifyArcadeLocation, ApplyCityAssignment, ReviewArcadeRequest
  <1>9. \A public, closed, country : ~UpdateArcadeStatus(public, closed, country)
    BY Zenon DEF UpdateArcadeStatus
  <1> QED
    BY <1>1, <1>2, <1>3, <1>4, <1>5, <1>6, <1>7, <1>8, <1>9, Zenon DEF Next

LEMMA CommittedBy ==
    ASSUME Inv, Next, NEW r \in Requests, BasicCommitted(r)
    PROVE  CommitBasic(r) /\ req[r] \in Edits
  <1>1. req[r].kind = "basic" /\ req'[r] = Idle /\ ptr' # ptr
    BY Zenon DEF BasicCommitted
  <1>2. req[r] # Idle
    BY <1>1 DEF Idle
  <1>3. PICK s \in Requests : CommitBasic(s)
    BY <1>1, <1>2, MovedByRequest
  <1>4. req' = [req EXCEPT ![s] = Idle]
    BY <1>3, Zenon DEF CommitBasic
  <1>5. req \in [Requests -> {Idle} \cup Edits \cup Publications]
    BY DEF Inv, ReqInv
  <1>6. r = s
    <2> DEFINE All == {Idle} \cup Edits \cup Publications
    <2> HIDE DEF All, Idle
    <2> QED
      BY <1>1, <1>2, <1>4, <1>5 DEF All
  <1>7. req[r] \in Edits
    BY <1>1, EditRequest DEF Inv
  <1> QED
    BY <1>3, <1>6, <1>7

LEMMA CommitWrites ==
    ASSUME Inv, NEW r \in Requests, CommitBasic(r)
    PROVE  Written = Merge(values["basic"][req[r].read], req[r].body)
  <1> DEFINE next == Merge(values["basic"][req[r].read], req[r].body)
  <1>1. Replace("basic", next, req[r].by)
    BY Zenon DEF CommitBasic
  <1> HIDE DEF next
  <1>2. values["basic"] \in Seq(Basic) /\ "basic" \in DOMAIN values /\ "basic" \in DOMAIN ptr
    BY PartNames, ValuesOf DEF Inv, PartsInv
  <1>3. /\ values'["basic"] = Append(values["basic"], next)
        /\ ptr'["basic"] = Len(values["basic"]) + 1
    BY <1>1, <1>2 DEF Replace, Move
  <1>4. Append(values["basic"], next)[Len(values["basic"]) + 1] = next
    BY <1>2
  <1> QED
    BY <1>3, <1>4, Zenon DEF Written, next

(* An edit whose base is what it read takes back nothing that others wrote *)
(* since (basic/update.go:288).                                            *)
THEOREM ReadBases == Spec => ReadBasesAreExact
  <1> DEFINE Exact == \A r \in Requests :
                        BasicCommitted(r) /\ req[r].base = req[r].read =>
                            Written = Merge(Current, req[r].body)
  <1>1. Inv /\ [Next]_vars => [Exact]_vars
    <2> SUFFICES ASSUME Inv, Next, NEW r \in Requests, BasicCommitted(r), req[r].base = req[r].read
                 PROVE  Written = Merge(Current, req[r].body)
      BY Zenon
    <2>1. CommitBasic(r) /\ req[r] \in Edits
      BY CommittedBy
    <2>2. BasicAllowed(req[r])
      BY <2>1, Zenon DEF CommitBasic
    <2>3. req[r].read = ptr["basic"]
      BY <2>1, <2>2 DEF BasicAllowed, Edits
    <2> QED
      BY <2>1, <2>3, CommitWrites, Zenon DEF Current
  <1> QED
    BY <1>1, Invariance, PTL DEF Spec, ReadBasesAreExact

(* A draft that was hidden again is edited by its creator and moderators   *)
(* only (basic/update.go:285).                                             *)
THEOREM DraftsStayProtected == Spec => DraftsAreProtected
  <1> DEFINE Protected == \A r \in Requests :
                            BasicCommitted(r) /\ ~arcade.public => req[r].by \in {Creator} \cup Moderators
  <1>1. Inv /\ [Next]_vars => [Protected]_vars
    <2> SUFFICES ASSUME Inv, Next, NEW r \in Requests, BasicCommitted(r), ~arcade.public
                 PROVE  req[r].by \in {Creator} \cup Moderators
      BY Zenon
    <2>1. CommitBasic(r)
      BY CommittedBy
    <2>2. CanWrite(req[r].by)
      BY <2>1, Zenon DEF CommitBasic, BasicAllowed
    <2> QED
      BY <2>2 DEF CanWrite
  <1> QED
    BY <1>1, Invariance, PTL DEF Spec, DraftsAreProtected

(* A report sent with a rollback exists only with the rollback, and cites  *)
(* a change before it (admin/rollback.go:188).                             *)
THEOREM RollbacksAreReported == Spec => RollbackReported
  <1> DEFINE Told == Len(reports') > Len(reports) /\ Last(reports').kind = "rollback_report" =>
                       Len(log') = Len(log) + 1 /\ Last(reports').change <= Len(log)
  <1>1. Inv /\ [Next]_vars => [Told]_vars
    <2> SUFFICES ASSUME Inv, [Next]_vars, Len(reports') > Len(reports), Last(reports').kind = "rollback_report"
                 PROVE  Len(log') = Len(log) + 1 /\ Last(reports').change <= Len(log)
      BY Zenon
    <2>1. reports \in Seq(Reports) /\ ReportsStep
      BY ReportsSteps DEF Inv, ReportsInv
    <2>2. Len(reports) \in Nat
      BY <2>1
    <2>3. CASE reports' = reports
      BY <2>2, <2>3
    <2>4. ASSUME NEW i \in 1..Len(reports), reports' = [reports EXCEPT ![i].status = "done"] PROVE FALSE
      <3> DEFINE x == [reports[i] EXCEPT !.status = "done"]
      <3>1. reports' = [reports EXCEPT ![i] = x]
        BY <2>4
      <3>2. x \in Reports
        <4>1. reports[i] \in Reports
          BY <2>1
        <4> QED
          BY <4>1 DEF Reports
      <3> HIDE DEF x
      <3>3. Len(reports') = Len(reports)
        BY <2>1, <3>1, <3>2
      <3> QED
        BY <2>2, <3>3
    <2>5. ASSUME NEW x \in Reports, x.change <= Len(log), reports' = Append(reports, x),
                 x.kind = "rollback_report" => Len(log') = Len(log) + 1
          PROVE  Len(log') = Len(log) + 1 /\ Last(reports').change <= Len(log)
      <3>1. Last(reports') = x
        BY <2>1, <2>5 DEF Last
      <3> QED
        BY <2>5, <3>1
    <2> QED
      BY <2>1, <2>3, <2>4, <2>5, Zenon DEF ReportsStep
  <1> QED
    BY <1>1, Invariance, PTL DEF Spec, RollbackReported

-------------------------------------------------------------------------------
(* The path of a part through the changelog, a function by recursion over  *)
(* the rows                                                                *)

Leg(e) == [from |-> e.from, to |-> e.to]

Onward(p, e, path) == IF e.part = p THEN Append(path, Leg(e)) ELSE path

PathStep(p, L, f, n) == IF n = 0 THEN <<>> ELSE Onward(p, L[n], f[n - 1])

\* f has the path after each of the first k rows of L.
Paths(p, L, f, k) == f = [n \in 0..k |-> PathStep(p, L, f, n)]

LEMMA PathsAre ==
    ASSUME NEW p, NEW L, NEW f, NEW k \in Nat, Paths(p, L, f, k), NEW n \in 0..k
    PROVE  /\ n = 0 => f[n] = <<>>
           /\ n # 0 => /\ n - 1 \in 0..k
                       /\ f[n] = Onward(p, L[n], f[n - 1])
  <1>1. f[n] = PathStep(p, L, f, n)
    <2> HIDE DEF PathStep
    <2> QED
      BY DEF Paths
  <1>2. n # 0 => n - 1 \in 0..k
    OBVIOUS
  <1> QED
    BY <1>1, <1>2, Zenon DEF PathStep

LEMMA NoRows ==
    ASSUME NEW p, NEW L, NEW f, NEW k \in Nat, Paths(p, L, f, k)
    PROVE  f[0] = <<>>
  <1>1. 0 \in 0..k
    OBVIOUS
  <1>2. f[0] = PathStep(p, L, f, 0)
    <2> HIDE DEF PathStep
    <2> QED
      BY <1>1 DEF Paths
  <1> QED
    BY <1>2, Zenon DEF PathStep

(* Rows that are the same lead the same way.                               *)
Alike(L, M, n) == \A i \in 1..n : L[i] = M[i]

LEMMA PathsAgree ==
    ASSUME NEW p, NEW L, NEW M, NEW f, NEW g, NEW j \in Nat, NEW k \in Nat,
           Paths(p, L, f, j), Paths(p, M, g, k),
           NEW n \in Nat, n <= j, n <= k, Alike(L, M, n)
    PROVE  f[n] = g[n]
  <1> DEFINE F == {i \in 0..n : f[i] # g[i]}
  <1> SUFFICES ASSUME F # {} PROVE FALSE
    <2>1. n \in 0..n
      OBVIOUS
    <2> QED
      BY <2>1
  <1>1. IsFiniteSet(F) /\ F \subseteq Int
    <2>1. IsFiniteSet(0..n)
      BY ONLY n \in Nat, FS_Interval
    <2>2. F \subseteq 0..n
      OBVIOUS
    <2> HIDE DEF F
    <2> QED
      BY <2>1, <2>2, FS_Subset
  <1> DEFINE m == Min(F)
  <1>2. m \in F /\ \A i \in F : m <= i
    <2> HIDE DEF F
    <2> QED
      BY <1>1, Extremes
  <1> HIDE DEF m
  <1>3. m \in 0..n /\ f[m] # g[m] /\ m \in 0..j /\ m \in 0..k
    BY <1>2
  <1>4. CASE m = 0
    <2>1. f[0] = <<>> /\ g[0] = <<>>
      BY NoRows
    <2> QED
      BY <1>3, <1>4, <2>1
  <1>5. CASE m # 0
    <2>1. m - 1 \in 0..n /\ m - 1 < m /\ L[m] = M[m]
      BY <1>3, <1>5 DEF Alike
    <2>2. f[m - 1] = g[m - 1]
      BY <1>2, <2>1
    <2>3. f[m] = Onward(p, L[m], f[m - 1])
      BY <1>3, <1>5, PathsAre
    <2>4. g[m] = Onward(p, M[m], g[m - 1])
      BY <1>3, <1>5, PathsAre
    <2> QED
      BY <1>3, <2>1, <2>2, <2>3, <2>4
  <1> QED
    BY <1>4, <1>5

LEMMA PathsMeet ==
    ASSUME NEW p, NEW L, NEW f, NEW g, NEW k \in Nat, Paths(p, L, f, k), Paths(p, L, g, k)
    PROVE  f[k] = g[k]
  <1>1. k <= k /\ Alike(L, L, k)
    BY DEF Alike
  <1> QED
    BY <1>1, PathsAgree

LEMMA PathsExist ==
    ASSUME NEW p, NEW L, NEW k \in Nat
    PROVE  \E f : Paths(p, L, f, k)
  <1> DEFINE F == {i \in 0..k : ~ \E f : Paths(p, L, f, i)}
  <1> SUFFICES ASSUME F # {} PROVE FALSE
    <2>1. k \in 0..k
      OBVIOUS
    <2> QED
      BY <2>1
  <1>1. IsFiniteSet(F) /\ F \subseteq Int
    <2>1. IsFiniteSet(0..k)
      BY ONLY k \in Nat, FS_Interval
    <2>2. F \subseteq 0..k
      OBVIOUS
    <2> HIDE DEF F
    <2> QED
      BY <2>1, <2>2, FS_Subset
  <1> DEFINE m == Min(F)
  <1>2. m \in F /\ \A i \in F : m <= i
    <2> HIDE DEF F
    <2> QED
      BY <1>1, Extremes
  <1> HIDE DEF m
  <1>3. m \in 0..k /\ m \in Nat /\ ~ \E f : Paths(p, L, f, m)
    BY <1>2
  <1>4. CASE m = 0
    <2> DEFINE f == [n \in 0..0 |-> <<>>]
    <2>1. \A n \in 0..0 : PathStep(p, L, f, n) = <<>>
      BY DEF PathStep
    <2>2. f = [n \in 0..0 |-> PathStep(p, L, f, n)]
      <3> HIDE DEF PathStep
      <3> QED
        BY <2>1
    <2> HIDE DEF f
    <2>3. Paths(p, L, f, 0)
      BY <2>2, Zenon DEF Paths
    <2> QED
      BY <1>3, <1>4, <2>3, Zenon
  <1>5. CASE m # 0
    <2>1. m - 1 \in 0..k /\ m - 1 \in Nat /\ ~ (m <= m - 1)
      BY <1>3, <1>5
    <2>2. PICK g : Paths(p, L, g, m - 1)
      <3>1. m - 1 \notin F
        BY <1>2, <2>1
      <3> QED
        BY <2>1, <3>1
    <2> DEFINE f == [n \in 0..m |-> IF n = m THEN PathStep(p, L, g, m) ELSE g[n]]
    <2>3. \A n \in 0..(m - 1) : f[n] = g[n] /\ n \in 0..m
      BY <1>3, <1>5
    <2>4. ASSUME NEW n \in 0..m PROVE f[n] = PathStep(p, L, f, n)
      <3>1. CASE n = 0
        <4>1. n \in 0..(m - 1)
          BY <1>3, <1>5, <3>1
        <4>2. g[n] = <<>>
          <5>1. g[0] = <<>>
            BY <2>1, <2>2, NoRows
          <5> QED
            BY <3>1, <5>1
        <4> HIDE DEF f
        <4> QED
          BY <2>3, <3>1, <4>1, <4>2 DEF PathStep
      <3>2. CASE n # 0
        <4>1. n - 1 \in 0..(m - 1)
          BY <1>3, <3>2
        <4>2. f[n - 1] = g[n - 1]
          <5> HIDE DEF f
          <5> QED
            BY <2>3, <4>1
        <4>3. PathStep(p, L, f, n) = PathStep(p, L, g, n)
          <5> HIDE DEF f
          <5> QED
            BY <4>2, Zenon DEF PathStep
        <4>4. f[n] = PathStep(p, L, g, n)
          <5>1. CASE n = m
            <6>1. f[m] = PathStep(p, L, g, m)
              <7> HIDE DEF PathStep
              <7> QED
                BY <1>3
            <6> HIDE DEF f
            <6> QED
              BY <5>1, <6>1
          <5>2. CASE n # m
            <6>1. n \in 0..(m - 1)
              BY <1>3, <5>2
            <6>2. g[n] = PathStep(p, L, g, n)
              <7> HIDE DEF PathStep
              <7> QED
                BY <2>2, <6>1 DEF Paths
            <6> HIDE DEF f
            <6> QED
              BY <2>3, <6>1, <6>2
          <5> QED
            BY <5>1, <5>2
        <4> QED
          BY <4>3, <4>4
      <3> QED
        BY <3>1, <3>2
    <2>5. f = [n \in 0..m |-> PathStep(p, L, f, n)]
      <3> DEFINE S(n) == IF n = m THEN PathStep(p, L, g, m) ELSE g[n]
                 R(n) == PathStep(p, L, f, n)
      <3>1. \A n \in 0..m : S(n) = R(n)
        <4>1. \A n \in 0..m : f[n] = S(n)
          <5> HIDE DEF S
          <5>1. f = [n \in 0..m |-> S(n)]
            BY Zenon DEF S
          <5> HIDE DEF f
          <5> QED
            BY <5>1
        <4> HIDE DEF f, S
        <4> QED
          BY <2>4, <4>1
      <3>2. f = [n \in 0..m |-> S(n)]
        BY Zenon
      <3> HIDE DEF S, R
      <3>3. f = [n \in 0..m |-> R(n)]
        <4> HIDE DEF f
        <4> QED
          BY <3>1, <3>2
      <3> QED
        BY <3>3, Zenon DEF R
    <2> HIDE DEF f
    <2>6. Paths(p, L, f, m)
      BY <2>5, Zenon DEF Paths
    <2> QED
      BY <1>3, <2>6
  <1> QED
    BY <1>4, <1>5

(* The path of p through the rows L; a row about p adds a leg to it, any   *)
(* other row leaves it.                                                    *)
PathIn(p, L) == (CHOOSE h : Paths(p, L, h, Len(L)))[Len(L)]

LEMMA PathIs ==
    ASSUME NEW p, NEW L, NEW f, Len(L) \in Nat, Paths(p, L, f, Len(L))
    PROVE  PathIn(p, L) = f[Len(L)]
  <1> DEFINE h == CHOOSE h : Paths(p, L, h, Len(L))
  <1>1. Paths(p, L, h, Len(L))
    BY Zenon
  <1>2. PathIn(p, L) = h[Len(L)]
    BY Zenon DEF PathIn
  <1> HIDE DEF h
  <1>3. h[Len(L)] = f[Len(L)]
    BY <1>1, PathsMeet
  <1> QED
    BY <1>2, <1>3

LEMMA NoPath == ASSUME NEW p PROVE PathIn(p, <<>>) = <<>>
  <1>1. Len(<<>>) = 0
    OBVIOUS
  <1>2. PICK f : Paths(p, <<>>, f, 0)
    BY PathsExist
  <1>3. PathIn(p, <<>>) = f[0]
    BY <1>1, <1>2, PathIs
  <1> QED
    BY <1>2, <1>3, NoRows

LEMMA PathGrows ==
    ASSUME NEW p, NEW L, NEW M, NEW k \in Nat, Len(L) = k, Len(M) = k + 1,
           Alike(L, M, k)
    PROVE  PathIn(p, M) = Onward(p, M[k + 1], PathIn(p, L))
  <1> DEFINE m == k + 1
  <1>1. m \in Nat /\ m # 0 /\ m \in 0..m /\ m - 1 = k
    OBVIOUS
  <1> HIDE DEF m
  <1>2. PICK f : Paths(p, L, f, k)
    BY PathsExist
  <1>3. PICK g : Paths(p, M, g, m)
    BY <1>1, PathsExist
  <1>4. PathIn(p, L) = f[k]
    BY <1>2, PathIs
  <1>5. PathIn(p, M) = g[m]
    <2>1. Len(M) = m
      BY DEF m
    <2> QED
      BY <1>1, <1>3, <2>1, PathIs
  <1>6. f[k] = g[k]
    <2>1. k <= k /\ k <= m
      BY DEF m
    <2> QED
      BY <1>1, <1>2, <1>3, <2>1, PathsAgree
  <1>7. g[m] = Onward(p, M[m], g[m - 1])
    BY <1>1, <1>3, PathsAre
  <1> QED
    BY <1>1, <1>4, <1>5, <1>6, <1>7, Zenon DEF m

LEMMA PathOfIs == ASSUME NEW p PROVE PathOf(p) = PathIn(p, log)
  BY Zenon DEF PathOf, PathIn, Paths, PathStep, Onward, Leg
(* Nothing is kept of an arcade before its first edit.                     *)
LEMMA HistoryBegins == Init => \A p \in AllParts : SectionHistory(p)!HInit
  <1> SUFFICES ASSUME Init, NEW p \in AllParts PROVE SectionHistory(p)!HInit
    OBVIOUS
  <1>1. values[p] = <<>> /\ ptr[p] = 0
    BY DEF Init
  <1>2. PathOf(p) = <<>>
    <2>1. log = <<>>
      BY DEF Init
    <2> QED
      BY <2>1, PathOfIs, NoPath
  <1> QED
    BY <1>1, <1>2, Zenon DEF SectionHistory!HInit
LEMMA PathOfNext == ASSUME NEW p PROVE PathOf(p)' = PathIn(p, log')
  BY Zenon DEF PathOf, PathIn, Paths, PathStep, Onward, Leg

LEMMA PathMoves ==
    ASSUME PartsInv, NEW p \in AllParts, NEW to \in Nat \ {0}, NEW by \in Who, Move(p, to, by),
           NEW q \in AllParts
    PROVE  PathOf(q)' = IF q = p THEN Append(PathOf(q), [from |-> ptr[p], to |-> to]) ELSE PathOf(q)
  <1> DEFINE row == [part |-> p, from |-> ptr[p], to |-> to, by |-> by]
             k == Len(log)
  <1>1. row \in Rows /\ row.part = p /\ Leg(row) = [from |-> ptr[p], to |-> to]
    BY DEF PartsInv, Rows, Leg
  <1> HIDE DEF row
  <1>2. log \in Seq(Rows) /\ log' = Append(log, row)
    BY DEF PartsInv, Move, row
  <1>3. /\ k \in Nat /\ Len(log') = k + 1 /\ log'[k + 1] = row
        /\ Alike(log, log', k)
    BY <1>1, <1>2 DEF Alike
  <1> HIDE DEF k
  <1>4. PathIn(q, log') = Onward(q, log'[k + 1], PathIn(q, log))
    <2>1. Len(log) = k
      BY DEF k
    <2> QED
      BY <1>3, <2>1, PathGrows
  <1>5. PathIn(q, log') = IF q = p THEN Append(PathIn(q, log), [from |-> ptr[p], to |-> to])
                                   ELSE PathIn(q, log)
    BY <1>1, <1>3, <1>4, Zenon DEF Onward
  <1> QED
    BY <1>5, PathOfIs, PathOfNext, Zenon

(* One part replaces or returns; the others have nothing to tell.          *)
LEMMA HistoryStep ==
    ASSUME PartsInv, PartsStep, NEW q \in AllParts
    PROVE  SectionHistory(q)!HNext \/ UNCHANGED SectionHistory(q)!hvars
  <1>0. values[q] \in Seq(Values(q)) /\ Len(values[q]) \in Nat /\ ptr[q] \in Nat
    <2> HIDE DEF Values
    <2> QED
      BY DEF PartsInv
  <1>1. ASSUME NEW p \in AllParts, NEW by \in Who, NEW v \in Values(p), Replace(p, v, by)
        PROVE  SectionHistory(q)!HNext \/ UNCHANGED SectionHistory(q)!hvars
    <2> HIDE DEF Values
    <2>1. Move(p, Len(values[p]) + 1, by) /\ Len(values[p]) + 1 \in Nat \ {0}
      <3>1. Len(values[p]) \in Nat
        BY DEF PartsInv
      <3> QED
        BY <1>1, <3>1 DEF Replace
    <2>2. PathOf(q)' = IF q = p THEN Append(PathOf(q), [from |-> ptr[p], to |-> Len(values[p]) + 1])
                                ELSE PathOf(q)
      BY <2>1, PathMoves
    <2>3. /\ values'[p] = Append(values[p], v) /\ ptr'[p] = Len(values[p]) + 1
          /\ Len(values'[p]) = Len(values[p]) + 1
          /\ \A r \in AllParts \ {p} : values'[r] = values[r] /\ ptr'[r] = ptr[r]
      BY <1>1, ReplaceKeeps
    <2>4. CASE q = p
      <3>1. \A i \in 1..Len(values[p]) : values'[p][i] = values[p][i]
        BY <1>0, <2>3, <2>4
      <3>2. SectionHistory(p)!MoveTo(Len(values[p]) + 1)
        BY <2>2, <2>3, <2>4, Zenon DEF SectionHistory!MoveTo
      <3>3. SectionHistory(p)!HNext
        BY <2>3, <3>1, <3>2, Zenon DEF SectionHistory!HNext, SectionHistory!Replace
      <3> QED
        BY <2>4, <3>3
    <2>5. CASE q # p
      BY <2>2, <2>3, <2>5, Zenon DEF SectionHistory!hvars
    <2> QED
      BY <2>4, <2>5
  <1>2. ASSUME NEW p \in AllParts, NEW by \in Users, NEW to \in 1..Len(values[p]), Returned(p, to, by)
        PROVE  SectionHistory(q)!HNext \/ UNCHANGED SectionHistory(q)!hvars
    <2>1. Move(p, to, by) /\ values' = values /\ ptr[p] # 0 /\ to # ptr[p]
      BY <1>2 DEF Returned
    <2>2. to \in Nat \ {0} /\ by \in Who
      <3>1. Len(values[p]) \in Nat
        <4> HIDE DEF Values
        <4> QED
          BY DEF PartsInv
      <3> QED
        BY <3>1 DEF Who
    <2>3. PathOf(q)' = IF q = p THEN Append(PathOf(q), [from |-> ptr[p], to |-> to]) ELSE PathOf(q)
      BY <2>1, <2>2, PathMoves
    <2>4. ptr'[p] = to /\ \A r \in AllParts \ {p} : ptr'[r] = ptr[r]
      BY <2>1 DEF Move, PartsInv
    <2>5. CASE q = p
      <3>1. SectionHistory(p)!MoveTo(to) /\ to \in 1..Len(values[p]) \ {ptr[p]}
        <4>1. SectionHistory(p)!MoveTo(to)
          BY <2>3, <2>4, <2>5, Zenon DEF SectionHistory!MoveTo
        <4> QED
          BY <2>1, <4>1
      <3>2. values'[p] = values[p]
        BY <2>1
      <3>3. SectionHistory(p)!HNext
        BY <2>1, <3>1, <3>2, Zenon DEF SectionHistory!HNext, SectionHistory!Return
      <3> QED
        BY <2>5, <3>3
    <2>6. CASE q # p
      BY <2>1, <2>3, <2>4, <2>6, Zenon DEF SectionHistory!hvars
    <2> QED
      BY <2>5, <2>6
  <1>3. CASE UNCHANGED <<values, ptr, log>>
    <2>1. PathOf(q)' = PathOf(q)
      BY <1>3, PathOfIs, PathOfNext, Zenon
    <2> QED
      BY <1>3, <2>1, Zenon DEF SectionHistory!hvars
  <1> QED
    BY <1>1, <1>2, <1>3, Zenon DEF PartsStep, Replaces, Returns

(* Each part implements the history of a part: every revision is kept as   *)
(* it was written, and its rows of the changelog lead from the empty part  *)
(* to the present revision, whatever edits, stale commits, rollbacks and   *)
(* backfills did (arcade_update_helper.go:66).                             *)
THEOREM HistoriesStay == Spec => HistoriesKept
  <1>1. Init => \A p \in AllParts : SectionHistory(p)!HInit
    BY HistoryBegins
  <1>2. Inv /\ [Next]_vars
          => \A p \in AllParts : SectionHistory(p)!HNext \/ UNCHANGED SectionHistory(p)!hvars
    <2> SUFFICES ASSUME Inv, [Next]_vars, NEW p \in AllParts
                 PROVE  SectionHistory(p)!HNext \/ UNCHANGED SectionHistory(p)!hvars
      OBVIOUS
    <2>1. PartsInv /\ PartsStep
      BY PartsSteps DEF Inv
    <2> QED
      BY <2>1, HistoryStep
  <1> QED
    BY <1>1, <1>2, Invariance, PTL DEF Spec, HistoriesKept

-------------------------------------------------------------------------------
(* What the changelog tells of the base of a request                       *)

\* Row n brought revision v of the basics.
Brought(n, v) == n \in 1..Len(log) /\ log[n].part = "basic" /\ log[n].to = v

\* Its base had been replaced by what the request read, and is present only
\* if it was brought back since.
Overtaken(q) ==
    \E i, k \in Nat :
        /\ i < k /\ Brought(i, q.base) /\ Brought(k, q.read)
        /\ ptr["basic"] = q.base => \E j \in Nat : k < j /\ Brought(j, q.base)

Traced ==
    /\ \A v \in 1..Len(values["basic"]) : \E n \in Nat : Brought(n, v)
    /\ Exists => \E k \in Nat : /\ Brought(k, ptr["basic"])
                                /\ \A n \in 1..Len(log) : log[n].part = "basic" => n <= k
    /\ \A r \in Requests :
         req[r].kind = "basic" /\ req[r].base \notin {0, req[r].read} => Overtaken(req[r])

\* The basics stay, or the row that is added brings the revision now present.
LogGrows ==
    /\ Len(log) \in Nat /\ Len(log') \in Nat /\ Len(log) <= Len(log') /\ Len(log') <= Len(log) + 1
    /\ \A n \in 1..Len(log) : log'[n] = log[n]

BasicsStay ==
    /\ ptr'["basic"] = ptr["basic"] /\ values'["basic"] = values["basic"]
    /\ Len(log') # Len(log) => log'[Len(log')].part # "basic"

BasicsMove ==
    /\ Len(log') # Len(log) /\ log'[Len(log')].part = "basic"
    /\ log'[Len(log')].to = ptr'["basic"]
    /\ \/ values'["basic"] = values["basic"]
       \/ /\ Len(values'["basic"]) = Len(values["basic"]) + 1
          /\ ptr'["basic"] = Len(values["basic"]) + 1

BasicsStep == LogGrows /\ (BasicsStay \/ BasicsMove)

LEMMA RowAdded ==
    ASSUME PartsInv, NEW p \in AllParts, NEW to, NEW by, Move(p, to, by)
    PROVE  /\ Len(log) \in Nat /\ Len(log') = Len(log) + 1
           /\ \A n \in 1..Len(log) : log'[n] = log[n]
           /\ log'[Len(log')].part = p /\ log'[Len(log')].to = to
           /\ ptr'[p] = to /\ \A q \in AllParts \ {p} : ptr'[q] = ptr[q]
  <1> DEFINE row == [part |-> p, from |-> ptr[p], to |-> to, by |-> by]
  <1>1. row.part = p /\ row.to = to
    OBVIOUS
  <1> HIDE DEF row
  <1>2. log \in Seq(Rows) /\ log' = Append(log, row)
    BY DEF PartsInv, Move, row
  <1>3. Len(log) \in Nat /\ Len(log') = Len(log) + 1 /\ log'[Len(log) + 1] = row
        /\ \A n \in 1..Len(log) : log'[n] = log[n]
    BY <1>2
  <1>4. ptr'[p] = to /\ \A q \in AllParts \ {p} : ptr'[q] = ptr[q]
    BY DEF PartsInv, Move
  <1> QED
    BY <1>1, <1>3, <1>4

LEMMA BasicsSteps ==
    ASSUME Inv, [Next]_vars
    PROVE  BasicsStep
  <1>0. PartsInv /\ PartsStep
    BY PartsSteps DEF Inv
  <1>1. ASSUME NEW p \in AllParts, NEW by \in Who, NEW v \in Values(p), Replace(p, v, by)
        PROVE  BasicsStep
    <2>1. Move(p, Len(values[p]) + 1, by)
      BY <1>1 DEF Replace
    <2>2. /\ Len(values'[p]) = Len(values[p]) + 1
          /\ \A q \in AllParts \ {p} : values'[q] = values[q]
      <3> HIDE DEF Values
      <3> QED
        BY <1>0, <1>1, ReplaceKeeps
    <2>3. /\ Len(log) \in Nat /\ Len(log') = Len(log) + 1
          /\ \A n \in 1..Len(log) : log'[n] = log[n]
          /\ log'[Len(log')].part = p /\ log'[Len(log')].to = Len(values[p]) + 1
          /\ ptr'[p] = Len(values[p]) + 1 /\ \A q \in AllParts \ {p} : ptr'[q] = ptr[q]
      BY <1>0, <2>1, RowAdded
    <2>4. Len(log') \in Nat /\ Len(log) <= Len(log') /\ Len(log') <= Len(log) + 1 /\ Len(log') # Len(log)
      BY <2>3
    <2>5. CASE p = "basic"
      BY <2>2, <2>3, <2>4, <2>5, Zenon DEF BasicsStep, LogGrows, BasicsStay, BasicsMove
    <2>6. CASE p # "basic"
      BY <2>2, <2>3, <2>4, <2>6, PartNames, Zenon DEF BasicsStep, LogGrows, BasicsStay, BasicsMove
    <2> QED
      BY <2>5, <2>6
  <1>2. ASSUME NEW p \in AllParts, NEW by \in Users, NEW to \in 1..Len(values[p]), Returned(p, to, by)
        PROVE  BasicsStep
    <2>1. Move(p, to, by) /\ values' = values
      BY <1>2 DEF Returned
    <2>2. /\ Len(log) \in Nat /\ Len(log') = Len(log) + 1
          /\ \A n \in 1..Len(log) : log'[n] = log[n]
          /\ log'[Len(log')].part = p /\ log'[Len(log')].to = to
          /\ ptr'[p] = to /\ \A q \in AllParts \ {p} : ptr'[q] = ptr[q]
      BY <1>0, <2>1, RowAdded
    <2>3. Len(log') \in Nat /\ Len(log) <= Len(log') /\ Len(log') <= Len(log) + 1 /\ Len(log') # Len(log)
      BY <2>2
    <2>4. CASE p = "basic"
      BY <2>1, <2>2, <2>3, <2>4, Zenon DEF BasicsStep, LogGrows, BasicsStay, BasicsMove
    <2>5. CASE p # "basic"
      BY <2>1, <2>2, <2>3, <2>5, PartNames, Zenon DEF BasicsStep, LogGrows, BasicsStay, BasicsMove
    <2> QED
      BY <2>4, <2>5
  <1>3. CASE UNCHANGED <<values, ptr, log>>
    <2>1. Len(log) \in Nat /\ Len(log) <= Len(log) /\ Len(log) <= Len(log) + 1
      BY <1>0 DEF PartsInv
    <2> QED
      BY <1>3, <2>1, Zenon DEF BasicsStep, LogGrows, BasicsStay, BasicsMove
  <1> QED
    BY <1>0, <1>1, <1>2, <1>3, Zenon DEF PartsStep, Replaces, Returns

LEMMA BroughtStays ==
    ASSUME LogGrows, NEW n, NEW v, Brought(n, v)
    PROVE  Brought(n, v)'
  BY DEF LogGrows, Brought

LEMMA BroughtNow ==
    ASSUME LogGrows, BasicsMove, NEW v, ptr'["basic"] = v, NEW k, k = Len(log')
    PROVE  Brought(k, v)' /\ k \in Nat /\ Len(log) < k
  <1>1. k \in 1..k /\ k \in Nat /\ Len(log) < k
    BY DEF LogGrows, BasicsMove
  <1> QED
    BY <1>1 DEF BasicsMove, Brought

LEMMA OvertakenBegins ==
    ASSUME Traced, Exists, NEW q \in Edits, q.read = ptr["basic"],
           q.base \in 1..Len(values["basic"]), q.base # q.read
    PROVE  Overtaken(q)
  <1>1. PICK k \in Nat : Brought(k, q.read) /\ \A n \in 1..Len(log) : log[n].part = "basic" => n <= k
    BY DEF Traced
  <1>2. PICK i \in Nat : Brought(i, q.base)
    BY DEF Traced
  <1>3. i < k
    BY <1>1, <1>2 DEF Brought
  <1> QED
    BY <1>1, <1>2, <1>3, Zenon DEF Overtaken

LEMMA OvertakenStays ==
    ASSUME BasicsStep, NEW q, Overtaken(q)
    PROVE  Overtaken(q)'
  <1>0. LogGrows
    BY DEF BasicsStep
  <1>1. PICK i \in Nat, k \in Nat :
           /\ i < k /\ Brought(i, q.base) /\ Brought(k, q.read)
           /\ ptr["basic"] = q.base => \E j \in Nat : k < j /\ Brought(j, q.base)
    BY Zenon DEF Overtaken
  <1>2. Brought(i, q.base)' /\ Brought(k, q.read)'
    BY <1>0, <1>1, BroughtStays
  <1>3. ASSUME ptr'["basic"] = q.base PROVE \E j \in Nat : k < j /\ Brought(j, q.base)'
    <2>1. CASE BasicsStay
      <3>1. PICK j \in Nat : k < j /\ Brought(j, q.base)
        BY <1>1, <1>3, <2>1 DEF BasicsStay
      <3>2. Brought(j, q.base)'
        BY <1>0, <3>1, BroughtStays
      <3> QED
        BY <3>1, <3>2
    <2>2. CASE BasicsMove
      <3>1. PICK j : j = Len(log')
        OBVIOUS
      <3>2. Brought(j, q.base)' /\ j \in Nat /\ Len(log) < j
        BY <1>0, <1>3, <2>2, <3>1, BroughtNow
      <3>3. k <= Len(log) /\ Len(log) \in Nat
        BY <1>0, <1>1 DEF Brought, LogGrows
      <3>4. k < j
        BY ONLY <3>2, <3>3, k \in Nat
      <3> QED
        BY <3>2, <3>4
    <2> QED
      BY <2>1, <2>2 DEF BasicsStep
  <1> QED
    BY <1>1, <1>2, <1>3, Zenon DEF Overtaken

LEMMA TracedBegins == Init => Traced
  <1> SUFFICES ASSUME Init PROVE Traced
    OBVIOUS
  <1>1. Len(values["basic"]) = 0 /\ ptr["basic"] = 0
    BY PartNames DEF Init
  <1>2. \A r \in Requests : req[r].kind # "basic"
    BY DEF Init, Idle
  <1> QED
    BY <1>1, <1>2 DEF Traced, Exists

LEMMA TracedKept ==
    ASSUME Inv, Traced, [Next]_vars
    PROVE  Traced'
  <1>0. BasicsStep /\ LogGrows /\ PartsInv /\ ReqStep /\ Len(values["basic"]) \in Nat
    BY BasicsSteps, ReqSteps, PartNames DEF Inv, PartsInv, BasicsStep
  <1>1. ASSUME NEW v \in 1..Len(values'["basic"]) PROVE \E n \in Nat : Brought(n, v)'
    <2>1. CASE v \in 1..Len(values["basic"])
      <3>1. PICK n \in Nat : Brought(n, v)
        BY <2>1 DEF Traced
      <3> QED
        BY <1>0, <3>1, BroughtStays
    <2>2. CASE v \notin 1..Len(values["basic"])
      <3>1. BasicsMove /\ ptr'["basic"] = v
        <4>1. ~BasicsStay /\ BasicsMove
          BY <1>0, <1>1, <2>2 DEF BasicsStep, BasicsStay
        <4>2. Len(values'["basic"]) = Len(values["basic"]) + 1 /\ ptr'["basic"] = Len(values["basic"]) + 1
          BY <1>1, <2>2, <4>1 DEF BasicsMove
        <4> QED
          BY <1>0, <1>1, <2>2, <4>1, <4>2
      <3>2. PICK n : n = Len(log')
        OBVIOUS
      <3> QED
        BY <1>0, <3>1, <3>2, BroughtNow
    <2> QED
      BY <2>1, <2>2
  <1>2. ASSUME Exists'
        PROVE  \E k \in Nat : /\ Brought(k, ptr["basic"])'
                              /\ \A n \in 1..Len(log') : log'[n].part = "basic" => n <= k
    <2>1. CASE BasicsStay
      <3>1. ptr'["basic"] = ptr["basic"] /\ Exists
        BY <1>2, <2>1 DEF BasicsStay, Exists
      <3>2. PICK k \in Nat : /\ Brought(k, ptr["basic"])
                             /\ \A n \in 1..Len(log) : log[n].part = "basic" => n <= k
        BY <3>1 DEF Traced
      <3>3. PICK v : v = ptr["basic"]
        OBVIOUS
      <3>4. Brought(k, v)'
        BY <1>0, <3>2, <3>3, BroughtStays
      <3>5. Brought(k, ptr["basic"])'
        BY <3>1, <3>3, <3>4 DEF Brought
      <3>6. ASSUME NEW n \in 1..Len(log'), log'[n].part = "basic" PROVE n <= k
        BY <1>0, <2>1, <3>2, <3>6 DEF BasicsStay, LogGrows
      <3> QED
        BY <3>5, <3>6
    <2>2. CASE BasicsMove
      <3>1. PICK k : k = Len(log')
        OBVIOUS
      <3>2. PICK v : v = ptr'["basic"]
        OBVIOUS
      <3>3. Brought(k, v)' /\ k \in Nat
        BY <1>0, <2>2, <3>1, <3>2, BroughtNow
      <3>4. Brought(k, ptr["basic"])'
        BY <3>2, <3>3 DEF Brought
      <3> QED
        BY <3>1, <3>3, <3>4
    <2> QED
      BY <1>0, <2>1, <2>2 DEF BasicsStep
  <1>3. ASSUME NEW r \in Requests, NEW q, q = req'[r], q.kind = "basic", q.base \notin {0, q.read}
        PROVE  Overtaken(q)'
    <2>1. q \in Edits
      <3>1. ReqInv'
        BY ReqKept
      <3>2. q \in {Idle} \cup Edits \cup Publications
        BY <1>3, <3>1 DEF ReqInv
      <3>3. Idle.kind # "basic" /\ \A x \in Publications : x.kind # "basic"
        BY DEF Idle, Publications
      <3> QED
        BY <1>3, <3>2, <3>3
    <2>2. Overtaken(q)
      <3>1. CASE q = req[r]
        BY <1>3, <3>1 DEF Traced
      <3>2. CASE q # req[r]
        <4>1. Exists /\ q.read = ptr["basic"] /\ q.base <= Len(values["basic"])
          <5>1. PICK s \in Requests, x \in {Idle} \cup Edits \cup Publications :
                  /\ req' = [req EXCEPT ![s] = x]
                  /\ x.kind = "basic" => /\ Exists /\ x.read = ptr["basic"]
                                         /\ x.base <= Len(values["basic"])
            BY <1>0, <1>3, <3>2, Zenon DEF ReqStep
          <5>2. x = q
            <6> DEFINE All == {Idle} \cup Edits \cup Publications
            <6> HIDE DEF All
            <6>1. req \in [Requests -> All]
              BY DEF Inv, ReqInv, All
            <6> QED
              BY <1>3, <3>2, <5>1, <6>1
          <5> QED
            BY <1>3, <5>1, <5>2
        <4>2. q.base \in Nat
          BY <2>1 DEF Edits
        <4>3. q.base \in 1..Len(values["basic"])
          BY <1>0, <1>3, <4>1, <4>2
        <4> QED
          BY <1>3, <2>1, <4>1, <4>3, OvertakenBegins
      <3> QED
        BY <3>1, <3>2
    <2> QED
      BY <1>0, <2>2, OvertakenStays
  <1>4. ASSUME NEW r \in Requests, req'[r].kind = "basic", req'[r].base \notin {0, req'[r].read}
        PROVE  Overtaken(req[r])'
    <2>1. PICK q : q = req'[r]
      OBVIOUS
    <2>2. Overtaken(q)'
      BY <1>3, <1>4, <2>1
    <2> QED
      BY <2>1, <2>2
  <1> QED
    BY <1>1, <1>2, <1>4 DEF Traced

(* A base that is not what the request read is accepted only after it was  *)
(* replaced by that and brought back by a rollback: the changelog shows    *)
(* the three rows in this order (basic/update.go:243, 288).                *)
THEOREM BasesMustReturn == Spec => BasesReturn
  <1> DEFINE Return == \A r \in Requests :
                         BasicCommitted(r) /\ req[r].base \notin {0, req[r].read} =>
                            \E i, k, j \in 1..Len(log) :
                               /\ i < k /\ k < j
                               /\ \A n \in {i, k, j} : log[n].part = "basic"
                               /\ log[i].to = req[r].base /\ log[k].to = req[r].read
                               /\ log[j].to = req[r].base
  <1>1. Inv /\ Traced /\ [Next]_vars => [Return]_vars
    <2> SUFFICES ASSUME Inv, Traced, Next, NEW r \in Requests, BasicCommitted(r),
                        req[r].base \notin {0, req[r].read}
                 PROVE  \E i, k, j \in 1..Len(log) :
                           /\ i < k /\ k < j
                           /\ \A n \in {i, k, j} : log[n].part = "basic"
                           /\ log[i].to = req[r].base /\ log[k].to = req[r].read
                           /\ log[j].to = req[r].base
      BY Zenon
    <2>1. CommitBasic(r) /\ req[r].kind = "basic"
      BY CommittedBy, Zenon DEF BasicCommitted
    <2>2. BasicAllowed(req[r])
      BY <2>1, Zenon DEF CommitBasic
    <2>3. ptr["basic"] = req[r].base
      BY <2>2 DEF BasicAllowed
    <2>4. Overtaken(req[r])
      BY <2>1, Zenon DEF Traced
    <2>5. PICK i \in Nat, k \in Nat, j \in Nat :
             /\ i < k /\ Brought(i, req[r].base) /\ Brought(k, req[r].read)
             /\ k < j /\ Brought(j, req[r].base)
      BY <2>3, <2>4, Zenon DEF Overtaken
    <2> QED
      BY <2>5, Zenon DEF Brought
  <1>2. Inv /\ Traced /\ [Next]_vars => Traced'
    BY TracedKept
  <1>3. Init => Traced
    BY TracedBegins
  <1> QED
    BY <1>1, <1>2, <1>3, Invariance, PTL DEF Spec, BasesReturn

(* What the run of the sections checks of edits, put together.             *)
THEOREM EditsStayExact == Spec => EditsAreExact
  BY ReadBases, BasesMustReturn, DraftsStayProtected, RollbacksAreReported, HistoriesStay, PTL DEF EditsAreExact
===============================================================================
