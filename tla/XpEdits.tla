------------------------------- MODULE XpEdits -------------------------------
(***************************************************************************)
(* The awards of service/xp/xp.go for the other parts of an arcade: edits  *)
(* with a cooldown, photos with a cap, and what a draft's creator gets for *)
(* everything done before publication.                                     *)
(***************************************************************************)
EXTENDS XpWindows, Sequences, SequencesExt, Folds

CONSTANT PhotoCap   \* the most that photos bring in a window, 10

ASSUME PhotoCapAssumption == PhotoCap \in Nat

EditExp   == 2
PublicExp == 5

-------------------------------------------------------------------------------
(* The kind of a grant names its time; the kind of a back-fill does not,   *)
(* and back-fills do not start a cooldown.                                 *)
EditGrants(x, u, part) ==
    {e \in x.log : e.user = u /\ e.kind[1] = "edit" /\ e.kind[2] = part /\ Len(e.kind) = 3}

(* AwardArcadeEditExpTx.                                                   *)
AwardEdit(x, u, part, now) ==
    IF Recent(EditGrants(x, u, part), now) # {}
      THEN x
      ELSE Award(x, u, <<"edit", part, now>>, EditExp, now)

-------------------------------------------------------------------------------
(* Photos: one grant for each, a campaign doubles the grant and the cap.   *)
PhotoGrants(x, u) == {e \in x.log : e.user = u /\ e.kind[1] = "photo"}

PhotoLimit(target) == IF target THEN 2 * PhotoCap ELSE PhotoCap

(* The photos are paid in the order of their numbers.                      *)
AwardPhotos(x, u, ids, target, now) ==
    LET each  == IF target THEN 2 * EditExp ELSE EditExp
        spent == Total(Recent(PhotoGrants(x, u), now))
        Grant(id, acc) ==
            LET kind == <<"photo", id>>
                diff == Min({each, acc.left}) IN
            IF diff = 0 \/ Has(acc.x, u, kind) THEN acc
            ELSE [x |-> Award(acc.x, u, kind, diff, now), left |-> acc.left - diff]
    IN  MapThenFoldSet(Grant, [x |-> x, left |-> Max({PhotoLimit(target) - spent, 0})],
                       LAMBDA id : id, Max, ids).x

-------------------------------------------------------------------------------
(* Publication.  "log" is the changelog of the arcade: each part the user  *)
(* changed counts once, photos not at all.                                 *)
BackfillParts(log, u) == {e.part : e \in {f \in Range(log) : f.by = u}} \cap
                         {"basic", "game", "hour", "sns", "gtk"}

BackfillKinds(log, u) == {<<"edit", p>> : p \in BackfillParts(log, u)}

(* What publication pays: for itself, and for each part once.              *)
Dues(kinds) == {[kind |-> k, diff |-> EditExp] : k \in kinds}
                 \cup {[kind |-> <<"public">>, diff |-> PublicExp]}

(* Mutant: what was paid before is paid again under a new kind.            *)
AwardPublication_Anew(x, u, log, now) ==
    FoldSet(LAMBDA k, y : Award(y, u, k.kind, k.diff, now), x,
            Dues({<<"edit", p, "again", now>> : p \in BackfillParts(log, u)}))

AwardPublication(x, u, log, now) ==
    FoldSet(LAMBDA k, y : Award(y, u, k.kind, k.diff, now), x, Dues(BackfillKinds(log, u)))

(* PreviewArcadePublicExp: what publication would bring.                   *)
PreviewPublication(x, u, log) ==
    LET missing == {k \in BackfillKinds(log, u) : ~Has(x, u, k)} IN
    IF u \notin Named THEN 0
    ELSE (IF Has(x, u, <<"public">>) THEN 0 ELSE PublicExp) + EditExp * Cardinality(missing)
===============================================================================
