----------------------------- MODULE MCArcadeGames -----------------------------
(* Small instances of ArcadeGames: a behaviour is about the states that      *)
(* deltas, bulk updates and rollbacks of moderators lead to, or about what   *)
(* the creator and a visitor earn with deltas over three windows of time.    *)
EXTENDS ArcadeGames, TLC

CONSTANTS ann, bob, cat, dan, v1, v2, w1, cab, none

MCContent(v, c) == [version |-> v, cabinet |-> c, detail |-> 1]

\* Two versions of one series, and another series, with or without the cabinet.
MCWanted == {MCContent(v1, cab), MCContent(v2, cab), MCContent(v2, none), MCContent(w1, cab)}
MCSeriesOf == [v \in {v1, v2, w1} |-> IF v = w1 THEN "other" ELSE "one"]
MCSymmetry == Permutations({ann, bob})
MCSupports == {<<v1, cab>>, <<v2, cab>>, <<w1, cab>>}

VARIABLE focus

MCInit == Init /\ focus \in {"states", "xp"}

MCWriters == IF focus = "states" THEN {ann, bob} ELSE {cat, dan}

\* A delta of one item, or of one that is modified and one that is added,
\* with the same content or with the first version.
MCDelta(u) ==
    \E base \in 0..Len(batch) :
       \/ \E w \in Wanted : UpdateArcadeGame(u, base, <<w>>, <<>>, {})
       \/ \E e \in Entries(Rows(game)) :
            \/ UpdateArcadeGame(u, base, <<>>, <<>>, {e})
            \/ \E w \in Wanted : UpdateArcadeGame(u, base, <<>>, e :> w, {})
            \/ \E w \in Wanted : \E v \in {w, MCContent(v1, cab)} :
                  UpdateArcadeGame(u, base, <<v>>, e :> w, {})

MCNext ==
    /\ UNCHANGED focus
    /\ \/ /\ Len(batch) < MaxBatches
          /\ \E u \in MCWriters : IF focus = "states" THEN Request(u) ELSE MCDelta(u)
       \/ \E u \in MCWriters, b \in DOMAIN batch :
            (focus = "xp" => Len(changelog) < 3) /\ RollbackArcadePart(u, b)
       \/ focus = "xp" /\ (UpdateArcadeStatus \/ Tick)

MCSpec == MCInit /\ [][MCNext]_<<vars, focus>>
===============================================================================
