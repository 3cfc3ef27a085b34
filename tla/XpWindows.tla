------------------------------ MODULE XpWindows ------------------------------
(***************************************************************************)
(* Awards of service/xp/xp.go that look back over a rolling window: what   *)
(* was granted in it counts against a cap or closes it for new grants.     *)
(***************************************************************************)
EXTENDS XpLedger

CONSTANTS
    Week,       \* the window, seven days
    GameCap     \* the most that game edits bring in a window, 10

ASSUME WindowAssumption == Week \in Nat /\ GameCap \in Nat

Total(E) == MapThenSumSet(LAMBDA e : e.diff, E)

(* Grants of user u for game edits; the kind names the entries counted.    *)
GameGrants(x, u) == {e \in x.log : e.user = u /\ e.kind[1] = "game"}

(* Created after the cutoff.                                               *)
Recent(E, now) == {e \in E : e.at > now - Week}

ArcadeGameEditExp(n) == IF 2 * n < GameCap THEN 2 * n ELSE GameCap

(* Mutant: what was already granted is not subtracted.                     *)
AwardGameEdit_Anew(x, u, ids, now) ==
    LET G    == Recent(GameGrants(x, u), now)
        seen == ids \cup UNION {e.kind[3] : e \in G} IN
    IF ids = {} THEN x
    ELSE Award(x, u, <<"game", now, ids>>, ArcadeGameEditExp(Cardinality(seen)), now)

(* AwardArcadeGameEditExpTx: the difference to the target of the window.   *)
AwardGameEdit(x, u, ids, now) ==
    LET G    == Recent(GameGrants(x, u), now)
        seen == ids \cup UNION {e.kind[3] : e \in G}
        diff == ArcadeGameEditExp(Cardinality(seen)) - Total({e \in G : e.diff > 0}) IN
    IF ids = {} \/ diff <= 0 THEN x ELSE Award(x, u, <<"game", now, ids>>, diff, now)
===============================================================================
