------------------------------- MODULE XpLedger -------------------------------
(***************************************************************************)
(* The experience ledger of service/xp/xp.go, as operators on its value:   *)
(* x.exp is user_level.exp (a missing row counts 0), x.log is              *)
(* user_level_log.  Handlers call them inside their own transaction, so a  *)
(* call is a function from the old ledger to the new one.                  *)
(***************************************************************************)
EXTENDS Integers, FiniteSets, FiniteSetsExt

CONSTANTS
    Users,      \* user records
    Named       \* users with a username: the others earn nothing

ASSUME NamedAssumption == Named \subseteq Users

-------------------------------------------------------------------------------
(* Levels.                                                                 *)

(* round((6 l^2 + 110 l) / 29); 29 is odd, so no half is ever rounded.     *)
LevelBaseExp(l) == IF l <= 0 THEN 0 ELSE (2 * (6*l*l + 110*l) + 29) \div 58

(* The highest level whose base is reached: each level costs at least 3.   *)
LevelFromExp(e) == Cardinality({l \in 1..(e \div 3) : LevelBaseExp(l) <= e})

-------------------------------------------------------------------------------
(* The ledger.                                                             *)

Has(x, u, kind) == \E e \in x.log : e.user = u /\ e.kind = kind

(* Mutant: a grant is not looked up before it is made.                     *)
Award_Twice(x, u, kind, diff, at) ==
    IF diff = 0 \/ u \notin Named
      THEN x
      ELSE [exp |-> [x.exp EXCEPT ![u] = @ + diff],
            log |-> x.log \cup {[user |-> u, kind |-> kind, diff |-> diff, at |-> at]}]

Award(x, u, kind, diff, at) ==
    IF diff = 0 \/ u \notin Named \/ Has(x, u, kind)
      THEN x
      ELSE [exp |-> [x.exp EXCEPT ![u] = @ + diff],
            log |-> x.log \cup {[user |-> u, kind |-> kind, diff |-> diff, at |-> at]}]

(* What the log says user u earned.                                        *)
Earned(x, u) == MapThenSumSet(LAMBDA e : e.diff, {e \in x.log : e.user = u})
===============================================================================
