---------------------------- MODULE ReportOutcome ----------------------------
(***************************************************************************)
(* What the people of an arcade are promised about a fault report          *)
(* (handlers/arcade/flag): an open report may be put up for resolution;    *)
(* from then on it has a deadline, at least MinDelay away from the vote    *)
(* that set it, which only ever comes closer; the report counts as solved  *)
(* when the deadline has passed or when a manager of the arcade says so,   *)
(* and then for good.  Votes, levels, rounds and cron jobs do not exist at *)
(* this level.                                                             *)
(***************************************************************************)
EXTENDS Integers

CONSTANTS
    Flags,      \* reports
    MinDelay,   \* the shortest time between a vote and the deadline it sets
    Never       \* no deadline

VARIABLES
    clock,
    phase,      \* phase[f]: absent, open, voting, expired, fixed or withdrawn
    deadline    \* deadline[f]: when a report in voting counts as solved

ovars == <<clock, phase, deadline>>

OInit ==
    /\ clock = 0
    /\ phase = [f \in Flags |-> "absent"]
    /\ deadline = [f \in Flags |-> Never]

Moves(f, from, to) == phase[f] = from /\ phase'[f] = to

Report(f)   == Moves(f, "absent", "open") /\ deadline'[f] = Never
PutUp(f)    == Moves(f, "open", "voting") /\ deadline'[f] >= clock + MinDelay
Hasten(f)   == /\ Moves(f, "voting", "voting")
               /\ deadline'[f] < deadline[f]
               /\ deadline'[f] >= clock + MinDelay
Reject(f)   == Moves(f, "voting", "open") /\ deadline'[f] = Never
Expire(f)   == Moves(f, "voting", "expired") /\ deadline[f] <= clock /\ deadline'[f] = Never
Fix(f)      == /\ phase[f] \in {"open", "voting"} /\ phase'[f] = "fixed"
               /\ deadline'[f] = Never
Withdraw(f) == /\ phase[f] \in {"open", "voting"} /\ phase'[f] = "withdrawn"
               /\ deadline'[f] = Never
Rests(f)    == phase'[f] = phase[f] /\ deadline'[f] = deadline[f]

(* A cron job moves many reports at once.                                  *)
OStep ==
    /\ clock' >= clock
    /\ phase' \in [Flags -> {"absent", "open", "voting", "expired", "fixed", "withdrawn"}]
    /\ DOMAIN deadline' = Flags
    /\ \A f \in Flags :
         \/ Report(f) \/ PutUp(f) \/ Hasten(f) \/ Reject(f)
         \/ Expire(f) \/ Fix(f) \/ Withdraw(f) \/ Rests(f)

OSpec == OInit /\ [][OStep]_ovars
===============================================================================
