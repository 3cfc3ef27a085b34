--------------------------- MODULE MCFlagResolution ---------------------------
(* Small instances of FlagResolution: a behaviour is about the votes of a    *)
(* report, over a long time, or about what its reactions bring, in an arcade *)
(* that is published, hidden and redirected.                                 *)
EXTENDS FlagResolution, TLC

CONSTANTS official, expert, novice, owner

\* Levels 10, 30, 0 and 0: the owner is the one who earns experience.
MCInitialExp == [u \in Users |-> CASE u = official -> 59 [] u = expert -> 300 [] OTHER -> 0]
MCDelay == [t \in Tiers |-> CASE t = 0 -> 3 [] t = 5 -> 3 [] t = 10 -> 2 [] t = 20 -> 2 [] t = 30 -> 1]

VARIABLE focus

MCInit == Init /\ focus \in {"votes", "xp"}

\* Who has reported, reacted or gained something.
Active == {v.by : v \in reactions} \cup {flag[f].by : f \in {g \in Flags : flag[g].status # "absent"}}

MCNext ==
    /\ UNCHANGED focus
    /\ Next
    /\ Active' \subseteq IF focus = "votes" THEN Users \ {owner} ELSE {official, owner}
    /\ focus = "votes" => arcade' = arcade
    /\ focus = "xp" => clock' <= 1

MCSpec == MCInit /\ [][MCNext]_<<vars, focus>>

\* An xp behaviour, whose time is short, is fair to nobody: liveness is about votes.
MCFairSpec == MCSpec /\ WF_vars(AutoSolve(clock)) /\ WF_vars(StaleSweep(clock)) /\ WF_vars(Tick)
===============================================================================
