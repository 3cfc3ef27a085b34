------------------------ MODULE MCCommunityTranslation ------------------------
(* Small instances of CommunityTranslation: see the configurations.        *)
EXTENDS CommunityTranslation, TLC

CONSTANT p1

MCPostOf == [c \in Comments |-> p1]
MCRetryDelay == [k \in 1..MaxAttempts |-> 1]

(* Runs differ in nothing but their name.  Used in safety runs only.       *)
RunSymmetry == Permutations(Runs)
===============================================================================
