-------------------------- MODULE PublishedCommunity --------------------------
(***************************************************************************)
(* What readers of the community are promised about posts and comments     *)
(* (handlers/community): a Korean original appears once, its author may    *)
(* revise it, a translation offered beside it is always the translation of *)
(* the text being read, and what was removed never comes back.  Claims,    *)
(* leases, attempts and workers do not exist at this level.                *)
(***************************************************************************)
CONSTANTS
    Items,      \* posts and comments
    Sources,    \* texts an author can write
    Absent,     \* not published yet
    Removed,    \* published once, now deleted
    NoText      \* no translation is offered

VARIABLES
    text,       \* text[i]: what a reader of i sees
    offered     \* offered[i]: the text whose translation is offered

pvars == <<text, offered>>

PInit ==
    /\ text = [i \in Items |-> Absent]
    /\ offered = [i \in Items |-> NoText]

Publish(i, s) ==
    /\ text[i] = Absent
    /\ text' = [text EXCEPT ![i] = s]
    /\ UNCHANGED offered

Revise(i, s) ==
    /\ text[i] \in Sources
    /\ text' = [text EXCEPT ![i] = s]
    /\ offered' = [offered EXCEPT ![i] = NoText]

Offer(i) ==
    /\ text[i] \in Sources
    /\ offered' = [offered EXCEPT ![i] = text[i]]
    /\ UNCHANGED text

(* Deleting a post removes its comments in the same step.                  *)
Remove(S) ==
    /\ \A i \in S : text[i] \in Sources
    /\ text' = [i \in Items |-> IF i \in S THEN Removed ELSE text[i]]
    /\ offered' = [i \in Items |-> IF i \in S THEN NoText ELSE offered[i]]

PNext ==
    \/ \E i \in Items, s \in Sources : Publish(i, s) \/ Revise(i, s)
    \/ \E i \in Items : Offer(i)
    \/ \E S \in SUBSET Items : Remove(S)

PSpec == PInit /\ [][PNext]_pvars
===============================================================================
