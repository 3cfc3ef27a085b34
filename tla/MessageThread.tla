---------------------------- MODULE MessageThread -----------------------------
(***************************************************************************)
(* What a conversation promises to the people in it: the messages of a     *)
(* thread are numbered 1, 2, 3, ... in the order in which they were        *)
(* accepted, an accepted message is never changed, renumbered or lost, a   *)
(* client that sends the same message twice has sent it once, and nobody's *)
(* reading position goes back or passes the end.                           *)
(***************************************************************************)
EXTENDS Naturals

CONSTANTS
    Threads,    \* conversations
    Readers,    \* who may read and write
    Nobody      \* the author of an automatic message

VARIABLES
    posts,      \* posts[c]: the messages of thread c, [sequence, author, key, ...]
    position    \* position[c][p]: how far p has read in c

vars == <<posts, position>>

Init ==
    /\ posts = [c \in Threads |-> {}]
    /\ position = [c \in Threads |-> [p \in Readers |-> 0]]

Sequences(c) == {m.sequence : m \in posts[c]}

Repeats(m, old) == m.author # Nobody /\ old.author = m.author /\ old.key = m.key

\* One request adds messages at the end of one thread.
Post(c) ==
    /\ posts' = [posts EXCEPT ![c] = posts'[c]]
    /\ posts[c] \subseteq posts'[c]
    /\ \A m \in posts'[c] \ posts[c] :
           /\ \A old \in posts[c] : old.sequence < m.sequence
           /\ \A old \in posts'[c] \ {m} : old.sequence # m.sequence /\ ~Repeats(m, old)
           /\ 1 .. m.sequence \subseteq Sequences(c)'
    /\ UNCHANGED position

\* A reader moves forward, not past the last message.
Read(c, p) ==
    \E n \in Sequences(c) :
        /\ n > position[c][p]
        /\ position' = [position EXCEPT ![c][p] = n]
        /\ UNCHANGED posts

Next == \E c \in Threads : Post(c) \/ \E p \in Readers : Read(c, p)

Spec == Init /\ [][Next]_vars
===============================================================================
