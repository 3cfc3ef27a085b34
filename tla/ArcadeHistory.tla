---------------------------- MODULE ArcadeHistory ----------------------------
(***************************************************************************)
(* What the history of one part of an arcade promises: values are kept for *)
(* ever as they were written, the part points at one of them, and the      *)
(* changelog is the path it took from one to the next.                     *)
(***************************************************************************)
EXTENDS Naturals, Sequences

VARIABLES
    values,     \* every value the part ever had
    pointer,    \* the present one, 0 for none
    path        \* the changelog: from where to where

hvars == <<values, pointer, path>>

HInit == values = <<>> /\ pointer = 0 /\ path = <<>>

MoveTo(p) ==
    /\ pointer' = p
    /\ path' = Append(path, [from |-> pointer, to |-> p])

(* A new value takes the place of the present one.                         *)
Replace ==
    /\ Len(values') = Len(values) + 1
    /\ \A i \in 1..Len(values) : values'[i] = values[i]
    /\ MoveTo(Len(values) + 1)

(* An earlier value comes back.                                            *)
Return ==
    /\ pointer # 0
    /\ \E p \in 1..Len(values) \ {pointer} : MoveTo(p)
    /\ UNCHANGED values

HNext == Replace \/ Return

HSpec == HInit /\ [][HNext]_hvars
===============================================================================
