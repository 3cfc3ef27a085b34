---------------------------- MODULE LedgerTheorems ----------------------------
(***************************************************************************)
(* Sums over ledger rows.  The experience of a user is a sum over rows     *)
(* (MapThenSumSet, service/xp/xp.go); what the proofs need to know of such *)
(* sums, and of awards made one after the other (FoldSet), is proved here  *)
(* from the definition of MapThenFoldSet.  That definition is a function   *)
(* by recursion over subsets: it is shown to exist, and its laws are       *)
(* shown, by looking at a smallest set for which they could fail.  With    *)
(* them stand the places of elements in a finite set by a key, sorted      *)
(* listings, images and maxima, and sums of sums.                          *)
(***************************************************************************)
EXTENDS XpLedger, FiniteSetTheorems, WellFoundedInduction, TLAPS

\* The summands are the values of a function.
SumOver(f, S) == MapThenSumSet(LAMBDA x : f[x], S)

-------------------------------------------------------------------------------
(* The recursion                                                           *)

Choice(s) == CHOOSE x \in s : TRUE

SumStep(f, g, s) == IF s = {} THEN 0 ELSE f[Choice(s)] + g[s \ {Choice(s)}]

\* g sums f over every subset of S.
Sums(f, g, S) == g = [s \in SUBSET S |-> SumStep(f, g, s)]

Summable(f, S) == IsFiniteSet(S) /\ \A x \in S : f[x] \in Int

(* A set of subsets of a finite set has a smallest one.                    *)
LEMMA SmallestSet ==
    ASSUME NEW S, IsFiniteSet(S), NEW F, F \subseteq SUBSET S, F # {}
    PROVE  \E T \in F : \A U \in F : U \subseteq T => U = T
  <1>1. F \subseteq FiniteSubsetsOf(S)
    BY FS_Subset DEF FiniteSubsetsOf
  <1>2. \E T \in F : \A U \in F : ~ (<<U, T>> \in StrictSubsetOrdering(S))
    BY <1>1, FS_StrictSubsetOrderingWellFounded, WFMin
  <1> QED
    BY <1>2 DEF StrictSubsetOrdering

(* The sum of the empty set, and of others by the element chosen first.    *)
LEMMA OneMoreSummand ==
    ASSUME NEW S, NEW f, NEW g, Sums(f, g, S), NEW s \in SUBSET S
    PROVE  /\ s = {} => g[s] = 0
           /\ s # {} => /\ Choice(s) \in s
                        /\ s \ {Choice(s)} \in SUBSET S
                        /\ g[s] = f[Choice(s)] + g[s \ {Choice(s)}]
  <1>1. g[s] = SumStep(f, g, s)
    <2> HIDE DEF SumStep
    <2> QED
      BY DEF Sums
  <1>2. s # {} => Choice(s) \in s
    BY DEF Choice
  <1> HIDE DEF Choice
  <1> QED
    BY <1>1, <1>2 DEF SumStep

LEMMA NoSummand == ASSUME NEW S, NEW f, NEW g, Sums(f, g, S) PROVE g[{}] = 0
  BY OneMoreSummand

(* There is one sum at most.                                               *)
LEMMA SumsAgree ==
    ASSUME NEW S, NEW T, NEW f, NEW g, NEW h, Sums(f, g, S), Sums(f, h, T),
           NEW s, s \subseteq S, s \subseteq T, IsFiniteSet(s)
    PROVE  g[s] = h[s]
  <1> DEFINE F == {u \in SUBSET s : g[u] # h[u]}
  <1> SUFFICES ASSUME F # {} PROVE FALSE
    BY DEF F
  <1>0. F \subseteq SUBSET s
    OBVIOUS
  <1>1. PICK u \in F : \A v \in F : v \subseteq u => v = u
    <2> HIDE DEF F
    <2> QED
      BY <1>0, SmallestSet
  <1>2. u \in SUBSET S /\ u \in SUBSET T /\ g[u] # h[u]
    BY <1>1
  <1>3. u # {}
    <2>1. g[{}] = 0 /\ h[{}] = 0
      BY NoSummand
    <2> QED
      BY <1>2, <2>1
  <1>4. /\ Choice(u) \in u
        /\ g[u] = f[Choice(u)] + g[u \ {Choice(u)}]
        /\ h[u] = f[Choice(u)] + h[u \ {Choice(u)}]
    BY <1>2, <1>3, OneMoreSummand
  <1>5. g[u \ {Choice(u)}] = h[u \ {Choice(u)}]
    <2> HIDE DEF Choice
    <2> QED
      BY <1>1, <1>4
  <1> QED
    BY <1>2, <1>4, <1>5

(* And there is one: a smallest set without could be given the sums of its *)
(* subsets, and its own by one more summand.                               *)
LEMMA SumsExist ==
    ASSUME NEW S, IsFiniteSet(S), NEW f
    PROVE  \E g : Sums(f, g, S)
  <1> DEFINE F == {T \in SUBSET S : ~ \E g : Sums(f, g, T)}
  <1> SUFFICES ASSUME F # {} PROVE FALSE
    <2>1. S \in SUBSET S
      OBVIOUS
    <2> QED
      BY <2>1
  <1>0. F \subseteq SUBSET S
    OBVIOUS
  <1>1. PICK T \in F : \A U \in F : U \subseteq T => U = T
    <2> HIDE DEF F
    <2> QED
      BY <1>0, SmallestSet
  <1> DEFINE G(U) == CHOOSE g : Sums(f, g, U)
             V(U) == U \ {Choice(U)}
             h    == [U \in SUBSET T |-> IF U = {} THEN 0 ELSE f[Choice(U)] + G(V(U))[V(U)]]
  <1>2. ASSUME NEW U \in SUBSET T, U # T PROVE Sums(f, G(U), U)
    <2>1. U \in SUBSET S
      BY <1>1
    <2>2. U \notin F
      BY <1>1, <1>2
    <2>3. \E g : Sums(f, g, U)
      BY <2>1, <2>2
    <2> QED
      BY <2>3, Zenon
  <1>3. ASSUME NEW U \in SUBSET T, U # {} PROVE h[V(U)] = G(V(U))[V(U)]
    <2>1. /\ V(U) \in SUBSET T /\ V(U) # T
          /\ IsFiniteSet(V(U))
      <3>1. Choice(U) \in U
        BY <1>3 DEF Choice
      <3>2. IsFiniteSet(T)
        BY <1>1, FS_Subset
      <3>3. V(U) \in SUBSET T /\ V(U) # T
        <4> HIDE DEF Choice
        <4> QED
          BY <3>1
      <3> QED
        BY <3>2, <3>3, FS_Subset
    <2> DEFINE W == V(U)
    <2>2. W \in SUBSET T /\ W # T /\ IsFiniteSet(W)
      BY <2>1
    <2> HIDE DEF W
    <2>3. Sums(f, G(W), W)
      BY <1>2, <2>2
    <2>4. CASE W = {}
      <3>1. G(W)[W] = 0
        <4> HIDE DEF G
        <4> QED
          BY <2>3, <2>4, OneMoreSummand
      <3>2. h[W] = 0
        <4> HIDE DEF G, V
        <4> QED
          BY <2>2, <2>4
      <3> QED
        BY <3>1, <3>2 DEF W
    <2>5. CASE W # {}
      <3> DEFINE X == V(W)
      <3>1. /\ X \in SUBSET W /\ X \in SUBSET T /\ X # T /\ IsFiniteSet(X)
            /\ G(W)[W] = f[Choice(W)] + G(W)[X]
        <4>1. Choice(W) \in W
          BY <2>5 DEF Choice
        <4>2. X \in SUBSET W /\ X # W
          <5> HIDE DEF Choice
          <5> QED
            BY <4>1
        <4>3. X \in SUBSET T /\ X # T /\ IsFiniteSet(X)
          <5> HIDE DEF X
          <5> QED
            BY <4>2, <2>2, FS_Subset
        <4>4. G(W)[W] = f[Choice(W)] + G(W)[X]
          <5> HIDE DEF G
          <5>1. W \in SUBSET W
            OBVIOUS
          <5> QED
            BY <2>3, <2>5, <5>1, OneMoreSummand
        <4> QED
          BY <4>2, <4>3, <4>4
      <3> HIDE DEF X
      <3>2. Sums(f, G(X), X)
        BY <1>2, <3>1
      <3>3. G(W)[X] = G(X)[X]
        <4> HIDE DEF G
        <4> QED
          BY <2>3, <3>1, <3>2, SumsAgree
      <3>4. h[W] = f[Choice(W)] + G(X)[X]
        <4>1. h[W] = IF W = {} THEN 0 ELSE f[Choice(W)] + G(V(W))[V(W)]
          <5> HIDE DEF G, V
          <5> QED
            BY <2>2
        <4> QED
          BY <4>1, <2>5, Zenon DEF X
      <3> QED
        BY <3>1, <3>3, <3>4 DEF W
    <2> QED
      BY <2>4, <2>5
  <1>4. ASSUME NEW U \in SUBSET T
        PROVE  (IF U = {} THEN 0 ELSE f[Choice(U)] + G(V(U))[V(U)]) = SumStep(f, h, U)
    <2> HIDE DEF h, G
    <2> QED
      BY <1>3 DEF SumStep
  <1>5. Sums(f, h, T)
    <2>1. h = [U \in SUBSET T |-> SumStep(f, h, U)]
      <3> DEFINE L(U) == IF U = {} THEN 0 ELSE f[Choice(U)] + G(V(U))[V(U)]
                 R(U) == SumStep(f, h, U)
      <3>1. \A U \in SUBSET T : L(U) = R(U)
        BY <1>4
      <3>2. h = [U \in SUBSET T |-> L(U)]
        BY Zenon
      <3> HIDE DEF L, R
      <3>3. [U \in SUBSET T |-> L(U)] = [U \in SUBSET T |-> R(U)]
        BY <3>1
      <3>4. h = [U \in SUBSET T |-> R(U)]
        BY <3>2, <3>3
      <3> QED
        BY <3>4, Zenon DEF R
    <2> HIDE DEF h
    <2> QED
      BY <2>1 DEF Sums
  <1> QED
    BY <1>1, <1>5

-------------------------------------------------------------------------------
(* The laws                                                                *)

(* The sum over a set is the one over it by any sums of a larger set.      *)
LEMMA SumIs ==
    ASSUME NEW S, IsFiniteSet(S), NEW f, NEW g, Sums(f, g, S), NEW T \in SUBSET S
    PROVE  SumOver(f, T) = g[T]
  <1>1. IsFiniteSet(T)
    BY FS_Subset
  <1> DEFINE h == CHOOSE h : Sums(f, h, T)
  <1>2. Sums(f, h, T)
    BY <1>1, SumsExist, Zenon
  <1>3. SumOver(f, T) = h[T]
    BY Zenon DEF SumOver, MapThenSumSet, MapThenFoldSet, Sums, SumStep, Choice
  <1> HIDE DEF h
  <1>4. h[T] = g[T]
    BY <1>1, <1>2, SumsAgree
  <1> QED
    BY <1>3, <1>4

(* The sum of nothing, and of something.                                   *)
LEMMA SumChoice ==
    ASSUME NEW S, IsFiniteSet(S), NEW f
    PROVE  /\ SumOver(f, {}) = 0
           /\ S # {} => /\ Choice(S) \in S
                        /\ SumOver(f, S) = f[Choice(S)] + SumOver(f, S \ {Choice(S)})
  <1>1. PICK g : Sums(f, g, S)
    BY SumsExist
  <1>2. \A T \in SUBSET S : SumOver(f, T) = g[T]
    BY <1>1, SumIs
  <1>3. SumOver(f, {}) = 0
    <2>1. {} \in SUBSET S
      OBVIOUS
    <2>2. g[{}] = 0
      BY <1>1, <2>1, OneMoreSummand
    <2> QED
      BY <1>2, <2>1, <2>2
  <1>4. ASSUME S # {}
        PROVE  Choice(S) \in S /\ SumOver(f, S) = f[Choice(S)] + SumOver(f, S \ {Choice(S)})
    <2>1. S \in SUBSET S
      OBVIOUS
    <2>2. /\ Choice(S) \in S /\ S \ {Choice(S)} \in SUBSET S
          /\ g[S] = f[Choice(S)] + g[S \ {Choice(S)}]
      BY <1>1, <1>4, <2>1, OneMoreSummand
    <2>3. SumOver(f, S) = g[S] /\ SumOver(f, S \ {Choice(S)}) = g[S \ {Choice(S)}]
      BY <1>2, <2>1, <2>2
    <2> QED
      BY <2>2, <2>3
  <1> QED
    BY <1>3, <1>4

(* A sum of integers is one.                                               *)
LEMMA SumType ==
    ASSUME NEW S, NEW f, Summable(f, S)
    PROVE  SumOver(f, S) \in Int
  <1> USE DEF Summable
  <1> DEFINE F == {T \in SUBSET S : SumOver(f, T) \notin Int}
  <1> SUFFICES ASSUME F # {} PROVE FALSE
    <2>1. S \in SUBSET S
      OBVIOUS
    <2> QED
      BY <2>1
  <1>0. F \subseteq SUBSET S
    OBVIOUS
  <1>1. PICK T \in F : \A U \in F : U \subseteq T => U = T
    <2> HIDE DEF F
    <2> QED
      BY <1>0, SmallestSet
  <1>2. T \in SUBSET S /\ IsFiniteSet(T) /\ SumOver(f, T) \notin Int
    BY <1>1, FS_Subset
  <1>3. T # {}
    <2> SUFFICES ASSUME T = {} PROVE FALSE
      OBVIOUS
    <2>1. SumOver(f, {}) = 0
      BY SumChoice
    <2> QED
      BY ONLY <1>2, <2>1, T = {}
  <1>4. Choice(T) \in T /\ SumOver(f, T) = f[Choice(T)] + SumOver(f, T \ {Choice(T)})
    BY <1>2, <1>3, SumChoice
  <1>5. SumOver(f, T \ {Choice(T)}) \in Int
    BY <1>1, <1>2, <1>4
  <1> QED
    BY <1>2, <1>4, <1>5

(* Any summand can be taken out.                                           *)
LEMMA SumRemove ==
    ASSUME NEW S, NEW f, Summable(f, S), NEW x \in S
    PROVE  SumOver(f, S) = f[x] + SumOver(f, S \ {x})
  <1> USE DEF Summable
  <1> DEFINE Law(T) == \A y \in T : SumOver(f, T) = f[y] + SumOver(f, T \ {y})
             F      == {T \in SUBSET S : ~ Law(T)}
  <1> SUFFICES ASSUME F # {} PROVE FALSE
    <2>1. S \in SUBSET S
      OBVIOUS
    <2> QED
      BY <2>1
  <1>0. F \subseteq SUBSET S
    OBVIOUS
  <1>1. PICK T \in F : \A U \in F : U \subseteq T => U = T
    <2> HIDE DEF F
    <2> QED
      BY <1>0, SmallestSet
  <1>2. PICK y \in T : SumOver(f, T) # f[y] + SumOver(f, T \ {y})
    BY <1>1
  <1> DEFINE c == Choice(T)
  <1>3. /\ T \in SUBSET S /\ IsFiniteSet(T) /\ c \in T
        /\ SumOver(f, T) = f[c] + SumOver(f, T \ {c})
    <2>1. T \in SUBSET S /\ IsFiniteSet(T) /\ T # {}
      BY <1>1, <1>2, FS_Subset
    <2> QED
      BY <2>1, SumChoice
  <1> HIDE DEF c
  <1>4. c # y
    BY <1>2, <1>3
  <1>5. Law(T \ {c}) /\ Law(T \ {y})
    <2> HIDE DEF Law
    <2>1. T \ {c} \notin F /\ T \ {y} \notin F
      <3> HIDE DEF F
      <3> QED
        BY <1>1, <1>2, <1>3
    <2> QED
      BY <2>1, <1>3
  <1>6. SumOver(f, T \ {c}) = f[y] + SumOver(f, (T \ {c}) \ {y})
    BY <1>2, <1>4, <1>5
  <1>7. SumOver(f, T \ {y}) = f[c] + SumOver(f, (T \ {y}) \ {c})
    BY <1>3, <1>4, <1>5
  <1>8. (T \ {c}) \ {y} = (T \ {y}) \ {c}
    OBVIOUS
  <1>9. SumOver(f, (T \ {c}) \ {y}) \in Int
    <2>1. (T \ {c}) \ {y} \in SUBSET S /\ IsFiniteSet((T \ {c}) \ {y})
      <3>1. (T \ {c}) \ {y} \in SUBSET S
        BY <1>3
      <3> QED
        BY <3>1, FS_Subset
    <2> QED
      BY <2>1, SumType
  <1>10. f[c] \in Int /\ f[y] \in Int
    BY <1>2, <1>3
  <1> DEFINE rest == SumOver(f, (T \ {c}) \ {y})
  <1>11. SumOver(f, T) = f[c] + (f[y] + rest) /\ SumOver(f, T \ {y}) = f[c] + rest /\ rest \in Int
    BY <1>3, <1>6, <1>7, <1>8, <1>9
  <1> HIDE DEF rest
  <1> QED
    BY <1>2, <1>10, <1>11

(* One more summand.                                                       *)
LEMMA SumAdd ==
    ASSUME NEW S, NEW f, NEW x, x \notin S, Summable(f, S \cup {x})
    PROVE  SumOver(f, S \cup {x}) = SumOver(f, S) + f[x]
  <1>1. (S \cup {x}) \ {x} = S
    OBVIOUS
  <1>2. SumOver(f, S \cup {x}) = f[x] + SumOver(f, S)
    BY <1>1, SumRemove
  <1>3. f[x] \in Int /\ SumOver(f, S) \in Int
    <2>1. IsFiniteSet(S) /\ \A y \in S \cup {x} : f[y] \in Int
      <3>1. S \in SUBSET (S \cup {x})
        OBVIOUS
      <3> QED
        BY <3>1, FS_Subset DEF Summable
    <2> QED
      BY <2>1, SumType DEF Summable
  <1> QED
    BY <1>2, <1>3

(* Equal summands have equal sums, of whichever functions they are values. *)
LEMMA SumSame ==
    ASSUME NEW S, IsFiniteSet(S), NEW f, NEW g, \A x \in S : f[x] = g[x]
    PROVE  SumOver(f, S) = SumOver(g, S)
  <1> DEFINE F == {T \in SUBSET S : SumOver(f, T) # SumOver(g, T)}
  <1> SUFFICES ASSUME F # {} PROVE FALSE
    <2>1. S \in SUBSET S
      OBVIOUS
    <2> QED
      BY <2>1
  <1>0. F \subseteq SUBSET S
    OBVIOUS
  <1>1. PICK T \in F : \A U \in F : U \subseteq T => U = T
    <2> HIDE DEF F
    <2> QED
      BY <1>0, SmallestSet
  <1>2. T \in SUBSET S /\ IsFiniteSet(T) /\ SumOver(f, T) # SumOver(g, T)
    BY <1>1, FS_Subset
  <1>3. T # {}
    BY <1>2, SumChoice
  <1>4. /\ Choice(T) \in T
        /\ SumOver(f, T) = f[Choice(T)] + SumOver(f, T \ {Choice(T)})
        /\ SumOver(g, T) = g[Choice(T)] + SumOver(g, T \ {Choice(T)})
    BY <1>2, <1>3, SumChoice
  <1>5. SumOver(f, T \ {Choice(T)}) = SumOver(g, T \ {Choice(T)})
    <2> HIDE DEF Choice
    <2> QED
      BY <1>1, <1>2, <1>4
  <1> QED
    BY <1>2, <1>4, <1>5

(* More summands that are not negative make no smaller sum.                *)
LEMMA SumMonotone ==
    ASSUME NEW S, NEW T \in SUBSET S, NEW f, Summable(f, S), \A x \in S \ T : f[x] >= 0
    PROVE  SumOver(f, T) <= SumOver(f, S)
  <1> USE DEF Summable
  <1> DEFINE F == {U \in SUBSET S : T \subseteq U /\ ~ (SumOver(f, T) <= SumOver(f, U))}
  <1> SUFFICES ASSUME F # {} PROVE FALSE
    <2>1. S \in SUBSET S
      OBVIOUS
    <2> QED
      BY <2>1
  <1>0. F \subseteq SUBSET S
    OBVIOUS
  <1>1. PICK U \in F : \A W \in F : W \subseteq U => W = U
    <2> HIDE DEF F
    <2> QED
      BY <1>0, SmallestSet
  <1>2. /\ U \in SUBSET S /\ IsFiniteSet(U) /\ IsFiniteSet(T) /\ T \subseteq U
        /\ ~ (SumOver(f, T) <= SumOver(f, U))
    BY <1>1, FS_Subset
  <1>3. SumOver(f, T) \in Int
    BY <1>2, SumType
  <1>4. T # U
    BY <1>2, <1>3
  <1>5. PICK x \in U : x \notin T
    BY <1>2, <1>4
  <1>6. SumOver(f, U) = f[x] + SumOver(f, U \ {x})
    BY <1>2, <1>5, SumRemove
  <1>7. U \ {x} \in SUBSET S /\ IsFiniteSet(U \ {x}) /\ T \subseteq U \ {x} /\ U \ {x} # U
    <2>1. U \ {x} \in SUBSET S /\ T \subseteq U \ {x} /\ U \ {x} # U
      BY <1>2, <1>5
    <2> QED
      BY <2>1, FS_Subset
  <1>8. SumOver(f, T) <= SumOver(f, U \ {x})
    BY <1>1, <1>7
  <1>9. SumOver(f, U \ {x}) \in Int /\ f[x] \in Int /\ f[x] >= 0
    BY <1>2, <1>5, <1>7, SumType
  <1> QED
    BY <1>2, <1>3, <1>6, <1>8, <1>9

LEMMA DisjointUnion ==
    ASSUME NEW A, IsFiniteSet(A), NEW B, IsFiniteSet(B), A \cap B = {}
    PROVE  Cardinality(A \cup B) = Cardinality(A) + Cardinality(B)
  <1>1. Cardinality(A \cap B) = 0
    BY FS_EmptySet
  <1>2. Cardinality(A \cup B) = Cardinality(A) + Cardinality(B) - Cardinality(A \cap B)
    BY FS_Union
  <1>3. Cardinality(A) \in Nat /\ Cardinality(B) \in Nat
    BY FS_CardinalityType
  <1> QED
    BY ONLY <1>1, <1>2, <1>3

\* The elements of a set with a given value of a function.
Part(G, f, x) == {y \in G : f[y] = x}

(* The sizes of the parts of a set add up to its size.                     *)
LEMMA SumOfParts ==
    ASSUME NEW H, IsFiniteSet(H), NEW G, IsFiniteSet(G), NEW f, \A y \in G : f[y] \in H,
           NEW c, \A x \in H : c[x] = Cardinality(Part(G, f, x))
    PROVE  SumOver(c, H) = Cardinality(G)
  <1> DEFINE Over(T) == {y \in G : f[y] \in T}
             F == {T \in SUBSET H : SumOver(c, T) # Cardinality(Over(T))}
  <1>0. SUFFICES ASSUME F # {} PROVE FALSE
    <2>1. Over(H) = G
      OBVIOUS
    <2> HIDE DEF Over
    <2>2. SumOver(c, H) = Cardinality(Over(H))
      OBVIOUS
    <2> QED
      BY <2>1, <2>2
  <1>1. PICK T \in F : \A U \in F : U \subseteq T => U = T
    <2> HIDE DEF F
    <2>1. F \subseteq SUBSET H
      BY DEF F
    <2> QED
      BY <1>0, <2>1, SmallestSet
  <1>2. T \in SUBSET H /\ IsFiniteSet(T) /\ SumOver(c, T) # Cardinality(Over(T))
    BY <1>1, FS_Subset
  <1>3. \A S : IsFiniteSet(Over(S)) /\ Cardinality(Over(S)) \in Nat
    <2> TAKE S
    <2>1. Over(S) \subseteq G
      OBVIOUS
    <2> HIDE DEF Over
    <2> QED
      BY <2>1, FS_Subset, FS_CardinalityType
  <1>4. Summable(c, T)
    <2>1. \A x \in T : c[x] = Cardinality(Over({x}))
      <3> TAKE x \in T
      <3>1. Over({x}) = Part(G, f, x)
        BY DEF Part
      <3> QED
        BY <1>2, <3>1
    <2> HIDE DEF Over, F
    <2>2. \A n \in Nat : n \in Int
      OBVIOUS
    <2>3. \A x \in T : c[x] \in Int
      BY <1>3, <2>1, <2>2, Zenon
    <2> QED
      BY <1>2, <2>3 DEF Summable
  <1>5. T # {}
    <2> SUFFICES ASSUME T = {} PROVE FALSE
      OBVIOUS
    <2>1. Over({}) = {}
      OBVIOUS
    <2>2. SumOver(c, {}) = 0 /\ Cardinality({}) = 0
      BY SumChoice, FS_EmptySet
    <2> HIDE DEF Over
    <2> QED
      BY <1>2, <2>1, <2>2
  <1>6. PICK x : x \in T
    BY <1>5
  <1>7. SumOver(c, T) = c[x] + SumOver(c, T \ {x})
    BY <1>4, <1>6, SumRemove
  <1>8. SumOver(c, T \ {x}) = Cardinality(Over(T \ {x}))
    BY <1>1, <1>2, <1>6
  <1>9. Over(T) = Over({x}) \cup Over(T \ {x}) /\ Over({x}) \cap Over(T \ {x}) = {}
        /\ Over({x}) = Part(G, f, x)
    BY <1>6 DEF Part
  <1>10. c[x] = Cardinality(Over({x}))
    BY <1>2, <1>6, <1>9
  <1> HIDE DEF Over, F
  <1>11. Cardinality(Over(T)) = Cardinality(Over({x})) + Cardinality(Over(T \ {x}))
    BY <1>3, <1>9, DisjointUnion
  <1> QED
    BY <1>2, <1>7, <1>8, <1>10, <1>11

-------------------------------------------------------------------------------
(* Places: the elements of a finite set in the order of a key.             *)

Distinct(W, k) ==
    /\ IsFiniteSet(W)
    /\ \A x \in W : k[x] \in Int
    /\ \A x, y \in W : k[x] = k[y] => x = y

UpTo(W, k, x) == {y \in W : k[y] <= k[x]}
Place(W, k, x) == Cardinality(UpTo(W, k, x))

LEMMA PlaceIs ==
    ASSUME NEW W, NEW k, Distinct(W, k), NEW x \in W
    PROVE  /\ Place(W, k, x) \in 1..Cardinality(W)
           /\ \A y \in W : k[x] < k[y] => Place(W, k, x) < Place(W, k, y)
           /\ \A y \in W : Place(W, k, y) <= Place(W, k, x) => k[y] <= k[x]
           /\ \A y \in W : k[y] <= k[x] => Place(W, k, y) <= Place(W, k, x)
           /\ \A y \in W : Place(W, k, y) = Place(W, k, x) => y = x
  <1>1. \A y \in W : /\ UpTo(W, k, y) \subseteq W /\ y \in UpTo(W, k, y)
                     /\ k[y] \in Int
    BY DEF Distinct, UpTo
  <1>2. IsFiniteSet(W) /\ Cardinality(W) \in Nat
    BY FS_CardinalityType DEF Distinct
  <1>3. \A y \in W : /\ IsFiniteSet(UpTo(W, k, y)) /\ Place(W, k, y) \in Nat
                     /\ Place(W, k, y) <= Cardinality(W) /\ Place(W, k, y) # 0
    <2> TAKE y \in W
    <2>1. IsFiniteSet(UpTo(W, k, y)) /\ Place(W, k, y) <= Cardinality(W)
      BY <1>1, <1>2, FS_Subset DEF Place
    <2>2. UpTo(W, k, y) # {}
      BY <1>1
    <2> QED
      BY <2>1, <2>2, FS_CardinalityType, FS_EmptySet DEF Place
  <1>4. ASSUME NEW y \in W, NEW z \in W, k[y] <= k[z] PROVE Place(W, k, y) <= Place(W, k, z)
    <2>1. UpTo(W, k, y) \subseteq UpTo(W, k, z)
      BY <1>1, <1>4 DEF UpTo
    <2> QED
      BY <1>3, <2>1, FS_Subset DEF Place
  <1>5. ASSUME NEW y \in W, NEW z \in W, k[y] < k[z] PROVE Place(W, k, y) < Place(W, k, z)
    <2>1. UpTo(W, k, y) \subseteq UpTo(W, k, z) \ {z}
      BY <1>1, <1>5 DEF UpTo
    <2>2. /\ IsFiniteSet(UpTo(W, k, z) \ {z})
          /\ Cardinality(UpTo(W, k, z) \ {z}) = Place(W, k, z) - 1
      BY <1>1, <1>3, FS_RemoveElement DEF Place
    <2>3. Place(W, k, y) <= Place(W, k, z) - 1
      BY <2>1, <2>2, FS_Subset DEF Place
    <2>4. Place(W, k, y) \in Nat /\ Place(W, k, z) \in Nat
      BY <1>3
    <2> QED
      BY ONLY <2>3, <2>4
  <1>6. \A y, z \in W : k[y] < k[z] \/ k[z] < k[y] \/ y = z
    BY <1>1 DEF Distinct
  <1>7. ASSUME NEW y \in W, Place(W, k, y) = Place(W, k, x) PROVE y = x
    <2>1. Place(W, k, y) \in Nat /\ Place(W, k, x) \in Nat
      BY <1>3
    <2>2. ~ (Place(W, k, y) < Place(W, k, x)) /\ ~ (Place(W, k, x) < Place(W, k, y))
      BY ONLY <1>7, <2>1
    <2> QED
      BY <1>5, <1>6, <2>2
  <1>8. ASSUME NEW y \in W, Place(W, k, y) <= Place(W, k, x) PROVE k[y] <= k[x]
    <2>1. Place(W, k, y) \in Nat /\ Place(W, k, x) \in Nat /\ k[x] \in Int /\ k[y] \in Int
      BY <1>1, <1>3
    <2>2. ~ (k[x] < k[y])
      BY <1>5, <1>8, <2>1
    <2> QED
      BY ONLY <2>1, <2>2
  <1>9. Place(W, k, x) \in 1..Cardinality(W)
    BY <1>2, <1>3
  <1> QED
    BY <1>4, <1>5, <1>7, <1>8, <1>9

\* Every place is taken.
LEMMA PlacesTaken ==
    ASSUME NEW W, NEW k, Distinct(W, k)
    PROVE  /\ Cardinality(W) \in Nat
           /\ \A i \in 1..Cardinality(W) : \E x \in W : Place(W, k, x) = i
  <1> DEFINE n == Cardinality(W)
             f == [x \in W |-> Place(W, k, x)]
  <1>1. IsFiniteSet(W) /\ n \in Nat
    BY FS_CardinalityType DEF Distinct
  <1>2. f \in [W -> 1..n] /\ \A x, y \in W : f[x] = f[y] => x = y
    <2>1. \A x \in W : Place(W, k, x) \in 1..n /\ \A y \in W : Place(W, k, x) = Place(W, k, y) => x = y
      BY PlaceIs
    <2> HIDE DEF n
    <2> QED
      BY <2>1
  <1>3. f \in Injection(W, 1..n)
    <2> HIDE DEF f, n
    <2> QED
      BY <1>2, Zenon DEF Injection, IsInjective
  <1>4. IsFiniteSet(1..n) /\ Cardinality(1..n) = n
    BY <1>1, FS_Interval
  <1>5. f \in Surjection(W, 1..n)
    <2> HIDE DEF f
    <2> QED
      BY <1>3, <1>4, FS_Injection
  <1>6. \A i \in 1..n : \E x \in W : f[x] = i
    <2> HIDE DEF f, n
    <2> QED
      BY <1>5, Zenon DEF Surjection
  <1> QED
    BY <1>1, <1>6

Sorted(list, W, k) ==
    /\ list \in [1..Cardinality(W) -> W]
    /\ \A i, j \in 1..Cardinality(W) : i < j => k[list[i]] < k[list[j]]

LEMMA SortedExists ==
    ASSUME NEW W, NEW k, Distinct(W, k)
    PROVE  \E list : Sorted(list, W, k)
  <1> DEFINE n == Cardinality(W)
             list == [i \in 1..n |-> CHOOSE x \in W : Place(W, k, x) = i]
  <1>1. n \in Nat /\ \A i \in 1..n : list[i] \in W /\ Place(W, k, list[i]) = i
    <2>1. n \in Nat /\ \A i \in 1..n : \E x \in W : Place(W, k, x) = i
      BY PlacesTaken
    <2> HIDE DEF n
    <2> QED
      BY <2>1
  <1>2. list \in [1..n -> W]
    BY <1>1
  <1> HIDE DEF list
  <1>3. ASSUME NEW i \in 1..n, NEW j \in 1..n, i < j PROVE k[list[i]] < k[list[j]]
    <2>1. list[i] \in W /\ list[j] \in W /\ Place(W, k, list[i]) = i /\ Place(W, k, list[j]) = j
      BY <1>1
    <2>2. k[list[i]] \in Int /\ k[list[j]] \in Int /\ i \in Nat /\ j \in Nat
      BY <1>1, <2>1 DEF Distinct
    <2>3. ~ (k[list[j]] <= k[list[i]])
      <3>1. k[list[j]] <= k[list[i]] => Place(W, k, list[j]) <= Place(W, k, list[i])
        BY <2>1, PlaceIs
      <3>2. k[list[j]] <= k[list[i]] => j <= i
        BY <2>1, <3>1
      <3> QED
        BY ONLY <1>3, <2>2, <3>2
    <2> QED
      BY ONLY <2>2, <2>3
  <1> QED
    BY <1>2, <1>3 DEF Sorted

\* A sorted listing leaves nothing out.
LEMMA SortedIsAll ==
    ASSUME NEW W, NEW k, Distinct(W, k), NEW list, Sorted(list, W, k)
    PROVE  \A x \in W : \E i \in 1..Cardinality(W) : list[i] = x
  <1> DEFINE n == Cardinality(W)
  <1>1. IsFiniteSet(W) /\ n \in Nat
    BY FS_CardinalityType DEF Distinct
  <1>2. list \in [1..n -> W] /\ \A i, j \in 1..n : i < j => k[list[i]] < k[list[j]]
    BY DEF Sorted
  <1>3. \A i \in 1..n : k[list[i]] \in Int
    BY <1>2 DEF Distinct
  <1> HIDE DEF n
  <1>4. \A i, j \in 1..n : list[i] = list[j] => i = j
    <2> TAKE i, j \in 1..n
    <2>1. i < j \/ j < i \/ i = j
      BY <1>1
    <2> QED
      BY <1>2, <1>3, <2>1
  <1>5. list \in Injection(1..n, W)
    BY <1>2, <1>4, Zenon DEF Injection, IsInjective
  <1>6. IsFiniteSet(1..n) /\ Cardinality(1..n) = n
    BY <1>1, FS_Interval
  <1>7. list \in Surjection(1..n, W)
    BY <1>1, <1>5, <1>6, FS_Injection DEF n
  <1> QED
    BY <1>7, Zenon DEF Surjection, n

-------------------------------------------------------------------------------
(* Images, greatest elements, and sums of sums.                            *)

Image(f, S) == {f[x] : x \in S}

LEMMA ImageFinite ==
    ASSUME NEW S, IsFiniteSet(S), NEW f
    PROVE  /\ IsFiniteSet(Image(f, S))
           /\ (\A x, y \in S : f[x] = f[y] => x = y) => Cardinality(Image(f, S)) = Cardinality(S)
  <1> DEFINE g == [x \in S |-> f[x]]
             T == Image(f, S)
  <1>1. g \in [S -> T] /\ \A y \in T : \E x \in S : g[x] = y
    BY DEF Image
  <1>2. g \in Surjection(S, T)
    <2> HIDE DEF g, T
    <2> QED
      BY <1>1, Zenon DEF Surjection
  <1>3. IsFiniteSet(T) /\ (g \in Injection(S, T) => Cardinality(T) = Cardinality(S))
    <2> HIDE DEF g, T
    <2> QED
      BY <1>2, FS_Surjection
  <1>4. (\A x, y \in S : f[x] = f[y] => x = y) => g \in Injection(S, T)
    <2> HAVE \A x, y \in S : f[x] = f[y] => x = y
    <2>1. \A x, y \in S : g[x] = g[y] => x = y
      OBVIOUS
    <2> HIDE DEF g, T
    <2> QED
      BY <1>1, <2>1, Zenon DEF Injection, IsInjective
  <1> QED
    BY <1>3, <1>4

LEMMA Maximum ==
    ASSUME NEW S, IsFiniteSet(S), S \subseteq Int, S # {}
    PROVE  Max(S) \in S /\ \A y \in S : y <= Max(S)
  <1> DEFINE k == [x \in S |-> x]
             n == Cardinality(S)
  <1>1. Distinct(S, k)
    BY DEF Distinct
  <1>2. n \in Nat /\ n # 0
    BY FS_CardinalityType, FS_EmptySet
  <1>3. \A x \in S : k[x] = x
    OBVIOUS
  <1> HIDE DEF k
  <1>4. PICK m \in S : Place(S, k, m) = n
    <2>1. n \in 1..n
      BY <1>2
    <2>2. \A i \in 1..n : \E x \in S : Place(S, k, x) = i
      BY <1>1, PlacesTaken
    <2> QED
      BY <2>1, <2>2
  <1>5. \A y \in S : y <= m
    <2> TAKE y \in S
    <2>1. Place(S, k, y) \in 1..n
      BY <1>1, PlaceIs
    <2>2. k[y] <= k[m]
      <3>1. Place(S, k, y) <= Place(S, k, m)
        BY <1>2, <1>4, <2>1
      <3> QED
        BY <1>1, <3>1, PlaceIs
    <2> QED
      BY <1>3, <2>2
  <1>6. \E x \in S : \A y \in S : x >= y
    BY <1>5
  <1>7. Max(S) \in S /\ \A y \in S : Max(S) >= y
    BY <1>6, Zenon DEF Max
  <1> QED
    BY <1>7

(* A sum is that over a part and that over the rest.                       *)
LEMMA SumSplit ==
    ASSUME NEW S, NEW f, Summable(f, S), NEW T \in SUBSET S
    PROVE  SumOver(f, S) = SumOver(f, T) + SumOver(f, S \ T)
  <1> USE DEF Summable
  <1> DEFINE Law(U) == SumOver(f, S) = SumOver(f, U) + SumOver(f, S \ U)
             F == {U \in SUBSET S : ~Law(U)}
  <1>0. SUFFICES ASSUME F # {} PROVE FALSE
    OBVIOUS
  <1>1. PICK U \in F : \A V \in F : V \subseteq U => V = U
    <2> HIDE DEF F
    <2>1. F \subseteq SUBSET S
      BY DEF F
    <2> QED
      BY <1>0, <2>1, SmallestSet
  <1>2. U \in SUBSET S /\ ~Law(U)
    BY <1>1
  <1>3. SumOver(f, S) \in Int
    BY SumType
  <1>4. U # {}
    <2> SUFFICES ASSUME U = {} PROVE FALSE
      OBVIOUS
    <2>1. S \ {} = S /\ SumOver(f, {}) = 0
      BY SumChoice, FS_EmptySet
    <2> QED
      BY ONLY <1>2, <1>3, <2>1, U = {}
  <1>5. PICK x : x \in U
    BY <1>4
  <1> DEFINE V == U \ {x}
  <1>6. V \in SUBSET S /\ V \subseteq U /\ V # U /\ x \in S \ V /\ (S \ V) \ {x} = S \ U
    BY <1>2, <1>5
  <1>7. Law(V)
    <2>1. V \notin F
      BY <1>1, <1>6
    <2> QED
      BY <1>6, <2>1
  <1>8. \A W \in SUBSET S : Summable(f, W) /\ SumOver(f, W) \in Int
    <2> TAKE W \in SUBSET S
    <2>1. Summable(f, W)
      BY FS_Subset
    <2> QED
      BY <2>1, SumType
  <1> HIDE DEF V, F
  <1>9. SumOver(f, U) = f[x] + SumOver(f, V)
    <2>1. U \ {x} = V /\ Summable(f, U)
      BY <1>2, <1>8 DEF V
    <2> QED
      BY <1>5, <2>1, SumRemove
  <1>10. SumOver(f, S \ V) = f[x] + SumOver(f, S \ U)
    <2>1. Summable(f, S \ V)
      BY <1>8
    <2> QED
      BY <1>6, <2>1, SumRemove
  <1>11. f[x] \in Int /\ SumOver(f, V) \in Int /\ SumOver(f, S \ U) \in Int
    BY <1>2, <1>5, <1>6, <1>8
  <1> QED
    BY <1>2, <1>7, <1>9, <1>10, <1>11

(* What is at most the sum of each part is at most the whole sum.          *)
LEMMA SumOfSums ==
    ASSUME NEW H, IsFiniteSet(H), NEW G, NEW w, Summable(w, G), NEW f, \A y \in G : f[y] \in H,
           NEW c, \A x \in H : c[x] \in Int /\ c[x] <= SumOver(w, Part(G, f, x))
    PROVE  SumOver(c, H) <= SumOver(w, G)
  <1> DEFINE Over(T) == {y \in G : f[y] \in T}
             F == {T \in SUBSET H : ~(SumOver(c, T) <= SumOver(w, Over(T)))}
  <1>0. SUFFICES ASSUME F # {} PROVE FALSE
    <2>1. Over(H) = G
      OBVIOUS
    <2> HIDE DEF Over
    <2>2. SumOver(c, H) <= SumOver(w, Over(H))
      OBVIOUS
    <2> QED
      BY <2>1, <2>2
  <1>1. PICK T \in F : \A U \in F : U \subseteq T => U = T
    <2> HIDE DEF F
    <2>1. F \subseteq SUBSET H
      BY DEF F
    <2> QED
      BY <1>0, <2>1, SmallestSet
  <1>2. T \in SUBSET H /\ IsFiniteSet(T) /\ ~(SumOver(c, T) <= SumOver(w, Over(T)))
    BY <1>1, FS_Subset
  <1>3. \A S : Over(S) \in SUBSET G /\ Summable(w, Over(S)) /\ SumOver(w, Over(S)) \in Int
    <2> TAKE S
    <2>1. Over(S) \in SUBSET G
      OBVIOUS
    <2> HIDE DEF Over
    <2>2. Summable(w, Over(S))
      BY <2>1, FS_Subset DEF Summable
    <2> QED
      BY <2>1, <2>2, SumType
  <1>4. \A U \in SUBSET T : Summable(c, U) /\ SumOver(c, U) \in Int
    <2> TAKE U \in SUBSET T
    <2>1. Summable(c, U)
      BY <1>2, FS_Subset DEF Summable
    <2> QED
      BY <2>1, SumType
  <1>5. T # {}
    <2> SUFFICES ASSUME T = {} PROVE FALSE
      OBVIOUS
    <2>1. Over({}) = {} /\ SumOver(c, {}) = 0 /\ SumOver(w, {}) = 0
      BY SumChoice, FS_EmptySet
    <2>2. SumOver(c, {}) <= SumOver(w, Over({}))
      BY <2>1
    <2> HIDE DEF Over
    <2> QED
      BY <1>2, <2>2
  <1>6. PICK x : x \in T
    BY <1>5
  <1> DEFINE U == T \ {x}
  <1>7. SumOver(c, T) = c[x] + SumOver(c, U)
    BY <1>4, <1>6, SumRemove
  <1>8. SumOver(c, U) <= SumOver(w, Over(U))
    BY <1>1, <1>2, <1>6
  <1>9. Over({x}) \in SUBSET Over(T) /\ Over(T) \ Over({x}) = Over(U) /\ Over({x}) = Part(G, f, x)
    BY <1>6 DEF Part
  <1>10. U \in SUBSET T
    OBVIOUS
  <1> HIDE DEF Over, F, U
  <1>11. SumOver(w, Over(T)) = SumOver(w, Over({x})) + SumOver(w, Over(U))
    <2>1. ASSUME NEW A, NEW B \in SUBSET A, Summable(w, A)
          PROVE  SumOver(w, A) = SumOver(w, B) + SumOver(w, A \ B)
      BY <2>1, SumSplit
    <2>2. Summable(w, Over(T))
      BY <1>3
    <2> QED
      BY <1>9, <2>1, <2>2
  <1>12. c[x] \in Int /\ c[x] <= SumOver(w, Over({x}))
    BY <1>2, <1>6, <1>9
  <1>13. SumOver(c, U) \in Int /\ SumOver(w, Over(U)) \in Int /\ SumOver(w, Over({x})) \in Int
         /\ SumOver(c, T) \in Int /\ SumOver(w, Over(T)) \in Int
    BY <1>3, <1>4, <1>10
  <1>14. ASSUME NEW t \in Int, NEW u \in Int, NEW p \in Int, NEW q \in Int, NEW y \in Int,
                t = y + u, u <= q, y <= p
         PROVE  t <= p + q
    BY <1>14
  <1>15. SumOver(c, T) <= SumOver(w, Over({x})) + SumOver(w, Over(U))
    BY ONLY <1>7, <1>8, <1>12, <1>13, <1>14
  <1> QED
    BY ONLY <1>2, <1>11, <1>15

(* Smaller summands make no greater sum.                                   *)
LEMMA SumAtMost ==
    ASSUME NEW S, NEW c, Summable(c, S), NEW w, Summable(w, S), \A x \in S : c[x] <= w[x]
    PROVE  SumOver(c, S) <= SumOver(w, S)
  <1> DEFINE f == [x \in S |-> x]
  <1>1. \A y \in S : f[y] \in S
    OBVIOUS
  <1>2. ASSUME NEW x \in S PROVE c[x] \in Int /\ c[x] <= SumOver(w, Part(S, f, x))
    <2>1. Part(S, f, x) = {x}
      BY DEF Part
    <2>2. Summable(w, {x}) /\ {x} \ {x} = {}
      BY FS_Singleton DEF Summable
    <2>3. SumOver(w, {x}) = w[x] + SumOver(w, {})
      BY <2>2, SumRemove
    <2>4. SumOver(w, {}) = 0
      BY SumChoice, FS_EmptySet
    <2>5. c[x] \in Int /\ w[x] \in Int /\ c[x] <= w[x]
      BY DEF Summable
    <2> HIDE DEF f
    <2>6. SumOver(w, Part(S, f, x)) = w[x]
      BY <2>1, <2>3, <2>4, <2>5
    <2> QED
      BY <2>5, <2>6
  <1>3. IsFiniteSet(S)
    BY DEF Summable
  <1> HIDE DEF f
  <1> QED
    BY <1>1, <1>2, <1>3, SumOfSums

-------------------------------------------------------------------------------
(* Ledger rows                                                             *)

Gained(E) == MapThenSumSet(LAMBDA e : e.diff, E)

\* The amounts of rows.
Diffs(E) == [e \in E |-> e.diff]

(* What rows add up to is a sum of values of a function.                   *)
LEMMA GainedIsSum ==
    ASSUME NEW E
    PROVE  Gained(E) = SumOver(Diffs(E), E)
  <1> DEFINE F       == Diffs(E)
             P(s, g) == IF s = {} THEN 0 ELSE Choice(s).diff + g[s \ {Choice(s)}]
             Q(s, g) == IF s = {} THEN 0 ELSE F[Choice(s)] + g[s \ {Choice(s)}]
  <1>1. ASSUME NEW g PROVE [s \in SUBSET E |-> P(s, g)] = [s \in SUBSET E |-> Q(s, g)]
    <2>1. ASSUME NEW s \in SUBSET E, s # {} PROVE F[Choice(s)] = Choice(s).diff
      <3>1. Choice(s) \in E
        BY <2>1 DEF Choice
      <3> QED
        BY <3>1 DEF Diffs
    <2>2. ASSUME NEW s \in SUBSET E PROVE P(s, g) = Q(s, g)
      <3> HIDE DEF F
      <3> QED
        BY <2>1
    <2> HIDE DEF P, Q
    <2> QED
      BY <2>2
  <1>2. Gained(E) = (CHOOSE g : g = [s \in SUBSET E |-> P(s, g)])[E]
    BY Zenon DEF Gained, MapThenSumSet, MapThenFoldSet, Choice
  <1>3. SumOver(F, E) = (CHOOSE g : g = [s \in SUBSET E |-> Q(s, g)])[E]
    BY Zenon DEF SumOver, MapThenSumSet, MapThenFoldSet, Choice
  <1>4. (CHOOSE g : g = [s \in SUBSET E |-> P(s, g)]) = (CHOOSE g : g = [s \in SUBSET E |-> Q(s, g)])
    <2>1. \A g : g = [s \in SUBSET E |-> P(s, g)] <=> g = [s \in SUBSET E |-> Q(s, g)]
      <3> HIDE DEF P, Q
      <3> QED
        BY <1>1
    <2> HIDE DEF P, Q
    <2> QED
      BY <2>1, Zenon
  <1> QED
    BY <1>2, <1>3, <1>4

(* Rows that can be added up.                                              *)
Countable(E) == IsFiniteSet(E) /\ \A e \in E : e.diff \in Int

LEMMA CountableSums ==
    ASSUME NEW E, Countable(E)
    PROVE  /\ Summable(Diffs(E), E)
           /\ \A S \in SUBSET E : /\ Countable(S) /\ Summable(Diffs(E), S)
                                  /\ Gained(S) = SumOver(Diffs(E), S)
  <1>1. Summable(Diffs(E), E)
    BY DEF Countable, Summable, Diffs
  <1>2. ASSUME NEW S \in SUBSET E
        PROVE  /\ Countable(S) /\ Summable(Diffs(E), S)
               /\ Gained(S) = SumOver(Diffs(E), S)
    <2>1. IsFiniteSet(S)
      BY FS_Subset DEF Countable
    <2>2. Countable(S) /\ Summable(Diffs(E), S)
      BY <2>1 DEF Countable, Summable, Diffs
    <2>3. \A x \in S : Diffs(S)[x] = Diffs(E)[x]
      BY DEF Diffs
    <2>4. SumOver(Diffs(S), S) = SumOver(Diffs(E), S)
      BY <2>1, <2>3, SumSame
    <2> QED
      BY <2>2, <2>4, GainedIsSum
  <1> QED
    BY <1>1, <1>2

(* No rows bring nothing, rows bring an integer, and each row its amount.  *)
LEMMA GainedByNone == Gained({}) = 0
  <1>1. Gained({}) = SumOver(Diffs({}), {})
    BY GainedIsSum
  <1>2. SumOver(Diffs({}), {}) = 0
    BY FS_EmptySet, SumChoice
  <1> QED
    BY <1>1, <1>2

LEMMA GainedType ==
    ASSUME NEW E, Countable(E)
    PROVE  Gained(E) \in Int
  <1>1. E \in SUBSET E
    OBVIOUS
  <1>2. Gained(E) = SumOver(Diffs(E), E) /\ Summable(Diffs(E), E)
    BY <1>1, CountableSums
  <1> QED
    BY <1>2, SumType

LEMMA GainedWith ==
    ASSUME NEW E, NEW row, row \notin E, Countable(E), row.diff \in Int
    PROVE  /\ Countable(E \cup {row})
           /\ Gained(E \cup {row}) = Gained(E) + row.diff
  <1> DEFINE B == E \cup {row}
  <1>1. Countable(B)
    BY FS_AddElement DEF Countable
  <1>2. B \in SUBSET B /\ E \in SUBSET B /\ row \in B
    OBVIOUS
  <1>3. /\ Gained(B) = SumOver(Diffs(B), B) /\ Gained(E) = SumOver(Diffs(B), E)
        /\ Summable(Diffs(B), B)
    <2> HIDE DEF B
    <2> QED
      BY <1>1, <1>2, CountableSums
  <1>4. Diffs(B)[row] = row.diff
    BY <1>2 DEF Diffs
  <1>5. SumOver(Diffs(B), E \cup {row}) = SumOver(Diffs(B), E) + Diffs(B)[row]
    <2>1. Summable(Diffs(B), E \cup {row})
      BY <1>3
    <2> DEFINE f == Diffs(B)
    <2>2. Summable(f, E \cup {row})
      BY <2>1
    <2> HIDE DEF f
    <2>3. SumOver(f, E \cup {row}) = SumOver(f, E) + f[row]
      BY <2>2, SumAdd
    <2> QED
      BY <2>3 DEF f
  <1> QED
    BY <1>1, <1>3, <1>4, <1>5

(* More rows that take nothing back bring no less.                         *)
LEMMA GainedMonotone ==
    ASSUME NEW E, NEW S \in SUBSET E, Countable(E), \A e \in E \ S : e.diff >= 0
    PROVE  Gained(S) <= Gained(E)
  <1>1. E \in SUBSET E
    OBVIOUS
  <1>2. /\ Gained(E) = SumOver(Diffs(E), E) /\ Gained(S) = SumOver(Diffs(E), S)
        /\ Summable(Diffs(E), E)
    BY <1>1, CountableSums
  <1> DEFINE f == Diffs(E)
  <1>3. \A e \in E \ S : f[e] >= 0
    BY DEF Diffs
  <1>4. Summable(f, E)
    BY <1>2
  <1>5. SumOver(f, S) <= SumOver(f, E)
    <2> HIDE DEF f
    <2> QED
      BY <1>3, <1>4, SumMonotone
  <1> QED
    BY <1>2, <1>5

-------------------------------------------------------------------------------
(* Awards                                                                  *)

\* The total of each user is what there was at the start and what the log says.
Balanced(x, start) ==
    /\ x.exp \in [Users -> Int] /\ Countable(x.log)
    /\ \A u \in Users : x.exp[u] = start[u] + Earned(x, u)

LedgerRow(u, kind, diff, at) == [user |-> u, kind |-> kind, diff |-> diff, at |-> at]

\* y is x with one more row.
Pays(x, y, row) ==
    /\ row \notin x.log /\ y.log = x.log \cup {row}
    /\ y.exp = [x.exp EXCEPT ![row.user] = @ + row.diff]

(* An award is a new row, or nothing.                                      *)
LEMMA AwardRow ==
    ASSUME NEW x, NEW u, NEW kind, NEW diff, NEW at
    PROVE  \/ Award(x, u, kind, diff, at) = x /\ (diff = 0 \/ u \notin Named \/ Has(x, u, kind))
           \/ /\ diff # 0 /\ u \in Named /\ ~Has(x, u, kind)
              /\ Pays(x, Award(x, u, kind, diff, at), LedgerRow(u, kind, diff, at))
  BY DEF Award, Has, LedgerRow, Pays

(* It keeps the balance.                                                   *)
LEMMA AwardBalanced ==
    ASSUME NEW x, NEW start \in [Users -> Int], Balanced(x, start),
           NEW u \in Users, NEW kind, NEW diff \in Int, NEW at
    PROVE  Balanced(Award(x, u, kind, diff, at), start)
  <1> DEFINE y   == Award(x, u, kind, diff, at)
             row == LedgerRow(u, kind, diff, at)
  <1>1. CASE y = x
    BY <1>1
  <1>2. CASE Pays(x, y, row)
    <2> HIDE DEF y
    <2>1. row.diff \in Int /\ row.diff = diff /\ row.user = u
      BY DEF LedgerRow
    <2> HIDE DEF row
    <2>2. /\ x.exp \in [Users -> Int] /\ Countable(x.log)
          /\ row \notin x.log /\ y.log = x.log \cup {row}
          /\ y.exp = [x.exp EXCEPT ![u] = @ + diff]
      BY <1>2, <2>1 DEF Balanced, Pays
    <2>3. y.exp \in [Users -> Int] /\ Countable(y.log)
      BY <2>1, <2>2, GainedWith
    <2>4. ASSUME NEW v \in Users PROVE y.exp[v] = start[v] + Earned(y, v)
      <3> DEFINE E == {e \in x.log : e.user = v}
                 D == {e \in y.log : e.user = v}
      <3>1. Earned(x, v) = Gained(E) /\ Earned(y, v) = Gained(D)
        BY Zenon DEF Earned, Gained
      <3>2. Countable(E)
        BY <2>2, CountableSums
      <3>3. Gained(E) \in Int /\ start[v] \in Int
        <4> HIDE DEF E
        <4> QED
          BY <3>2, GainedType
      <3>4. x.exp[v] = start[v] + Gained(E)
        BY <3>1 DEF Balanced
      <3>5. CASE v = u
        <4>1. D = E \cup {row} /\ row \notin E
          BY <2>1, <2>2, <3>5
        <4>2. Gained(D) = Gained(E) + diff
          <5> HIDE DEF E, D
          <5> QED
            BY <2>1, <3>2, <4>1, GainedWith
        <4>3. y.exp[v] = x.exp[v] + diff
          BY <2>2, <3>5
        <4> HIDE DEF E, D
        <4> QED
          BY <3>1, <3>3, <3>4, <4>2, <4>3
      <3>6. CASE v # u
        <4>1. D = E
          BY <2>1, <2>2, <3>6
        <4>2. y.exp[v] = x.exp[v]
          BY <2>2, <3>6
        <4> QED
          BY <3>1, <3>4, <4>1, <4>2
      <3> QED
        BY <3>5, <3>6
    <2> QED
      BY <2>3, <2>4 DEF Balanced, y
  <1>3. y = x \/ Pays(x, y, row)
    BY AwardRow, Zenon
  <1> QED
    BY <1>1, <1>2, <1>3

-------------------------------------------------------------------------------
(* Awards made one after the other, in any order (FoldSet)                 *)

Paid(y, k, u, at) == Award(y, u, k.kind, k.diff, at)

InTurn(x, K, u, at) == FoldSet(LAMBDA k, y : Paid(y, k, u, at), x, K)

AwardStep(x, u, at, g, s) ==
    IF s = {} THEN x ELSE Paid(g[s \ {Choice(s)}], Choice(s), u, at)

\* g has the ledger after each set of awards.
Awards(x, u, at, g, K) == g = [s \in SUBSET K |-> AwardStep(x, u, at, g, s)]

LEMMA OneMoreAward ==
    ASSUME NEW K, NEW x, NEW u, NEW at, NEW g, Awards(x, u, at, g, K), NEW s \in SUBSET K
    PROVE  /\ s = {} => g[s] = x
           /\ s # {} => /\ Choice(s) \in s
                        /\ s \ {Choice(s)} \in SUBSET K
                        /\ g[s] = Paid(g[s \ {Choice(s)}], Choice(s), u, at)
  <1>1. g[s] = AwardStep(x, u, at, g, s)
    <2> HIDE DEF AwardStep
    <2> QED
      BY DEF Awards
  <1>2. s # {} => Choice(s) \in s
    BY DEF Choice
  <1> HIDE DEF Choice
  <1> QED
    BY <1>1, <1>2 DEF AwardStep

LEMMA NoAwards ==
    ASSUME NEW K, NEW x, NEW u, NEW at, NEW g, Awards(x, u, at, g, K)
    PROVE  g[{}] = x
  <1>1. g[{}] = AwardStep(x, u, at, g, {})
    BY DEF Awards
  <1>2. AwardStep(x, u, at, g, {}) = x
    BY DEF AwardStep
  <1> QED
    BY <1>1, <1>2

(* The outcome is determined, as for sums.                                 *)
LEMMA AwardsAgree ==
    ASSUME NEW K, NEW L, NEW x, NEW u, NEW at, NEW g, NEW h,
           Awards(x, u, at, g, K), Awards(x, u, at, h, L),
           NEW s, s \subseteq K, s \subseteq L, IsFiniteSet(s)
    PROVE  g[s] = h[s]
  <1> DEFINE F == {r \in SUBSET s : g[r] # h[r]}
  <1> SUFFICES ASSUME F # {} PROVE FALSE
    BY DEF F
  <1>0. F \subseteq SUBSET s
    OBVIOUS
  <1>1. PICK r \in F : \A v \in F : v \subseteq r => v = r
    <2> HIDE DEF F
    <2> QED
      BY <1>0, SmallestSet
  <1>2. r \in SUBSET K /\ r \in SUBSET L /\ g[r] # h[r]
    BY <1>1
  <1>3. r # {}
    <2>1. g[{}] = x /\ h[{}] = x
      BY NoAwards
    <2> QED
      BY <1>2, <2>1
  <1>4. /\ Choice(r) \in r
        /\ g[r] = Paid(g[r \ {Choice(r)}], Choice(r), u, at)
        /\ h[r] = Paid(h[r \ {Choice(r)}], Choice(r), u, at)
    BY <1>2, <1>3, OneMoreAward
  <1>5. g[r \ {Choice(r)}] = h[r \ {Choice(r)}]
    <2> HIDE DEF Choice
    <2> QED
      BY <1>1, <1>4
  <1> QED
    BY <1>2, <1>4, <1>5

(* And there is one.                                                       *)
LEMMA AwardsExist ==
    ASSUME NEW K, IsFiniteSet(K), NEW x, NEW u, NEW at
    PROVE  \E g : Awards(x, u, at, g, K)
  <1> DEFINE F == {T \in SUBSET K : ~ \E g : Awards(x, u, at, g, T)}
  <1> SUFFICES ASSUME F # {} PROVE FALSE
    <2>1. K \in SUBSET K
      OBVIOUS
    <2> QED
      BY <2>1
  <1>0. F \subseteq SUBSET K
    OBVIOUS
  <1>1. PICK T \in F : \A U \in F : U \subseteq T => U = T
    <2> HIDE DEF F
    <2> QED
      BY <1>0, SmallestSet
  <1> DEFINE G(U) == CHOOSE g : Awards(x, u, at, g, U)
             V(U) == U \ {Choice(U)}
             L(U) == IF U = {} THEN x ELSE Paid(G(V(U))[V(U)], Choice(U), u, at)
             h    == [U \in SUBSET T |-> L(U)]
  <1>2. ASSUME NEW U \in SUBSET T, U # T PROVE Awards(x, u, at, G(U), U)
    <2>1. U \in SUBSET K
      BY <1>1
    <2>2. U \notin F
      BY <1>1, <1>2
    <2>3. \E g : Awards(x, u, at, g, U)
      BY <2>1, <2>2
    <2> QED
      BY <2>3, Zenon
  <1>3. ASSUME NEW U \in SUBSET T, U # {} PROVE h[V(U)] = G(V(U))[V(U)]
    <2> DEFINE W == V(U)
    <2>2. W \in SUBSET T /\ W # T /\ IsFiniteSet(W)
      <3>1. Choice(U) \in U
        BY <1>3 DEF Choice
      <3>2. IsFiniteSet(T)
        BY <1>1, FS_Subset
      <3>3. V(U) \in SUBSET T /\ V(U) # T
        <4> HIDE DEF Choice
        <4> QED
          BY <3>1
      <3> QED
        BY <3>2, <3>3, FS_Subset
    <2> HIDE DEF W
    <2>3. Awards(x, u, at, G(W), W)
      BY <1>2, <2>2
    <2>4. h[W] = L(W)
      <3> HIDE DEF L
      <3> QED
        BY <2>2
    <2>5. CASE W = {}
      <3>1. G(W)[{}] = x
        <4> HIDE DEF G
        <4> QED
          BY <2>3, NoAwards
      <3> QED
        BY <2>4, <2>5, <3>1 DEF W
    <2>6. CASE W # {}
      <3> DEFINE X == V(W)
      <3>1. X \in SUBSET W /\ X # W
        <4>1. Choice(W) \in W
          BY <2>6 DEF Choice
        <4> HIDE DEF Choice
        <4> QED
          BY <4>1
      <3>2. X \in SUBSET T /\ X # T /\ IsFiniteSet(X)
        <4> HIDE DEF X
        <4> QED
          BY <3>1, <2>2, FS_Subset
      <3>3. G(W)[W] = Paid(G(W)[X], Choice(W), u, at)
        <4> HIDE DEF G
        <4>1. W \in SUBSET W
          OBVIOUS
        <4> QED
          BY <2>3, <2>6, <4>1, OneMoreAward
      <3>4. L(W) = Paid(G(X)[X], Choice(W), u, at)
        BY <2>6, Zenon
      <3> HIDE DEF X
      <3>5. Awards(x, u, at, G(X), X)
        BY <1>2, <3>2
      <3>6. G(W)[X] = G(X)[X]
        <4> HIDE DEF G
        <4> QED
          BY <2>3, <3>1, <3>2, <3>5, AwardsAgree
      <3> QED
        BY <2>4, <3>3, <3>4, <3>6 DEF W
    <2> QED
      BY <2>5, <2>6
  <1>4. \A U \in SUBSET T : L(U) = AwardStep(x, u, at, h, U)
    <2> SUFFICES ASSUME NEW U \in SUBSET T PROVE L(U) = AwardStep(x, u, at, h, U)
      OBVIOUS
    <2> HIDE DEF h, G
    <2> QED
      BY <1>3 DEF AwardStep
  <1>5. Awards(x, u, at, h, T)
    <2> DEFINE R(U) == AwardStep(x, u, at, h, U)
    <2>1. \A U \in SUBSET T : L(U) = R(U)
      BY <1>4
    <2>2. h = [U \in SUBSET T |-> L(U)]
      BY Zenon
    <2> HIDE DEF L, R
    <2>3. h = [U \in SUBSET T |-> R(U)]
      BY <2>1, <2>2
    <2> HIDE DEF h
    <2> QED
      BY <2>3, Zenon DEF R, Awards
  <1> QED
    BY <1>1, <1>5

LEMMA InTurnIs ==
    ASSUME NEW K, IsFiniteSet(K), NEW x, NEW u, NEW at, NEW g, Awards(x, u, at, g, K)
    PROVE  InTurn(x, K, u, at) = g[K]
  <1> DEFINE h == CHOOSE h : Awards(x, u, at, h, K)
  <1>1. Awards(x, u, at, h, K)
    BY Zenon
  <1>2. InTurn(x, K, u, at) = h[K]
    BY Zenon DEF InTurn, FoldSet, MapThenFoldSet, Awards, AwardStep, Choice
  <1> HIDE DEF h
  <1>3. h[K] = g[K]
    BY <1>1, AwardsAgree
  <1> QED
    BY <1>2, <1>3

(* Awards in turn are in a set of ledgers that each single award stays in. *)
LEMMA AwardsStay ==
    ASSUME NEW K, IsFiniteSet(K), NEW u, NEW at, NEW Good, NEW x \in Good,
           \A y \in Good, k \in K : Paid(y, k, u, at) \in Good
    PROVE  InTurn(x, K, u, at) \in Good
  <1>1. PICK g : Awards(x, u, at, g, K)
    BY AwardsExist
  <1>2. InTurn(x, K, u, at) = g[K]
    BY <1>1, InTurnIs
  <1> DEFINE F == {T \in SUBSET K : g[T] \notin Good}
  <1> SUFFICES ASSUME F # {} PROVE FALSE
    <2>1. K \in SUBSET K
      OBVIOUS
    <2> QED
      BY <1>2, <2>1
  <1>3. F \subseteq SUBSET K
    OBVIOUS
  <1>4. PICK T \in F : \A U \in F : U \subseteq T => U = T
    <2> HIDE DEF F
    <2> QED
      BY <1>3, SmallestSet
  <1>5. T \in SUBSET K /\ g[T] \notin Good
    BY <1>4
  <1>6. T # {}
    <2>1. g[{}] = x
      BY <1>1, NoAwards
    <2> QED
      BY <1>5, <2>1
  <1>7. /\ Choice(T) \in T /\ T \ {Choice(T)} \in SUBSET K
        /\ g[T] = Paid(g[T \ {Choice(T)}], Choice(T), u, at)
    BY <1>1, <1>5, <1>6, OneMoreAward
  <1>8. g[T \ {Choice(T)}] \in Good
    <2> HIDE DEF Choice
    <2> QED
      BY <1>4, <1>7
  <1> QED
    BY <1>5, <1>7, <1>8
(* What was owed is paid: after the awards the log has each of their kinds.*)
LEMMA AwardsReach ==
    ASSUME NEW K, IsFiniteSet(K), NEW u \in Named, NEW at, NEW x, \A k \in K : k.diff # 0
    PROVE  \A k \in K : Has(InTurn(x, K, u, at), u, k.kind)
  <1>1. PICK g : Awards(x, u, at, g, K) /\ InTurn(x, K, u, at) = g[K]
    BY AwardsExist, InTurnIs
  <1> DEFINE F == {T \in SUBSET K : \E k \in T : ~Has(g[T], u, k.kind)}
  <1> SUFFICES ASSUME F # {} PROVE FALSE
    <2>1. K \in SUBSET K
      OBVIOUS
    <2> QED
      BY <1>1, <2>1
  <1>2. F \subseteq SUBSET K
    OBVIOUS
  <1>3. PICK T \in F : \A U \in F : U \subseteq T => U = T
    <2> HIDE DEF F
    <2> QED
      BY <1>2, SmallestSet
  <1>4. PICK k \in T : ~Has(g[T], u, k.kind)
    BY <1>3
  <1> DEFINE c == Choice(T)
             y == g[T \ {c}]
  <1>5. /\ c \in T /\ T \ {c} \in SUBSET K /\ T \in SUBSET K
        /\ g[T] = Paid(y, c, u, at)
    <2>1. T \in SUBSET K /\ T # {}
      BY <1>3, <1>4
    <2> QED
      BY <1>1, <2>1, OneMoreAward
  <1>6. \A l \in T \ {c} : Has(y, u, l.kind)
    <2> HIDE DEF c
    <2>1. T \ {c} \notin F
      BY <1>3, <1>5
    <2> QED
      BY <1>5, <2>1
  <1> HIDE DEF c, y
  <1>7. c.diff # 0
    BY <1>5
  <1>8. \A kind : Has(y, u, kind) => Has(Paid(y, c, u, at), u, kind)
    BY <1>7 DEF Paid, Award, Has
  <1>9. Has(Paid(y, c, u, at), u, c.kind)
    <2> DEFINE row == [user |-> u, kind |-> c.kind, diff |-> c.diff, at |-> at]
    <2>1. CASE Has(y, u, c.kind)
      BY <1>8, <2>1
    <2>2. CASE ~Has(y, u, c.kind)
      <3>1. Paid(y, c, u, at).log = y.log \cup {row}
        BY <1>7, <2>2 DEF Paid, Award
      <3>2. row \in Paid(y, c, u, at).log /\ row.user = u /\ row.kind = c.kind
        BY <3>1
      <3> QED
        BY <3>2 DEF Has
    <2> QED
      BY <2>1, <2>2
  <1> QED
    BY <1>4, <1>5, <1>6, <1>8, <1>9
===============================================================================
