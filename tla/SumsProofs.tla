----------------------------- MODULE SumsProofs -----------------------------
(***************************************************************************)
(* Facts about sums over finite sets.  They are proved by the least number *)
(* principle for sets: among finite sets that refute a fact there is one   *)
(* that is smallest, and taking a member away from it refutes the fact     *)
(* once more.                                                              *)
(***************************************************************************)
EXTENDS Sums, FiniteSetTheorems, WellFoundedInduction, TLAPS

FirstOf(s) == CHOOSE x \in s : TRUE

\* g holds the sums of all subsets of S, each from that of a smaller one.
IsPartialSums(g, f, S) ==
  g = [s \in SUBSET S |-> IF s = {} THEN 0 ELSE f[FirstOf(s)] + g[s \ {FirstOf(s)}]]
PartialSums(f, S) == CHOOSE g : IsPartialSums(g, f, S)

\* The fold of the community modules, for functions.
LEMMA SumIsPartialSum == ASSUME NEW f, NEW S PROVE Sum(f, S) = PartialSums(f, S)[S]
  BY DEF Sum, MapThenSumSet, MapThenFoldSet, PartialSums, IsPartialSums, FirstOf

-----------------------------------------------------------------------------
\* A set of finite sets that is not empty has a member none of whose strict subsets belongs to it.
LEMMA SmallestSet ==
  ASSUME NEW S, IsFiniteSet(S), NEW B, B \subseteq SUBSET S, B # {}
  PROVE  \E T \in B : \A U \in B : U \subseteq T => U = T
  <1>1. IsWellFoundedOn(StrictSubsetOrdering(S), FiniteSubsetsOf(S))
    BY FS_StrictSubsetOrderingWellFounded
  <1>2. FiniteSubsetsOf(S) = SUBSET S
    BY FS_FiniteSubsetsOfFinite
  <1>3. \E T \in B : \A U \in B : ~ (<<U, T>> \in StrictSubsetOrdering(S))
    BY <1>1, <1>2, WFMin
  <1> QED
    BY <1>3 DEF StrictSubsetOrdering
\* Two partial sums agree on the finite sets both know.
LEMMA PartialsAgree ==
  ASSUME NEW f, NEW A, NEW B, NEW g, NEW h, IsPartialSums(g, f, A), IsPartialSums(h, f, B),
         NEW S, IsFiniteSet(S), S \subseteq A, S \subseteq B
  PROVE  g[S] = h[S]
  <1> DEFINE Bad == {T \in SUBSET S : g[T] # h[T]}
  <1>1. SUFFICES ASSUME g[S] # h[S] PROVE FALSE
    OBVIOUS
  <1>2. S \in Bad
    BY <1>1
  <1>3. PICK T \in Bad : \A U \in Bad : U \subseteq T => U = T
    <2>1. Bad \subseteq SUBSET S /\ Bad # {}
      BY <1>2
    <2> HIDE DEF Bad
    <2> QED
      BY <2>1, SmallestSet
  <1>4. CASE T = {}
    <2>1. T \in SUBSET A /\ T \in SUBSET B
      OBVIOUS
    <2>2. g[T] = 0 /\ h[T] = 0
      BY <1>4, <2>1 DEF IsPartialSums
    <2> QED
      BY <1>3, <2>2
  <1>5. CASE T # {}
    <2>1. FirstOf(T) \in T
      BY <1>5 DEF FirstOf
    <2>2. T \ {FirstOf(T)} \notin Bad
      BY <1>3, <2>1
    <2>3. g[T \ {FirstOf(T)}] = h[T \ {FirstOf(T)}]
      BY <2>2
    <2>4. /\ T \in SUBSET A /\ T \in SUBSET B
          /\ g[T] = f[FirstOf(T)] + g[T \ {FirstOf(T)}]
          /\ h[T] = f[FirstOf(T)] + h[T \ {FirstOf(T)}]
      BY <1>5 DEF IsPartialSums
    <2> QED
      BY <2>3, <2>4, <1>3
  <1> QED
    BY <1>4, <1>5

\* The partial sums of a finite set exist.
LEMMA PartialsExist ==
  ASSUME NEW f, NEW S, IsFiniteSet(S)
  PROVE  IsPartialSums(PartialSums(f, S), f, S)
  <1> DEFINE Good(T) == \E g : IsPartialSums(g, f, T)
             Bad == {T \in SUBSET S : ~Good(T)}
  <1>1. SUFFICES Bad = {}
    <2>1. Good(S)
      BY <1>1
    <2> QED
      BY <2>1 DEF PartialSums
  <1>2. SUFFICES ASSUME Bad # {} PROVE FALSE
    OBVIOUS
  <1>3. PICK T \in Bad : \A U \in Bad : U \subseteq T => U = T
    <2>1. Bad \subseteq SUBSET S /\ Bad # {}
      BY <1>2
    <2> HIDE DEF Bad
    <2> QED
      BY <2>1, SmallestSet
  <1> DEFINE h == [U \in (SUBSET T) \ {T} |-> PartialSums(f, U)[U]]
             g == [U \in SUBSET T |-> IF U = {} THEN 0 ELSE f[FirstOf(U)] + h[U \ {FirstOf(U)}]]
  <1>4. ASSUME NEW U \in (SUBSET T) \ {T} PROVE IsPartialSums(PartialSums(f, U), f, U)
    <2>1. U \in SUBSET S /\ U \notin Bad
      BY <1>3
    <2>2. Good(U)
      BY <2>1
    <2> QED
      BY <2>2 DEF PartialSums
  <1>5. ASSUME NEW U \in (SUBSET T) \ {T} PROVE h[U] = g[U]
    <2>1. PartialSums(f, U)[U] = IF U = {} THEN 0 ELSE f[FirstOf(U)] + PartialSums(f, U)[U \ {FirstOf(U)}]
      BY <1>4 DEF IsPartialSums
    <2>2. CASE U = {}
      BY <2>1, <2>2
    <2>3. CASE U # {}
      <3> DEFINE V == U \ {FirstOf(U)}
      <3>1. FirstOf(U) \in U /\ V \in (SUBSET T) \ {T}
        BY <2>3 DEF FirstOf
      <3>2. IsFiniteSet(V)
        BY <3>1, FS_Subset
      <3>3. PartialSums(f, U)[V] = PartialSums(f, V)[V]
        BY <1>4, <3>1, <3>2, PartialsAgree
      <3> QED
        BY <2>1, <2>3, <3>1, <3>3
    <2> QED
      BY <2>2, <2>3
  <1>6. \A U \in SUBSET T : U # {} => U \ {FirstOf(U)} \in (SUBSET T) \ {T}
    BY DEF FirstOf
  <1>7. \A U \in SUBSET T : U # {} => h[U \ {FirstOf(U)}] = g[U \ {FirstOf(U)}]
    BY <1>5, <1>6
  <1>8. g = [U \in SUBSET T |-> IF U = {} THEN 0 ELSE f[FirstOf(U)] + g[U \ {FirstOf(U)}]]
    <2>1. ASSUME NEW U \in SUBSET T
          PROVE  g[U] = IF U = {} THEN 0 ELSE f[FirstOf(U)] + g[U \ {FirstOf(U)}]
      <3>1. g[U] = IF U = {} THEN 0 ELSE f[FirstOf(U)] + h[U \ {FirstOf(U)}]
        OBVIOUS
      <3> HIDE DEF g, h
      <3> QED
        BY <1>7, <3>1
    <2>2. g = [U \in SUBSET T |-> g[U]]
      OBVIOUS
    <2> HIDE DEF g
    <2> QED
      BY <2>1, <2>2
  <1>9. Good(T)
    <2> HIDE DEF g
    <2> QED
      BY <1>8 DEF IsPartialSums
  <1> QED
    BY <1>3, <1>9

\* Nothing adds up to zero.
LEMMA SumEmpty == ASSUME NEW f PROVE Sum(f, {}) = 0
  <1>1. IsPartialSums(PartialSums(f, {}), f, {})
    BY PartialsExist, FS_EmptySet
  <1> QED
    BY <1>1, SumIsPartialSum DEF IsPartialSums

\* The equation of the fold.
LEMMA SumUnfold ==
  ASSUME NEW f, NEW S, IsFiniteSet(S), S # {}
  PROVE  Sum(f, S) = f[FirstOf(S)] + Sum(f, S \ {FirstOf(S)})
  <1> DEFINE R == S \ {FirstOf(S)}
  <1>1. IsPartialSums(PartialSums(f, S), f, S)
    BY PartialsExist
  <1>2. IsFiniteSet(R)
    BY FS_Subset
  <1>3. IsPartialSums(PartialSums(f, R), f, R)
    BY <1>2, PartialsExist
  <1>4. PartialSums(f, S)[R] = PartialSums(f, R)[R]
    BY <1>1, <1>2, <1>3, PartialsAgree
  <1>5. PartialSums(f, S)[S] = f[FirstOf(S)] + PartialSums(f, S)[R]
    BY <1>1 DEF IsPartialSums
  <1> QED
    BY <1>4, <1>5, SumIsPartialSum

\* Integers add up to an integer.
LEMMA SumInt ==
  ASSUME NEW f, NEW S, IsFiniteSet(S), \A x \in S : f[x] \in Int
  PROVE  Sum(f, S) \in Int
  <1> DEFINE Bad == {T \in SUBSET S : Sum(f, T) \notin Int}
  <1>1. SUFFICES ASSUME Bad # {} PROVE FALSE
    OBVIOUS
  <1>2. PICK T \in Bad : \A U \in Bad : U \subseteq T => U = T
    <2>1. Bad \subseteq SUBSET S
      OBVIOUS
    <2> HIDE DEF Bad
    <2> QED
      BY <1>1, <2>1, SmallestSet
  <1>3. T # {}
    BY <1>2, SumEmpty
  <1>4. FirstOf(T) \in T /\ f[FirstOf(T)] \in Int
    BY <1>2, <1>3 DEF FirstOf
  <1>5. T \ {FirstOf(T)} \notin Bad
    BY <1>2, <1>4
  <1>6. Sum(f, T \ {FirstOf(T)}) \in Int
    BY <1>5
  <1>7. Sum(f, T) = f[FirstOf(T)] + Sum(f, T \ {FirstOf(T)})
    BY <1>3, FS_Subset, SumUnfold
  <1> QED
    BY <1>2, <1>4, <1>6, <1>7

\* Any member may be the first that is added.
LEMMA SumRemove ==
  ASSUME NEW f, NEW S, IsFiniteSet(S), \A x \in S : f[x] \in Int, NEW a \in S
  PROVE  Sum(f, S) = f[a] + Sum(f, S \ {a})
  <1> DEFINE Bad == {T \in SUBSET S : \E x \in T : Sum(f, T) # f[x] + Sum(f, T \ {x})}
  <1>1. SUFFICES ASSUME Bad # {} PROVE FALSE
    BY Zenon
  <1>2. PICK T \in Bad : \A U \in Bad : U \subseteq T => U = T
    <2>1. Bad \subseteq SUBSET S
      OBVIOUS
    <2> HIDE DEF Bad
    <2> QED
      BY <1>1, <2>1, SmallestSet
  <1>3. PICK x \in T : Sum(f, T) # f[x] + Sum(f, T \ {x})
    BY <1>2
  <1> DEFINE p == FirstOf(T)
  <1>4. p \in T
    BY <1>3 DEF FirstOf
  <1>5. \A U \in SUBSET T : IsFiniteSet(U) /\ Sum(f, U) \in Int
    BY FS_Subset, SumInt
  <1>6. Sum(f, T) = f[p] + Sum(f, T \ {p})
    BY <1>3, <1>5, SumUnfold
  <1>7. x # p
    BY <1>3, <1>6
  <1>8. T \ {p} \notin Bad /\ T \ {x} \notin Bad
    BY <1>2, <1>4, <1>3
  <1>9. Sum(f, T \ {p}) = f[x] + Sum(f, (T \ {p}) \ {x})
    BY <1>8, <1>7
  <1>10. Sum(f, T \ {x}) = f[p] + Sum(f, (T \ {x}) \ {p})
    BY <1>8, <1>7, <1>4
  <1>11. (T \ {p}) \ {x} = (T \ {x}) \ {p}
    OBVIOUS
  <1>12. f[x] \in Int /\ f[p] \in Int /\ Sum(f, (T \ {p}) \ {x}) \in Int
    BY <1>4, <1>5
  <1> HIDE DEF p
  <1> QED
    BY <1>3, <1>6, <1>9, <1>10, <1>11, <1>12

\* The sum of larger numbers is larger.
LEMMA SumAtMost ==
  ASSUME NEW f, NEW g, NEW S, IsFiniteSet(S),
         \A x \in S : f[x] \in Int /\ g[x] \in Int /\ f[x] =< g[x]
  PROVE  Sum(f, S) =< Sum(g, S)
  <1> DEFINE Bad == {T \in SUBSET S : ~ (Sum(f, T) =< Sum(g, T))}
  <1>1. SUFFICES ASSUME Bad # {} PROVE FALSE
    OBVIOUS
  <1>2. PICK T \in Bad : \A U \in Bad : U \subseteq T => U = T
    <2>1. Bad \subseteq SUBSET S
      OBVIOUS
    <2> HIDE DEF Bad
    <2> QED
      BY <1>1, <2>1, SmallestSet
  <1>3. T # {}
    <2>1. Sum(f, {}) = 0 /\ Sum(g, {}) = 0
      BY SumEmpty
    <2>2. Sum(f, {}) =< Sum(g, {})
      BY <2>1
    <2> QED
      BY <1>2, <2>2
  <1> DEFINE p == FirstOf(T)
             R == T \ {p}
  <1>4. p \in T
    BY <1>3 DEF FirstOf
  <1>5. R \notin Bad /\ R \in SUBSET S
    BY <1>2, <1>4
  <1>6. IsFiniteSet(T) /\ IsFiniteSet(R)
    BY <1>5, FS_Subset
  <1>7. Sum(f, R) =< Sum(g, R) /\ Sum(f, R) \in Int /\ Sum(g, R) \in Int
    BY <1>5, <1>6, SumInt
  <1>8. Sum(f, T) = f[p] + Sum(f, R) /\ Sum(g, T) = g[p] + Sum(g, R)
    BY <1>3, <1>6, SumUnfold
  <1>9. f[p] \in Int /\ g[p] \in Int /\ f[p] =< g[p] /\ ~ (Sum(f, T) =< Sum(g, T))
    BY <1>2, <1>4
  <1> HIDE DEF p, R
  <1> QED
    BY <1>7, <1>8, <1>9

\* Equal numbers add up to the same.
LEMMA SumSame ==
  ASSUME NEW f, NEW g, NEW S, IsFiniteSet(S),
         \A x \in S : f[x] \in Int, \A x \in S : f[x] = g[x]
  PROVE  Sum(f, S) = Sum(g, S)
  <1>1. \A x \in S : g[x] \in Int
    OBVIOUS
  <1>2. Sum(f, S) =< Sum(g, S)
    BY <1>1, SumAtMost
  <1>3. Sum(g, S) =< Sum(f, S)
    <2>1. \A x \in S : g[x] =< f[x]
      OBVIOUS
    <2> QED
      BY <1>1, <2>1, SumAtMost
  <1>4. Sum(f, S) \in Int /\ Sum(g, S) \in Int
    BY <1>1, SumInt
  <1> QED
    BY <1>2, <1>3, <1>4

\* Natural numbers add up to a natural number.
LEMMA SumNat ==
  ASSUME NEW f, NEW S, IsFiniteSet(S), \A x \in S : f[x] \in Nat
  PROVE  Sum(f, S) \in Nat
  <1> DEFINE Bad == {T \in SUBSET S : Sum(f, T) \notin Nat}
  <1>1. SUFFICES ASSUME Bad # {} PROVE FALSE
    OBVIOUS
  <1>2. PICK T \in Bad : \A U \in Bad : U \subseteq T => U = T
    <2>1. Bad \subseteq SUBSET S
      OBVIOUS
    <2> HIDE DEF Bad
    <2> QED
      BY <1>1, <2>1, SmallestSet
  <1>3. T # {}
    <2>1. Sum(f, {}) \in Nat
      BY SumEmpty
    <2> QED
      BY <1>2, <2>1
  <1>4. FirstOf(T) \in T /\ f[FirstOf(T)] \in Nat
    BY <1>2, <1>3 DEF FirstOf
  <1>5. T \ {FirstOf(T)} \notin Bad
    BY <1>2, <1>4
  <1>6. Sum(f, T \ {FirstOf(T)}) \in Nat
    BY <1>5
  <1>7. Sum(f, T) = f[FirstOf(T)] + Sum(f, T \ {FirstOf(T)})
    BY <1>3, FS_Subset, SumUnfold
  <1> QED
    BY <1>2, <1>4, <1>6, <1>7

\* A member that changes alone changes the sum by as much.
LEMMA SumChanged ==
  ASSUME NEW f, NEW g, NEW S, IsFiniteSet(S), NEW a \in S,
         \A x \in S : f[x] \in Int, g[a] \in Int, \A x \in S \ {a} : f[x] = g[x]
  PROVE  Sum(g, S) = Sum(f, S) + (g[a] - f[a])
  <1>1. \A x \in S : g[x] \in Int
    OBVIOUS
  <1>2. Sum(f, S) = f[a] + Sum(f, S \ {a}) /\ Sum(g, S) = g[a] + Sum(g, S \ {a})
    BY <1>1, SumRemove
  <1> DEFINE R == S \ {a}
  <1>3. IsFiniteSet(R) /\ (\A x \in R : f[x] \in Int) /\ (\A x \in R : f[x] = g[x])
    BY FS_Subset
  <1>4. Sum(f, R) = Sum(g, R) /\ Sum(f, R) \in Int
    <2> HIDE DEF R
    <2> QED
      BY <1>3, SumSame, SumInt
  <1> QED
    BY <1>2, <1>4

\* Members that count for nothing may be left out.
LEMMA SumWithin ==
  ASSUME NEW f, NEW S, IsFiniteSet(S), \A x \in S : f[x] \in Int,
         NEW T \in SUBSET S, \A x \in S \ T : f[x] = 0
  PROVE  Sum(f, S) = Sum(f, T)
  <1> DEFINE Bad == {U \in SUBSET S : Sum(f, U) # Sum(f, U \cap T)}
  <1>1. SUFFICES ASSUME Bad # {} PROVE FALSE
    <2>1. S \notin Bad /\ S \cap T = T
      BY <1>1
    <2> QED
      BY <2>1
  <1>2. PICK U \in Bad : \A V \in Bad : V \subseteq U => V = U
    <2>1. Bad \subseteq SUBSET S
      OBVIOUS
    <2> HIDE DEF Bad
    <2> QED
      BY <1>1, <2>1, SmallestSet
  <1>3. U # {}
    <2>1. {} \cap T = {}
      OBVIOUS
    <2> QED
      BY <1>2, <2>1
  <1> DEFINE p == FirstOf(U)
             R == U \ {p}
  <1>4. p \in U /\ p \in S
    BY <1>2, <1>3 DEF FirstOf
  <1>5. R \notin Bad /\ R \in SUBSET S
    BY <1>2, <1>4
  <1>6. \A V \in SUBSET S : IsFiniteSet(V) /\ Sum(f, V) \in Int
    BY FS_Subset, SumInt
  <1>7. Sum(f, R) = Sum(f, R \cap T)
    BY <1>5
  <1>8. Sum(f, U) = f[p] + Sum(f, R) /\ Sum(f, U) # Sum(f, U \cap T)
    BY <1>2, <1>3, <1>6, SumUnfold
  <1>9. CASE p \in T
    <2>1. R \cap T = (U \cap T) \ {p} /\ p \in U \cap T /\ U \cap T \in SUBSET S
      BY <1>4, <1>9
    <2>2. \A x \in U \cap T : f[x] \in Int
      OBVIOUS
    <2>3. IsFiniteSet(U \cap T)
      BY <1>6
    <2> HIDE DEF p, R, Bad
    <2>4. Sum(f, U \cap T) = f[p] + Sum(f, (U \cap T) \ {p})
      BY <2>1, <2>2, <2>3, SumRemove
    <2> QED
      BY <1>7, <1>8, <2>1, <2>4
  <1>10. CASE p \notin T
    <2>1. R \cap T = U \cap T /\ f[p] = 0 /\ Sum(f, R) \in Int
      BY <1>4, <1>5, <1>6, <1>10
    <2> HIDE DEF p, R, Bad
    <2>2. Sum(f, U) = Sum(f, R)
      BY <1>8, <2>1
    <2>3. Sum(f, R) = Sum(f, U \cap T)
      BY <1>7, <2>1
    <2> QED
      BY <1>8, <2>2, <2>3
  <1> QED
    BY <1>9, <1>10

\* A new member adds its number.
LEMMA SumAdded ==
  ASSUME NEW f, NEW S, IsFiniteSet(S), NEW a, a \notin S, \A x \in S \cup {a} : f[x] \in Int
  PROVE  Sum(f, S \cup {a}) = Sum(f, S) + f[a]
  <1>1. IsFiniteSet(S \cup {a}) /\ (S \cup {a}) \ {a} = S
    BY FS_AddElement
  <1>2. Sum(f, S \cup {a}) = f[a] + Sum(f, S)
    BY <1>1, SumRemove
  <1>3. f[a] \in Int /\ Sum(f, S) \in Int
    BY SumInt
  <1> QED
    BY <1>2, <1>3

\* The members of S have each a name of their own in T, and g counts a member as f counts its name.
Renames(b, S, T) ==
  /\ \A x \in S : b[x] \in T
  /\ \A y \in T : \E x \in S : y = b[x]
  /\ \A x, y \in S : b[x] = b[y] => x = y
CountsAs(g, f, b, S) == \A x \in S : g[x] = f[b[x]] /\ g[x] \in Int

\* Summing under other names gives the same sum.
LEMMA SumRenamed ==
  ASSUME NEW f, NEW g, NEW b, NEW S, NEW T, IsFiniteSet(S), IsFiniteSet(T), Renames(b, S, T),
         CountsAs(g, f, b, S)
  PROVE  Sum(g, S) = Sum(f, T)
  <1> USE DEF Renames, CountsAs
  <1> DEFINE Named(U) == {b[x] : x \in U}
             Bad == {U \in SUBSET S : Sum(g, U) # Sum(f, Named(U))}
  <1>1. SUFFICES ASSUME Bad # {} PROVE FALSE
    <2>1. S \notin Bad
      BY <1>1
    <2>2. \A y : y \in Named(S) <=> y \in T
      OBVIOUS
    <2>3. Named(S) = T
      BY <2>2
    <2> QED
      BY <2>1, <2>3
  <1>2. PICK U \in Bad : \A V \in Bad : V \subseteq U => V = U
    <2>1. Bad \subseteq SUBSET S
      OBVIOUS
    <2> HIDE DEF Bad
    <2> QED
      BY <1>1, <2>1, SmallestSet
  <1>3. U # {}
    <2>1. Named({}) = {} /\ Sum(f, {}) = 0 /\ Sum(g, {}) = 0
      BY SumEmpty
    <2> QED
      BY <1>2, <2>1
  <1> DEFINE p == FirstOf(U)
             R == U \ {p}
  <1>4. p \in U /\ p \in S
    BY <1>2, <1>3 DEF FirstOf
  <1>5. R \notin Bad /\ R \in SUBSET S
    BY <1>2, <1>4
  <1>6. IsFiniteSet(U) /\ IsFiniteSet(R)
    BY <1>5, FS_Subset
  <1>7. Sum(g, U) = g[p] + Sum(g, R) /\ Sum(g, R) = Sum(f, Named(R))
    BY <1>3, <1>5, <1>6, SumUnfold
  <1>8. Named(R) = Named(U) \ {b[p]} /\ b[p] \in Named(U)
    BY <1>2, <1>4
  <1>9. IsFiniteSet(Named(U)) /\ \A y \in Named(U) : f[y] \in Int
    <2>1. \A y \in Named(U) : f[y] \in Int
      BY <1>2
    <2>2. Named(U) \subseteq T
      BY <1>2
    <2> QED
      BY <2>1, <2>2, FS_Subset
  <1>10. Sum(g, U) # Sum(f, Named(U))
    BY <1>2
  <1> HIDE DEF Named, Bad, p, R
  <1>11. Sum(f, Named(U)) = f[b[p]] + Sum(f, Named(R))
    BY <1>8, <1>9, SumRemove
  <1> QED
    BY <1>4, <1>7, <1>10, <1>11
=============================================================================
