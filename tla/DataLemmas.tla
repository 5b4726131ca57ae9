------------------------------ MODULE DataLemmas ------------------------------
(***************************************************************************)
(* What the models compute with, once for all of them: the least of a set, *)
(* sums over a finite set, the range of a function, and lists filtered by  *)
(* a condition.  Sums and filters are defined by recursion, so what holds  *)
(* of all of them is shown by a least counterexample: of a non-empty set   *)
(* of finite sets one has no other below it, of one of numbers one is the  *)
(* smallest, and that one cannot be.                                       *)
(***************************************************************************)
EXTENDS Functions, SequenceFilter, FiniteSetTheorems, SequenceTheorems, WellFoundedInduction, TLAPS

\* Of finite sets, one contains no other of them.
LEMMA LeastSet ==
    ASSUME NEW S, NEW T, T \subseteq FiniteSubsetsOf(S), T # {}
    PROVE  \E x \in T : \A y \in T : y \subseteq x => y = x
  <1>1. \E x \in T : \A y \in T : ~(<<y, x>> \in StrictSubsetOrdering(S))
    BY WFMin, FS_StrictSubsetOrderingWellFounded
  <1> QED BY <1>1 DEF StrictSubsetOrdering, FiniteSubsetsOf

\* Of natural numbers, one is the smallest.
LEMMA LeastNumber ==
    ASSUME NEW T, T \subseteq Nat, T # {}
    PROVE  \E n \in T : \A m \in T : n <= m
  <1> DEFINE Below(n) == {k \in Nat : k < n}
             B == {Below(n) : n \in T}
  <1>1. \A n \in T : IsFiniteSet(Below(n))
    <2> SUFFICES ASSUME NEW n \in T PROVE IsFiniteSet(Below(n))
      OBVIOUS
    <2>1. IsFiniteSet(0 .. n) /\ Below(n) \in SUBSET (0 .. n)
      BY FS_Interval
    <2> QED BY <2>1, FS_Subset
  <1>2. B \subseteq FiniteSubsetsOf(Nat) /\ B # {}
    BY <1>1 DEF FiniteSubsetsOf
  <1> HIDE DEF B
  <1>3. PICK x \in B : \A y \in B : y \subseteq x => y = x
    BY <1>2, LeastSet
  <1>4. PICK n \in T : x = Below(n)
    BY DEF B
  <1>5. ASSUME NEW m \in T, m < n PROVE FALSE
    <2>1. Below(m) \in B /\ Below(m) \subseteq Below(n)
      BY <1>5 DEF B
    <2>2. Below(m) = Below(n)
      BY <1>3, <1>4, <2>1
    <2>3. m \in Below(n) /\ m \notin Below(m)
      BY <1>5
    <2> QED BY <2>2, <2>3
  <1> QED BY <1>5

Choice(s) == CHOOSE x \in s : TRUE
\* h holds the sums of f over the subsets of S, as the fold computes them.
SumsUp(h, f, S) ==
    h = [s \in SUBSET S |->
           IF s = {} THEN 0 ELSE f[Choice(s)] + h[s \ {Choice(s)}]]

\* The fold of the library, with its recursion given a name.
LEMMA SumIs ==
    ASSUME NEW f, NEW S
    PROVE  SumFunctionOnSet(f, S) = (CHOOSE h : SumsUp(h, f, S))[S]
  BY DEF SumFunctionOnSet, FoldFunctionOnSet, MapThenFoldSet, SumsUp, Choice

\* The fold takes an element away that is there.
LEMMA ChoiceIn == ASSUME NEW s, s # {} PROVE Choice(s) \in s
  BY DEF Choice

\* Two tables of sums agree on every set that both hold.
LEMMA SumsAgree ==
    ASSUME NEW f, NEW A, IsFiniteSet(A), NEW B, NEW g, NEW h,
           SumsUp(g, f, A), SumsUp(h, f, B),
           NEW r, r \subseteq A, r \subseteq B
    PROVE  g[r] = h[r]
  <1> SUFFICES ASSUME g[r] # h[r] PROVE FALSE
    OBVIOUS
  <1> DEFINE T == {s \in SUBSET A : s \subseteq B /\ g[s] # h[s]}
  <1>1. T \subseteq FiniteSubsetsOf(A) /\ T # {}
    BY FS_Subset DEF FiniteSubsetsOf
  <1> HIDE DEF T
  <1>2. PICK s \in T : \A y \in T : y \subseteq s => y = s
    BY <1>1, LeastSet
  <1>3. s \in SUBSET A /\ s \in SUBSET B /\ g[s] # h[s]
    BY DEF T
  <1>4. s # {}
    BY <1>3 DEF SumsUp
  <1>5. Choice(s) \in s
    BY <1>4, ChoiceIn
  <1>6. g[s \ {Choice(s)}] = h[s \ {Choice(s)}]
    <2>1. s \ {Choice(s)} \notin T
      BY <1>2, <1>5
    <2> QED BY <1>3, <2>1 DEF T
  <1>7. /\ g[s] = f[Choice(s)] + g[s \ {Choice(s)}]
        /\ h[s] = f[Choice(s)] + h[s \ {Choice(s)}]
    BY <1>3, <1>4 DEF SumsUp
  <1> QED BY <1>3, <1>6, <1>7

\* There is such a table, so that the choice in the fold is one.
LEMMA SumsExist ==
    ASSUME NEW f, NEW S, IsFiniteSet(S)
    PROVE  \E h : SumsUp(h, f, S)
  <1> SUFFICES ASSUME ~\E h : SumsUp(h, f, S) PROVE FALSE
    OBVIOUS
  <1> DEFINE T == {s \in SUBSET S : ~\E h : SumsUp(h, f, s)}
  <1>1. T \subseteq FiniteSubsetsOf(S) /\ T # {}
    BY FS_Subset DEF FiniteSubsetsOf
  <1> HIDE DEF T
  <1>2. PICK s \in T : \A y \in T : y \subseteq s => y = s
    BY <1>1, LeastSet
  <1>3. s \in SUBSET S /\ (~\E h : SumsUp(h, f, s)) /\ IsFiniteSet(s)
    BY FS_Subset DEF T
  <1> DEFINE Rest(y) == y \ {Choice(y)}
             Of(z) == CHOOSE h : SumsUp(h, f, z)
             h == [y \in SUBSET s |->
                     IF y = {} THEN 0 ELSE f[Choice(y)] + Of(Rest(y))[Rest(y)]]
  <1>4. ASSUME NEW y \in SUBSET s, y # s PROVE SumsUp(Of(y), f, y)
    <2>1. y \notin T
      BY <1>2, <1>4
    <2> QED BY <1>3, <2>1 DEF T
  <1>5. ASSUME NEW y \in SUBSET s, y # {} PROVE h[Rest(y)] = Of(Rest(y))[Rest(y)]
    <2> SUFFICES ASSUME NEW z, z = Rest(y) PROVE h[z] = Of(z)[z]
      OBVIOUS
    <2>1. z \in SUBSET s /\ z # s
      BY <1>5, ChoiceIn
    <2>2. SumsUp(Of(z), f, z)
      BY <1>4, <2>1
    <2> HIDE DEF Of
    <2>3. CASE z = {}
      BY <2>2, <2>3 DEF SumsUp
    <2>4. CASE z # {}
      <3>1. Choice(z) \in z /\ Rest(z) \in SUBSET s /\ Rest(z) # s /\ Rest(z) \subseteq z
        BY <2>1, <2>4, ChoiceIn
      <3>2. SumsUp(Of(Rest(z)), f, Rest(z))
        BY <1>4, <3>1 DEF Of
      <3>3. IsFiniteSet(z)
        BY <1>3, <2>1, FS_Subset
      <3>4. Of(z)[Rest(z)] = Of(Rest(z))[Rest(z)]
        <4> HIDE DEF Rest
        <4> QED BY <2>2, <3>1, <3>2, <3>3, SumsAgree
      <3>5. Of(z)[z] = f[Choice(z)] + Of(z)[Rest(z)]
        BY <2>2, <2>4 DEF SumsUp
      <3>6. h[z] = f[Choice(z)] + Of(Rest(z))[Rest(z)]
        BY <2>1, <2>4
      <3> QED BY <3>4, <3>5, <3>6
    <2> QED BY <2>3, <2>4
  <1>6. SumsUp(h, f, s)
    <2> SUFFICES ASSUME NEW k, k = h PROVE SumsUp(k, f, s)
      OBVIOUS
    <2>1. \A y \in SUBSET s : y # {} => k[Rest(y)] = Of(Rest(y))[Rest(y)]
      BY <1>5
    <2>2. k = [y \in SUBSET s |->
                 IF y = {} THEN 0 ELSE f[Choice(y)] + Of(Rest(y))[Rest(y)]]
      OBVIOUS
    <2> HIDE DEF h, Of
    <2> QED BY <2>1, <2>2 DEF SumsUp
  <1> QED BY <1>3, <1>6

\* One step of the fold.
LEMMA SumUnfolds ==
    ASSUME NEW f, NEW S, IsFiniteSet(S)
    PROVE  /\ S = {} => SumFunctionOnSet(f, S) = 0
           /\ S # {} => SumFunctionOnSet(f, S) =
                          f[Choice(S)] + SumFunctionOnSet(f, S \ {Choice(S)})
  <1> DEFINE R == S \ {Choice(S)}
  <1>1. IsFiniteSet(R)
    BY FS_Subset
  <1>2. PICK h : SumsUp(h, f, S) /\ SumFunctionOnSet(f, S) = h[S]
    BY SumIs, SumsExist
  <1>3. PICK g : SumsUp(g, f, R) /\ SumFunctionOnSet(f, R) = g[R]
    BY <1>1, SumIs, SumsExist
  <1> HIDE DEF R
  <1>4. R \subseteq S /\ R \subseteq R
    BY DEF R
  <1>5. g[R] = h[R]
    <2>1. SumsUp(h, f, S) /\ SumsUp(g, f, R)
      BY <1>2, <1>3
    <2> QED BY <1>1, <2>1, <1>4, SumsAgree
  <1>6. /\ S = {} => h[S] = 0
        /\ S # {} => h[S] = f[Choice(S)] + h[R]
    BY <1>2 DEF SumsUp, R
  <1> QED BY <1>2, <1>3, <1>5, <1>6 DEF R

\* A sum of natural numbers is one.
LEMMA SumNat ==
    ASSUME NEW f, NEW S, IsFiniteSet(S), \A x \in S : f[x] \in Nat
    PROVE  SumFunctionOnSet(f, S) \in Nat
  <1> SUFFICES ASSUME SumFunctionOnSet(f, S) \notin Nat PROVE FALSE
    OBVIOUS
  <1> DEFINE T == {s \in SUBSET S : SumFunctionOnSet(f, s) \notin Nat}
  <1>1. T \subseteq FiniteSubsetsOf(S) /\ T # {}
    BY FS_Subset DEF FiniteSubsetsOf
  <1> HIDE DEF T
  <1>2. PICK s \in T : \A y \in T : y \subseteq s => y = s
    BY <1>1, LeastSet
  <1>3. s \in SUBSET S /\ IsFiniteSet(s) /\ SumFunctionOnSet(f, s) \notin Nat
    BY FS_Subset DEF T
  <1>4. ASSUME s = {} PROVE FALSE
    <2>1. SumFunctionOnSet(f, s) = 0
      BY <1>3, <1>4, SumUnfolds
    <2> QED BY <1>3, <2>1
  <1>5. Choice(s) \in s
    BY <1>4, ChoiceIn
  <1>6. SumFunctionOnSet(f, s \ {Choice(s)}) \in Nat
    <2>1. s \ {Choice(s)} \notin T
      BY <1>2, <1>5
    <2> QED BY <1>3, <2>1 DEF T
  <1>7. SumFunctionOnSet(f, s) = f[Choice(s)] + SumFunctionOnSet(f, s \ {Choice(s)})
    BY <1>3, <1>4, SumUnfolds
  <1> QED BY <1>3, <1>5, <1>6, <1>7

\* Functions that agree on a set have the same sum over it.
LEMMA SumCongruent ==
    ASSUME NEW f, NEW g, NEW S, IsFiniteSet(S), \A x \in S : f[x] = g[x]
    PROVE  SumFunctionOnSet(f, S) = SumFunctionOnSet(g, S)
  <1> SUFFICES ASSUME SumFunctionOnSet(f, S) # SumFunctionOnSet(g, S) PROVE FALSE
    OBVIOUS
  <1> DEFINE T == {s \in SUBSET S : SumFunctionOnSet(f, s) # SumFunctionOnSet(g, s)}
  <1>1. T \subseteq FiniteSubsetsOf(S) /\ T # {}
    BY FS_Subset DEF FiniteSubsetsOf
  <1> HIDE DEF T
  <1>2. PICK s \in T : \A y \in T : y \subseteq s => y = s
    BY <1>1, LeastSet
  <1>3. /\ s \in SUBSET S /\ IsFiniteSet(s)
        /\ SumFunctionOnSet(f, s) # SumFunctionOnSet(g, s)
    BY FS_Subset DEF T
  <1>4. ASSUME s = {} PROVE FALSE
    <2>1. SumFunctionOnSet(f, s) = 0 /\ SumFunctionOnSet(g, s) = 0
      BY <1>3, <1>4, SumUnfolds
    <2> QED BY <1>3, <2>1
  <1>5. Choice(s) \in s
    BY <1>4, ChoiceIn
  <1>6. SumFunctionOnSet(f, s \ {Choice(s)}) = SumFunctionOnSet(g, s \ {Choice(s)})
    <2>1. s \ {Choice(s)} \notin T
      BY <1>2, <1>5
    <2> QED BY <1>3, <2>1 DEF T
  <1>7. /\ SumFunctionOnSet(f, s) = f[Choice(s)] + SumFunctionOnSet(f, s \ {Choice(s)})
        /\ SumFunctionOnSet(g, s) = g[Choice(s)] + SumFunctionOnSet(g, s \ {Choice(s)})
    BY <1>3, <1>4, SumUnfolds
  <1> QED BY <1>3, <1>5, <1>6, <1>7

\* Zeros sum to zero.
LEMMA SumZero ==
    ASSUME NEW f, NEW S, IsFiniteSet(S), \A x \in S : f[x] = 0
    PROVE  SumFunctionOnSet(f, S) = 0
  <1> SUFFICES ASSUME SumFunctionOnSet(f, S) # 0 PROVE FALSE
    OBVIOUS
  <1> DEFINE T == {s \in SUBSET S : SumFunctionOnSet(f, s) # 0}
  <1>1. T \subseteq FiniteSubsetsOf(S) /\ T # {}
    BY FS_Subset DEF FiniteSubsetsOf
  <1> HIDE DEF T
  <1>2. PICK s \in T : \A y \in T : y \subseteq s => y = s
    BY <1>1, LeastSet
  <1>3. s \in SUBSET S /\ IsFiniteSet(s) /\ SumFunctionOnSet(f, s) # 0
    BY FS_Subset DEF T
  <1>4. s # {}
    BY <1>3, SumUnfolds
  <1>5. PICK c \in s : SumFunctionOnSet(f, s) = f[c] + SumFunctionOnSet(f, s \ {c})
    BY <1>3, <1>4, ChoiceIn, SumUnfolds
  <1>6. SumFunctionOnSet(f, s \ {c}) = 0
    <2>1. s \ {c} \notin T
      BY <1>2
    <2> QED BY <1>3, <2>1 DEF T
  <1>7. f[c] = 0
    BY <1>3
  <1> QED BY <1>3, <1>5, <1>6, <1>7

\* Any element may be taken away first: the order of a sum is no matter.
LEMMA SumWithout ==
    ASSUME NEW f, NEW S, IsFiniteSet(S), \A x \in S : f[x] \in Nat
    PROVE  \A x \in S :
             SumFunctionOnSet(f, S) = f[x] + SumFunctionOnSet(f, S \ {x})
  <1> DEFINE Good(s) ==
               \A x \in s : SumFunctionOnSet(f, s) = f[x] + SumFunctionOnSet(f, s \ {x})
  <1> SUFFICES ASSUME ~Good(S) PROVE FALSE
    OBVIOUS
  <1> DEFINE T == {s \in SUBSET S : ~Good(s)}
  <1>1. T \subseteq FiniteSubsetsOf(S) /\ T # {}
    BY FS_Subset DEF FiniteSubsetsOf
  <1> HIDE DEF T
  <1>2. PICK s \in T : \A y \in T : y \subseteq s => y = s
    BY <1>1, LeastSet
  <1>3. s \in SUBSET S /\ IsFiniteSet(s) /\ ~Good(s)
    BY FS_Subset DEF T
  <1>4. ASSUME NEW y \in SUBSET s, y # s PROVE Good(y)
    <2>1. y \notin T
      BY <1>2, <1>4
    <2> QED BY <1>3, <2>1 DEF T
  <1>5. PICK x \in s : SumFunctionOnSet(f, s) # f[x] + SumFunctionOnSet(f, s \ {x})
    BY <1>3
  <1>6. PICK c \in s : SumFunctionOnSet(f, s) = f[c] + SumFunctionOnSet(f, s \ {c})
    BY <1>3, <1>5, ChoiceIn, SumUnfolds
  <1>7. c # x
    BY <1>5, <1>6
  <1>8. /\ s \ {c} \in SUBSET s /\ s \ {c} # s /\ x \in s \ {c}
        /\ s \ {x} \in SUBSET s /\ s \ {x} # s /\ c \in s \ {x}
    BY <1>7
  <1> DEFINE R == (s \ {c}) \ {x}
  <1>9. SumFunctionOnSet(f, s \ {c}) = f[x] + SumFunctionOnSet(f, R)
    BY <1>4, <1>8
  <1>10. SumFunctionOnSet(f, s \ {x}) = f[c] + SumFunctionOnSet(f, R)
    <2>1. R = (s \ {x}) \ {c}
      OBVIOUS
    <2>2. SumFunctionOnSet(f, s \ {x}) = f[c] + SumFunctionOnSet(f, (s \ {x}) \ {c})
      BY <1>4, <1>8
    <2> QED BY <2>1, <2>2
  <1>11. R \in SUBSET S /\ f[x] \in Nat /\ f[c] \in Nat
    BY <1>3
  <1> HIDE DEF R
  <1>12. SumFunctionOnSet(f, R) \in Nat
    <2>1. IsFiniteSet(R) /\ \A y \in R : f[y] \in Nat
      BY <1>11, FS_Subset
    <2> QED BY <2>1, SumNat
  <1> QED BY <1>5, <1>6, <1>9, <1>10, <1>11, <1>12

\* A sum is the sum of its parts: into[x] names the part of x.
LEMMA SumOfParts ==
    ASSUME NEW S, IsFiniteSet(S), NEW G, IsFiniteSet(G),
           NEW f, \A x \in S : f[x] \in Nat,
           NEW into, \A x \in S : into[x] \in G
    PROVE  SumFunctionOnSet(f, S) =
           SumFunctionOnSet([g \in G |-> SumFunctionOnSet(f, {x \in S : into[x] = g})], G)
  <1> DEFINE Part(s, g) == {x \in s : into[x] = g}
             Parts(s) == [g \in G |-> SumFunctionOnSet(f, Part(s, g))]
             T == {s \in SUBSET S : SumFunctionOnSet(f, s) # SumFunctionOnSet(Parts(s), G)}
  <1> SUFFICES ASSUME S \in T PROVE FALSE
    OBVIOUS
  <1>1. T \subseteq FiniteSubsetsOf(S) /\ T # {}
    BY FS_Subset DEF FiniteSubsetsOf
  <1>2. \A s \in SUBSET S : s \in T <=> SumFunctionOnSet(f, s) # SumFunctionOnSet(Parts(s), G)
    OBVIOUS
  <1>3. ASSUME NEW s \in SUBSET S, NEW g \in G
        PROVE  Parts(s)[g] = SumFunctionOnSet(f, Part(s, g)) /\ Parts(s)[g] \in Nat
    <2>1. Part(s, g) \in SUBSET S /\ IsFiniteSet(Part(s, g))
      BY FS_Subset
    <2>2. SumFunctionOnSet(f, Part(s, g)) \in Nat
      BY <2>1, SumNat
    <2> QED BY <2>2
  <1> HIDE DEF T, Parts
  <1>4. PICK s \in T : \A y \in T : y \subseteq s => y = s
    BY <1>1, LeastSet
  <1>5. s \in SUBSET S /\ IsFiniteSet(s)
    BY <1>1, FS_Subset DEF FiniteSubsetsOf
  <1>6. CASE s = {}
    <2>1. \A g \in G : Parts(s)[g] = 0
      <3> SUFFICES ASSUME NEW g \in G PROVE Parts(s)[g] = 0
        OBVIOUS
      <3>1. Part(s, g) = {}
        BY <1>6
      <3>2. SumFunctionOnSet(f, {}) = 0
        BY FS_EmptySet, SumUnfolds
      <3> QED BY <1>3, <1>5, <3>1, <3>2
    <2>2. SumFunctionOnSet(Parts(s), G) = 0
      BY <2>1, SumZero
    <2>3. SumFunctionOnSet(f, s) = 0
      BY <1>5, <1>6, SumUnfolds
    <2> QED BY <1>2, <1>4, <1>5, <2>2, <2>3
  <1>7. CASE s # {}
    <2>1. PICK x \in s : TRUE
      BY <1>7
    <2> DEFINE r == s \ {x}
               g == into[x]
    <2>2. x \in S /\ g \in G /\ r \in SUBSET S /\ f[x] \in Nat
      BY <1>5
    <2>3. SumFunctionOnSet(f, r) = SumFunctionOnSet(Parts(r), G)
      <3>1. r \notin T
        BY <1>4
      <3> QED BY <1>2, <2>2, <3>1
    <2>4. SumFunctionOnSet(f, s) = f[x] + SumFunctionOnSet(f, r)
      BY <1>5, SumWithout
    <2>5. Parts(s)[g] = f[x] + Parts(r)[g]
      <3>1. Part(r, g) = Part(s, g) \ {x} /\ x \in Part(s, g)
        OBVIOUS
      <3>2. Part(s, g) \in SUBSET S /\ IsFiniteSet(Part(s, g))
        BY <1>5, FS_Subset
      <3>3. SumFunctionOnSet(f, Part(s, g)) = f[x] + SumFunctionOnSet(f, Part(s, g) \ {x})
        <4> HIDE DEF Part
        <4> QED BY <3>1, <3>2, SumWithout
      <3> QED BY <1>3, <1>5, <2>2, <3>1, <3>3
    <2>6. ASSUME NEW j \in G \ {g} PROVE Parts(s)[j] = Parts(r)[j]
      <3>1. Part(r, j) = Part(s, j) /\ j \in G
        BY <2>6
      <3> HIDE DEF r, g, Part
      <3> QED BY <1>3, <1>5, <2>2, <3>1
    <2>7. SumFunctionOnSet(Parts(s), G \ {g}) = SumFunctionOnSet(Parts(r), G \ {g})
      <3>1. IsFiniteSet(G \ {g})
        BY FS_Subset
      <3> QED BY <2>6, <3>1, SumCongruent
    <2>8. /\ SumFunctionOnSet(Parts(s), G) = Parts(s)[g] + SumFunctionOnSet(Parts(s), G \ {g})
          /\ SumFunctionOnSet(Parts(r), G) = Parts(r)[g] + SumFunctionOnSet(Parts(r), G \ {g})
      <3>1. /\ \A j \in G : Parts(s)[j] \in Nat
            /\ \A j \in G : Parts(r)[j] \in Nat
        BY <1>3, <1>5, <2>2
      <3> HIDE DEF r, g
      <3> QED BY <2>2, <3>1, SumWithout
    <2>9. /\ Parts(r)[g] \in Nat /\ SumFunctionOnSet(Parts(r), G \ {g}) \in Nat
      <3>1. IsFiniteSet(G \ {g}) /\ \A j \in G \ {g} : Parts(r)[j] \in Nat
        BY <1>3, <2>2, FS_Subset
      <3> QED BY <1>3, <2>2, <3>1, SumNat
    <2>10. SumFunctionOnSet(f, s) = SumFunctionOnSet(Parts(s), G)
      <3> HIDE DEF r, g
      <3> QED BY <2>2, <2>3, <2>4, <2>5, <2>7, <2>8, <2>9
    <2> QED BY <1>2, <1>4, <1>5, <2>10
  <1> QED BY <1>6, <1>7

\* Ones sum to how many there are, ...
LEMMA SumOfOnes ==
    ASSUME NEW f, NEW S, IsFiniteSet(S), \A x \in S : f[x] = 1
    PROVE  SumFunctionOnSet(f, S) = Cardinality(S)
  <1> SUFFICES ASSUME SumFunctionOnSet(f, S) # Cardinality(S) PROVE FALSE
    OBVIOUS
  <1> DEFINE T == {s \in SUBSET S : SumFunctionOnSet(f, s) # Cardinality(s)}
  <1>1. T \subseteq FiniteSubsetsOf(S) /\ T # {}
    BY FS_Subset DEF FiniteSubsetsOf
  <1> HIDE DEF T
  <1>2. PICK s \in T : \A y \in T : y \subseteq s => y = s
    BY <1>1, LeastSet
  <1>3. s \in SUBSET S /\ IsFiniteSet(s) /\ SumFunctionOnSet(f, s) # Cardinality(s)
    BY FS_Subset DEF T
  <1>4. ASSUME s = {} PROVE FALSE
    BY <1>3, <1>4, SumUnfolds, FS_EmptySet
  <1>5. PICK c \in s : SumFunctionOnSet(f, s) = f[c] + SumFunctionOnSet(f, s \ {c})
    BY <1>3, <1>4, ChoiceIn, SumUnfolds
  <1>6. SumFunctionOnSet(f, s \ {c}) = Cardinality(s \ {c})
    <2>1. s \ {c} \notin T
      BY <1>2
    <2> QED BY <1>3, <2>1 DEF T
  <1>7. Cardinality(s \ {c}) = Cardinality(s) - 1 /\ Cardinality(s) \in Nat
    BY <1>3, FS_RemoveElement, FS_CardinalityType
  <1>8. f[c] = 1
    BY <1>3
  <1> QED BY <1>3, <1>5, <1>6, <1>7, <1>8

\* ... and zeros and ones to how many ones there are.
LEMMA SumOfBits ==
    ASSUME NEW f, NEW S, IsFiniteSet(S), \A x \in S : f[x] \in 0 .. 1
    PROVE  SumFunctionOnSet(f, S) = Cardinality({x \in S : f[x] = 1})
  <1> DEFINE G == {0, 1}
             Part(g) == {x \in S : f[x] = g}
             P == [g \in G |-> SumFunctionOnSet(f, Part(g))]
  <1>1. IsFiniteSet(G) /\ IsFiniteSet(G \ {0}) /\ (G \ {0}) = {1} /\ {1} \ {1} = {}
        /\ IsFiniteSet({1})
    <2>1. G \ {0} = {1} /\ {1} \ {1} = {}
      OBVIOUS
    <2>2. IsFiniteSet({1}) /\ G = {1} \cup {0}
      BY FS_Singleton
    <2>3. IsFiniteSet(G)
      <3> HIDE DEF G
      <3> QED BY <2>2, FS_AddElement
    <2> QED BY <2>1, <2>2, <2>3
  <1>2. SumFunctionOnSet(f, S) = SumFunctionOnSet(P, G)
    <2>1. /\ \A x \in S : f[x] \in Nat
          /\ \A x \in S : f[x] \in G
      OBVIOUS
    <2>2. SumFunctionOnSet(f, S) =
          SumFunctionOnSet([g \in G |-> SumFunctionOnSet(f, {x \in S : f[x] = g})], G)
      <3> HIDE DEF G
      <3> QED BY <1>1, <2>1, SumOfParts
    <2> HIDE DEF G
    <2> QED BY <2>2
  <1>3. \A g \in G : IsFiniteSet(Part(g)) /\ Cardinality(Part(g)) \in Nat
    BY FS_Subset, FS_CardinalityType
  <1>4. P[0] = 0 /\ P[1] = Cardinality(Part(1))
    BY <1>3, SumZero, SumOfOnes
  <1> HIDE DEF P, Part
  <1>5. \A g \in G : P[g] \in Nat
    BY <1>3, <1>4
  <1> HIDE DEF G
  <1>6. 0 \in G /\ 1 \in G
    BY DEF G
  <1>7. SumFunctionOnSet(P, G) = P[0] + SumFunctionOnSet(P, {1})
    BY <1>1, <1>5, <1>6, SumWithout
  <1>8. SumFunctionOnSet(P, {1}) = P[1] + SumFunctionOnSet(P, {})
    <2>1. \A g \in {1} : P[g] \in Nat
      BY <1>5, <1>6
    <2> QED BY <1>1, <2>1, SumWithout
  <1>9. SumFunctionOnSet(P, {}) = 0
    BY FS_EmptySet, SumUnfolds
  <1>10. P[0] = 0 /\ P[1] = Cardinality({x \in S : f[x] = 1}) /\ P[1] \in Nat
    BY <1>3, <1>4, <1>6 DEF Part
  <1> QED BY <1>2, <1>7, <1>8, <1>9, <1>10

\* The range of a function on a finite set is finite.
LEMMA RangeFinite ==
    ASSUME NEW S, IsFiniteSet(S), NEW f, f = [x \in S |-> f[x]]
    PROVE  IsFiniteSet(Range(f))
  <1>1. f \in Surjection(S, Range(f))
    BY DEF Surjection, Range
  <1> QED BY <1>1, FS_Surjection

\* A function on 1 .. n is a sequence of length n.
LEMMA FunctionIsSeq ==
    ASSUME NEW n \in Nat, NEW S, NEW f \in [1 .. n -> S]
    PROVE  f \in Seq(S) /\ Len(f) = n
  OBVIOUS

\* kept[n] holds what the filter keeps of the first n elements.
Filters(kept, seq, drop) ==
    kept = [k \in 0 .. Len(seq) |->
              IF k = 0 THEN << >>
              ELSE IF seq[k] \in drop THEN kept[k - 1] ELSE Append(kept[k - 1], seq[k])]

\* The filter, with its recursion given a name.
LEMMA WithoutIs ==
    ASSUME NEW seq, NEW drop
    PROVE  Without(seq, drop) = (CHOOSE kept : Filters(kept, seq, drop))[Len(seq)]
  BY DEF Without, Filters

\* There is such a table of prefixes.
LEMMA FiltersExist ==
    ASSUME NEW A, NEW seq \in Seq(A), NEW drop
    PROVE  \E kept : Filters(kept, seq, drop)
  <1> DEFINE Step(k, before) == IF seq[k] \in drop THEN before ELSE Append(before, seq[k])
             Upto(kept, n) == kept = [k \in 0 .. n |->
                                        IF k = 0 THEN << >> ELSE Step(k, kept[k - 1])]
             T == {n \in Nat : ~\E kept : Upto(kept, n)}
  <1>1. Len(seq) \in Nat
    OBVIOUS
  <1>2. ASSUME T # {} PROVE FALSE
    <2>1. PICK n \in T : \A m \in T : n <= m
      BY <1>2, LeastNumber
    <2>2. n \in Nat /\ ~\E kept : Upto(kept, n)
      OBVIOUS
    <2>3. CASE n = 0
      <3> DEFINE kept == [k \in 0 .. 0 |-> << >>]
      <3>1. kept = [k \in 0 .. 0 |-> IF k = 0 THEN << >> ELSE Step(k, kept[k - 1])]
        OBVIOUS
      <3> QED BY <2>2, <2>3, <3>1
    <2>4. CASE n # 0
      <3>1. n - 1 \in Nat /\ n - 1 \notin T
        <4>1. n - 1 \in Nat /\ ~(n <= n - 1)
          BY <2>2, <2>4
        <4> HIDE DEF T
        <4> QED BY <2>1, <4>1
      <3>2. PICK f : Upto(f, n - 1)
        BY <3>1
      <3> HIDE DEF Step
      <3> DEFINE g == [k \in 0 .. n |-> IF k = n THEN Step(n, f[n - 1]) ELSE f[k]]
      <3>3. \A k \in 0 .. n : k # 0 => g[k - 1] = f[k - 1]
        BY <2>2
      <3>4. \A k \in 0 .. n : g[k] = IF k = 0 THEN << >> ELSE Step(k, f[k - 1])
        BY <2>2, <2>4, <3>2
      <3>5. Upto(g, n)
        <4> SUFFICES ASSUME NEW h, h = g PROVE Upto(h, n)
          OBVIOUS
        <4>1. h = [k \in 0 .. n |-> h[k]]
          OBVIOUS
        <4> HIDE DEF g
        <4> QED BY <3>3, <3>4, <4>1
      <3> QED BY <2>2, <3>5
    <2> QED BY <2>3, <2>4
  <1>3. PICK kept : Upto(kept, Len(seq))
    BY <1>1, <1>2
  <1> QED BY <1>3 DEF Filters

\* The filter keeps the elements that are not dropped, in their order: pos[j] is
\* the place of the jth of them.
Places(pos, out, seq, n, drop) ==
    /\ pos \in [1 .. Len(out) -> 1 .. n]
    /\ \A j \in 1 .. Len(out) : out[j] = seq[pos[j]] /\ out[j] \notin drop
    /\ \A j, k \in 1 .. Len(out) : j < k => pos[j] < pos[k]
    /\ \A k \in 1 .. n : seq[k] \notin drop => \E j \in 1 .. Len(out) : pos[j] = k

\* The filter keeps what is not dropped, in its order, and nothing else.
LEMMA FilterKeeps ==
    ASSUME NEW A, NEW seq \in Seq(A), NEW drop
    PROVE  LET out == Without(seq, drop) IN
           /\ out \in Seq(A)
           /\ \E pos : Places(pos, out, seq, Len(seq), drop)
           /\ (\A k \in 1 .. Len(seq) : seq[k] \notin drop) => out = seq
           /\ (\E k \in 1 .. Len(seq) : seq[k] \in drop) => Len(out) < Len(seq)
  <1>1. PICK kept : Filters(kept, seq, drop) /\ Without(seq, drop) = kept[Len(seq)]
    BY WithoutIs, FiltersExist
  <1> DEFINE N == Len(seq)
             P(n, out) ==
               /\ out \in Seq(A)
               /\ \E pos : Places(pos, out, seq, n, drop)
               /\ (\A k \in 1 .. n : seq[k] \notin drop) =>
                     Len(out) = n /\ \A k \in 1 .. n : out[k] = seq[k]
               /\ (\E k \in 1 .. n : seq[k] \in drop) => Len(out) < n
               /\ Len(out) <= n
             T == {n \in 0 .. N : ~P(n, kept[n])}
  <1>2. N \in Nat /\ \A k \in 1 .. N : seq[k] \in A
    OBVIOUS
  <1>3. kept[0] = << >>
    BY <1>1, <1>2 DEF Filters
  <1>4. P(0, << >>)
    <2>1. Places(<< >>, << >>, seq, 0, drop)
      BY DEF Places
    <2> QED BY <2>1
  <1>5. ASSUME NEW n \in 0 .. N, n # 0, NEW out, P(n - 1, out)
        PROVE  P(n, IF seq[n] \in drop THEN out ELSE Append(out, seq[n]))
    <2>1. n \in Nat /\ n - 1 \in Nat /\ n \in 1 .. N /\ seq[n] \in A
      BY <1>2, <1>5
    <2>2. out \in Seq(A) /\ Len(out) \in Nat
      BY <1>5
    <2>3. PICK pos : Places(pos, out, seq, n - 1, drop)
      BY <1>5
    <2>4. CASE seq[n] \in drop
      <3>1. Places(pos, out, seq, n, drop)
        BY <2>1, <2>2, <2>3, <2>4 DEF Places
      <3> QED BY <1>5, <2>1, <2>2, <2>4, <3>1
    <2>5. CASE seq[n] \notin drop
      <3> SUFFICES ASSUME NEW more, more = Append(out, seq[n]) PROVE P(n, more)
        BY <2>5
      <3>1. /\ more \in Seq(A) /\ Len(more) = Len(out) + 1
            /\ \A j \in 1 .. Len(out) : more[j] = out[j]
            /\ more[Len(out) + 1] = seq[n]
        BY <2>1, <2>2
      <3> DEFINE at == [j \in 1 .. Len(more) |-> IF j = Len(more) THEN n ELSE pos[j]]
      <3>2. \A j \in 1 .. Len(more) : j = Len(more) \/ j \in 1 .. Len(out)
        BY <2>2, <3>1
      <3>3. \A j \in 1 .. Len(out) : pos[j] \in 1 .. n - 1 /\ at[j] = pos[j]
        <4>1. \A j \in 1 .. Len(out) : pos[j] \in 1 .. n - 1
          BY <2>3 DEF Places
        <4>2. \A j \in 1 .. Len(out) : j \in 1 .. Len(more) /\ j # Len(more)
          BY <2>2, <3>1
        <4> QED BY <4>1, <4>2
      <3>4. at \in [1 .. Len(more) -> 1 .. n] /\ at[Len(more)] = n
        <4>1. Len(more) \in 1 .. Len(more) /\ n \in 1 .. n
          BY <2>1, <2>2, <3>1
        <4>2. at[Len(more)] = n
          BY <4>1
        <4>3. \A j \in 1 .. Len(more) : at[j] \in 1 .. n
          <5>1. \A k \in 1 .. n - 1 : k \in 1 .. n
            BY <2>1
          <5> HIDE DEF at
          <5> QED BY <3>2, <3>3, <4>1, <4>2, <5>1
        <4> QED BY <4>2, <4>3
      <3> HIDE DEF at
      <3>5. Places(at, more, seq, n, drop)
        <4>1. \A j \in 1 .. Len(more) : more[j] = seq[at[j]] /\ more[j] \notin drop
          BY <2>2, <2>3, <2>5, <3>1, <3>2, <3>3, <3>4 DEF Places
        <4>2. \A j, k \in 1 .. Len(more) : j < k => at[j] < at[k]
          BY <2>1, <2>2, <2>3, <3>1, <3>2, <3>3, <3>4 DEF Places
        <4>3. ASSUME NEW k \in 1 .. n, seq[k] \notin drop
              PROVE  \E j \in 1 .. Len(more) : at[j] = k
          <5>1. CASE k = n
            BY <2>2, <3>1, <3>4, <5>1
          <5>2. CASE k # n
            <6>1. k \in 1 .. n - 1
              BY <2>1, <5>2
            <6>2. PICK j \in 1 .. Len(out) : pos[j] = k
              BY <2>3, <4>3, <6>1 DEF Places
            <6> QED BY <2>2, <3>1, <3>3, <6>2
          <5> QED BY <5>1, <5>2
        <4> QED BY <3>4, <4>1, <4>2, <4>3 DEF Places
      <3>6. (\A k \in 1 .. n : seq[k] \notin drop) =>
              Len(more) = n /\ \A k \in 1 .. n : more[k] = seq[k]
        BY <1>5, <2>1, <2>2, <3>1
      <3>7. (\E k \in 1 .. n : seq[k] \in drop) => Len(more) < n
        <4> SUFFICES ASSUME NEW k \in 1 .. n, seq[k] \in drop PROVE Len(more) < n
          OBVIOUS
        <4>1. k \in 1 .. n - 1
          BY <2>1, <2>5
        <4> QED BY <1>5, <2>1, <2>2, <3>1, <4>1
      <3>8. Len(more) <= n
        BY <1>5, <2>1, <2>2, <3>1
      <3> QED BY <3>1, <3>5, <3>6, <3>7, <3>8
    <2> QED BY <2>4, <2>5
  <1>6. ASSUME NEW n \in 0 .. N, n # 0
        PROVE  kept[n] = IF seq[n] \in drop THEN kept[n - 1] ELSE Append(kept[n - 1], seq[n])
    BY <1>1, <1>6 DEF Filters
  <1> HIDE DEF P
  <1>7. ASSUME T # {} PROVE FALSE
    <2>1. PICK n \in T : \A m \in T : n <= m
      <3>1. T \subseteq Nat /\ T # {}
        BY <1>2, <1>7
      <3> HIDE DEF T
      <3> QED BY <3>1, LeastNumber
    <2>2. n \in 0 .. N /\ ~P(n, kept[n])
      OBVIOUS
    <2>3. n # 0
      BY <1>3, <1>4, <2>2
    <2>4. P(n - 1, kept[n - 1])
      BY <1>2, <2>1, <2>2, <2>3
    <2> QED BY <1>5, <1>6, <2>2, <2>3, <2>4
  <1>8. P(N, kept[N])
    BY <1>2, <1>7
  <1> SUFFICES ASSUME NEW out, out = kept[N]
               PROVE  /\ out \in Seq(A)
                      /\ \E pos : Places(pos, out, seq, N, drop)
                      /\ (\A k \in 1 .. N : seq[k] \notin drop) => out = seq
                      /\ (\E k \in 1 .. N : seq[k] \in drop) => Len(out) < N
    BY <1>1
  <1>9. P(N, out)
    BY <1>8
  <1>10. (\A k \in 1 .. N : seq[k] \notin drop) => out = seq
    BY <1>9, SeqEqual DEF P
  <1> QED BY <1>9, <1>10 DEF P

=============================================================================
