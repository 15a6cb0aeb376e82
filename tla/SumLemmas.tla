----------------------------- MODULE SumLemmas -----------------------------
(***************************************************************************)
(* Sums over finite sets: what SumFunctionOnSet adds up, for every function *)
(* and every finite set of indices.                                         *)
(*                                                                         *)
(* The library's induction theorems range over predicates.  Here induction  *)
(* is over a set of counterexamples, which has a smallest member.           *)
(***************************************************************************)
EXTENDS Integers, Functions, FiniteSets, FiniteSetTheorems, WellFoundedInduction, TLAPS

\* Among subsets of a finite set one has no proper subset among them.
LEMMA SmallestSubset ==
    ASSUME NEW S, IsFiniteSet(S), NEW C, C \subseteq SUBSET S, C # {}
    PROVE  \E s \in C : \A t \in C : t \subseteq s => t = s
  <1> DEFINE R == StrictSubsetOrdering(S)
  <1>1. IsWellFoundedOn(R, FiniteSubsetsOf(S))
    BY FS_StrictSubsetOrderingWellFounded
  <1>2. C \subseteq FiniteSubsetsOf(S)
    BY FS_Subset DEF FiniteSubsetsOf
  <1>3. PICK s \in C : \A t \in C : <<t, s>> \notin R
    BY <1>1, <1>2, WFMin
  <1>4. ASSUME NEW t \in C, t \subseteq s PROVE t = s
    BY <1>2, <1>3, <1>4 DEF StrictSubsetOrdering, FiniteSubsetsOf
  <1> QED BY <1>3, <1>4

-----------------------------------------------------------------------------
(* The recursive function behind a sum *)

\* The index a sum takes out of a set first.
First(s) == CHOOSE x \in s : TRUE

Term(fun, g, s) == IF s = {} THEN 0 ELSE fun[First(s)] + g[s \ {First(s)}]

\* g gives each subset of S its sum.
Sums(fun, S, g) == g = [s \in SUBSET S |-> Term(fun, g, s)]

Iter(fun, S) == CHOOSE g : Sums(fun, S, g)

\* SumFunctionOnSet is defined by such a function.
LEMMA SumIsIter ==
    ASSUME NEW fun, NEW S
    PROVE  SumFunctionOnSet(fun, S) = Iter(fun, S)[S]
  BY DEF SumFunctionOnSet, FoldFunctionOnSet, MapThenFoldSet, Iter, Sums, Term, First

\* Two of them agree on the sets they have in common.
LEMMA SumsAgree ==
    ASSUME NEW fun, NEW S, NEW T, IsFiniteSet(S), NEW g, NEW h,
           Sums(fun, S, g), Sums(fun, T, h), NEW U, U \subseteq S, U \subseteq T
    PROVE  g[U] = h[U]
  <1> DEFINE C == {s \in SUBSET U : g[s] # h[s]}
  <1> SUFFICES C = {}
    OBVIOUS
  <1> SUFFICES ASSUME C # {} PROVE FALSE
    OBVIOUS
  <1>1. IsFiniteSet(U)
    BY FS_Subset
  <1>2. PICK s \in C : \A t \in C : t \subseteq s => t = s
    <2> HIDE DEF C
    <2>1. C \subseteq SUBSET U
      BY DEF C
    <2> QED BY <1>1, <2>1, SmallestSubset
  <1>3. g[s] = Term(fun, g, s) /\ h[s] = Term(fun, h, s)
    BY DEF Sums
  <1>4. s # {}
    BY <1>2, <1>3 DEF Term
  <1>5. First(s) \in s
    BY <1>4 DEF First
  <1>6. g[s \ {First(s)}] = h[s \ {First(s)}]
    BY <1>2, <1>5
  <1> QED BY <1>2, <1>3, <1>6 DEF Term

\* There is one for every finite set.
LEMMA SumsExist ==
    ASSUME NEW fun, NEW S, IsFiniteSet(S)
    PROVE  \E g : Sums(fun, S, g)
  <1> DEFINE C == {s \in SUBSET S : ~ \E g : Sums(fun, s, g)}
  <1> SUFFICES C = {}
    OBVIOUS
  <1> SUFFICES ASSUME C # {} PROVE FALSE
    OBVIOUS
  <1>2. PICK s \in C : \A t \in C : t \subseteq s => t = s
    <2> HIDE DEF C
    <2>1. C \subseteq SUBSET S
      BY DEF C
    <2> QED BY <2>1, SmallestSubset
  <1>3. \A t \in SUBSET s : t # s => Sums(fun, t, Iter(fun, t))
    BY <1>2 DEF Iter
  <1> DEFINE Before(t) == Iter(fun, t \ {First(t)})[t \ {First(t)}]
             g == [t \in SUBSET s |-> IF t = {} THEN 0 ELSE fun[First(t)] + Before(t)]
  <1>4. ASSUME NEW t \in SUBSET s, t # {} PROVE g[t \ {First(t)}] = Before(t)
    <2> DEFINE u == t \ {First(t)}
    <2>1. First(t) \in t /\ u \in SUBSET s /\ u # s
      BY <1>4 DEF First
    <2>2. Sums(fun, u, Iter(fun, u))
      BY <1>3, <2>1
    <2>3. CASE u = {}
      <3>1. Iter(fun, u)[u] = Term(fun, Iter(fun, u), u)
        BY <2>2 DEF Sums
      <3> QED BY <2>1, <2>3, <3>1 DEF Term
    <2>4. CASE u # {}
      <3> DEFINE v == u \ {First(u)}
      <3>1. First(u) \in u /\ v \in SUBSET s /\ v # s /\ v \subseteq u
        BY <2>1, <2>4 DEF First
      <3>2. Sums(fun, v, Iter(fun, v))
        BY <1>3, <3>1
      <3>3. IsFiniteSet(u)
        BY <2>1, FS_Subset
      <3>4. Iter(fun, u)[v] = Iter(fun, v)[v]
        <4> HIDE DEF u, v
        <4> QED BY <2>2, <3>1, <3>2, <3>3, SumsAgree
      <3>5. Iter(fun, u)[u] = fun[First(u)] + Iter(fun, u)[v]
        <4>1. Iter(fun, u)[u] = Term(fun, Iter(fun, u), u)
          BY <2>2 DEF Sums
        <4> QED BY <2>4, <4>1 DEF Term
      <3>6. g[u] = fun[First(u)] + Before(u)
        BY <2>1, <2>4
      <3> QED BY <3>4, <3>5, <3>6
    <2> QED BY <2>3, <2>4
  <1>5. Sums(fun, s, g)
    <2> HIDE DEF Before
    <2>1. g = [t \in SUBSET s |-> Term(fun, g, t)]
      <3>1. \A t \in SUBSET s : g[t] = Term(fun, g, t)
        BY <1>4 DEF Term
      <3> QED BY <3>1
    <2> QED BY <2>1 DEF Sums
  <1> HIDE DEF g
  <1> QED BY <1>2, <1>5

\* A sum is the value of its first index and the sum of the rest.
LEMMA SumUnfold ==
    ASSUME NEW fun, NEW S, IsFiniteSet(S)
    PROVE  SumFunctionOnSet(fun, S) =
             IF S = {} THEN 0
             ELSE fun[First(S)] + SumFunctionOnSet(fun, S \ {First(S)})
  <1> DEFINE T == S \ {First(S)}
  <1>1. IsFiniteSet(T) /\ T \subseteq S
    BY FS_Subset
  <1>2. Sums(fun, S, Iter(fun, S)) /\ Sums(fun, T, Iter(fun, T))
    BY <1>1, SumsExist DEF Iter
  <1>3. Iter(fun, S)[T] = Iter(fun, T)[T]
    <2> HIDE DEF T
    <2> QED BY <1>1, <1>2, SumsAgree
  <1>4. Iter(fun, S)[S] = Term(fun, Iter(fun, S), S)
    BY <1>2 DEF Sums
  <1> QED BY <1>3, <1>4, SumIsIter DEF Term

-----------------------------------------------------------------------------
(* What a sum is *)

\* Over no index it is 0.
LEMMA SumEmpty ==
    ASSUME NEW fun PROVE SumFunctionOnSet(fun, {}) = 0
  <1>1. IsFiniteSet({})
    BY FS_EmptySet
  <1> QED BY <1>1, SumUnfold

\* A sum of integers is an integer.
LEMMA SumType ==
    ASSUME NEW S, IsFiniteSet(S), NEW fun, \A x \in S : fun[x] \in Int
    PROVE  SumFunctionOnSet(fun, S) \in Int
  <1> DEFINE C == {s \in SUBSET S : SumFunctionOnSet(fun, s) \notin Int}
  <1> SUFFICES C = {}
    OBVIOUS
  <1> SUFFICES ASSUME C # {} PROVE FALSE
    OBVIOUS
  <1>1. PICK s \in C : \A t \in C : t \subseteq s => t = s
    <2> HIDE DEF C
    <2>1. C \subseteq SUBSET S
      BY DEF C
    <2> QED BY <2>1, SmallestSubset
  <1>2. IsFiniteSet(s)
    BY FS_Subset
  <1>3. s # {}
    <2>1. SumFunctionOnSet(fun, s) \notin Int /\ 0 \in Int
      BY <1>1
    <2> QED BY <2>1, SumEmpty, Zenon
  <1>4. First(s) \in s
    BY <1>3 DEF First
  <1>5. SumFunctionOnSet(fun, s \ {First(s)}) \in Int
    BY <1>1, <1>4
  <1>6. SumFunctionOnSet(fun, s) = fun[First(s)] + SumFunctionOnSet(fun, s \ {First(s)})
    BY <1>2, <1>3, SumUnfold
  <1>7. fun[First(s)] \in Int
    BY <1>1, <1>4
  <1> QED BY <1>1, <1>5, <1>6, <1>7

\* Any index may be taken out first.
LEMMA SumRemove ==
    ASSUME NEW S, IsFiniteSet(S), NEW fun, \A x \in S : fun[x] \in Int, NEW x \in S
    PROVE  SumFunctionOnSet(fun, S) = fun[x] + SumFunctionOnSet(fun, S \ {x})
  <1> DEFINE Sum(s) == SumFunctionOnSet(fun, s)
             C == {s \in SUBSET S : \E y \in s : Sum(s) # fun[y] + Sum(s \ {y})}
  <1> SUFFICES C = {}
    OBVIOUS
  <1> SUFFICES ASSUME C # {} PROVE FALSE
    OBVIOUS
  <1>1. PICK s \in C : \A t \in C : t \subseteq s => t = s
    <2> HIDE DEF C
    <2>1. C \subseteq SUBSET S
      BY DEF C
    <2> QED BY <2>1, SmallestSubset
  <1>2. PICK y \in s : Sum(s) # fun[y] + Sum(s \ {y})
    BY <1>1
  <1> DEFINE f == First(s)
             rest == (s \ {f}) \ {y}
  <1>3. IsFiniteSet(s) /\ IsFiniteSet(rest)
    BY FS_Subset
  <1>4. f \in s
    BY <1>2 DEF First
  <1>5. Sum(s) = fun[f] + Sum(s \ {f})
    BY <1>2, <1>3, SumUnfold
  <1>6. y # f
    BY <1>2, <1>5
  <1>7. Sum(s \ {f}) = fun[y] + Sum(rest)
    <2>1. s \ {f} # s /\ s \ {f} \subseteq s /\ s \ {f} \in SUBSET S /\ y \in s \ {f}
      BY <1>2, <1>4, <1>6
    <2>2. s \ {f} \notin C
      BY <1>1, <2>1
    <2> QED BY <2>1, <2>2
  <1>8. Sum(s \ {y}) = fun[f] + Sum(rest)
    <2>1. s \ {y} # s /\ s \ {y} \subseteq s /\ s \ {y} \in SUBSET S /\ f \in s \ {y}
      BY <1>4, <1>6
    <2>2. s \ {y} \notin C
      BY <1>1, <2>1
    <2>3. (s \ {y}) \ {f} = rest
      OBVIOUS
    <2> QED BY <2>1, <2>2, <2>3
  <1>9. fun[f] \in Int /\ fun[y] \in Int /\ Sum(rest) \in Int
    BY <1>2, <1>3, <1>4, SumType
  <1> HIDE DEF Sum, f, rest
  <1> QED BY <1>2, <1>5, <1>7, <1>8, <1>9

\* A new index adds its value.
LEMMA SumAdd ==
    ASSUME NEW S, IsFiniteSet(S), NEW x, x \notin S,
           NEW fun, \A y \in S \cup {x} : fun[y] \in Int
    PROVE  SumFunctionOnSet(fun, S \cup {x}) = SumFunctionOnSet(fun, S) + fun[x]
  <1>1. IsFiniteSet(S \cup {x})
    BY FS_AddElement
  <1>2. (S \cup {x}) \ {x} = S
    OBVIOUS
  <1>3. SumFunctionOnSet(fun, S) \in Int /\ fun[x] \in Int
    BY SumType
  <1>4. SumFunctionOnSet(fun, S \cup {x}) = fun[x] + SumFunctionOnSet(fun, S)
    <2>1. x \in S \cup {x}
      OBVIOUS
    <2> QED BY <1>1, <1>2, <2>1, SumRemove
  <1> QED BY <1>3, <1>4

\* A sum depends on the values at its indices alone, and grows with them.
LEMMA SumMonotone ==
    ASSUME NEW S, IsFiniteSet(S), NEW fun, NEW gun,
           \A x \in S : fun[x] \in Int /\ gun[x] \in Int /\ fun[x] <= gun[x]
    PROVE  SumFunctionOnSet(fun, S) <= SumFunctionOnSet(gun, S)
  <1> DEFINE C == {s \in SUBSET S : ~ (SumFunctionOnSet(fun, s) <= SumFunctionOnSet(gun, s))}
  <1> SUFFICES C = {}
    OBVIOUS
  <1> SUFFICES ASSUME C # {} PROVE FALSE
    OBVIOUS
  <1>1. PICK s \in C : \A t \in C : t \subseteq s => t = s
    <2> HIDE DEF C
    <2>1. C \subseteq SUBSET S
      BY DEF C
    <2> QED BY <2>1, SmallestSubset
  <1> DEFINE rest == s \ {First(s)}
  <1>2. IsFiniteSet(s) /\ IsFiniteSet(rest)
    BY FS_Subset
  <1>3. s # {}
    <2>1. ~ (SumFunctionOnSet(fun, s) <= SumFunctionOnSet(gun, s)) /\ 0 <= 0
      BY <1>1
    <2> QED BY <2>1, SumEmpty, Zenon
  <1>4. First(s) \in s
    BY <1>3 DEF First
  <1>5. SumFunctionOnSet(fun, rest) <= SumFunctionOnSet(gun, rest)
    BY <1>1, <1>4
  <1>6. /\ SumFunctionOnSet(fun, s) = fun[First(s)] + SumFunctionOnSet(fun, rest)
        /\ SumFunctionOnSet(gun, s) = gun[First(s)] + SumFunctionOnSet(gun, rest)
    BY <1>2, <1>3, SumUnfold
  <1>7. SumFunctionOnSet(fun, rest) \in Int /\ SumFunctionOnSet(gun, rest) \in Int
    BY <1>2, SumType
  <1>8. fun[First(s)] \in Int /\ gun[First(s)] \in Int /\ fun[First(s)] <= gun[First(s)]
    BY <1>1, <1>4
  <1> HIDE DEF rest
  <1> QED BY <1>1, <1>5, <1>6, <1>7, <1>8

\* Functions that agree on the indices have one sum.
LEMMA SumSame ==
    ASSUME NEW S, IsFiniteSet(S), NEW fun, NEW gun,
           \A x \in S : fun[x] \in Int /\ fun[x] = gun[x]
    PROVE  SumFunctionOnSet(fun, S) = SumFunctionOnSet(gun, S)
  <1>1. SumFunctionOnSet(fun, S) <= SumFunctionOnSet(gun, S)
    BY SumMonotone
  <1>2. SumFunctionOnSet(gun, S) <= SumFunctionOnSet(fun, S)
    BY SumMonotone
  <1>3. SumFunctionOnSet(fun, S) \in Int /\ SumFunctionOnSet(gun, S) \in Int
    BY SumType
  <1> QED BY <1>1, <1>2, <1>3

\* A sum of naturals is one.
LEMMA SumNat ==
    ASSUME NEW S, IsFiniteSet(S), NEW fun, \A x \in S : fun[x] \in Nat
    PROVE  SumFunctionOnSet(fun, S) \in Nat
  <1> DEFINE C == {s \in SUBSET S : SumFunctionOnSet(fun, s) \notin Nat}
  <1> SUFFICES C = {}
    OBVIOUS
  <1> SUFFICES ASSUME C # {} PROVE FALSE
    OBVIOUS
  <1>1. PICK s \in C : \A t \in C : t \subseteq s => t = s
    <2> HIDE DEF C
    <2>1. C \subseteq SUBSET S
      BY DEF C
    <2> QED BY <2>1, SmallestSubset
  <1>2. IsFiniteSet(s)
    BY FS_Subset
  <1>3. s # {}
    <2>1. SumFunctionOnSet(fun, s) \notin Nat /\ 0 \in Nat
      BY <1>1
    <2> QED BY <2>1, SumEmpty, Zenon
  <1>4. First(s) \in s
    BY <1>3 DEF First
  <1>5. SumFunctionOnSet(fun, s \ {First(s)}) \in Nat /\ fun[First(s)] \in Nat
    BY <1>1, <1>4
  <1>6. SumFunctionOnSet(fun, s) = fun[First(s)] + SumFunctionOnSet(fun, s \ {First(s)})
    BY <1>2, <1>3, SumUnfold
  <1> QED BY <1>1, <1>5, <1>6

\* None of its terms exceeds it.
LEMMA SumMember ==
    ASSUME NEW S, IsFiniteSet(S), NEW fun, \A y \in S : fun[y] \in Nat, NEW x \in S
    PROVE  fun[x] <= SumFunctionOnSet(fun, S)
  <1>1. IsFiniteSet(S \ {x})
    BY FS_RemoveElement
  <1>2. SumFunctionOnSet(fun, S \ {x}) \in Nat
    BY <1>1, SumNat
  <1>3. SumFunctionOnSet(fun, S) = fun[x] + SumFunctionOnSet(fun, S \ {x})
    BY SumRemove
  <1> QED BY <1>2, <1>3
\* A sum of zeros is zero.
LEMMA SumZero ==
    ASSUME NEW S, IsFiniteSet(S), NEW fun, \A x \in S : fun[x] = 0
    PROVE  SumFunctionOnSet(fun, S) = 0
  <1> DEFINE C == {s \in SUBSET S : SumFunctionOnSet(fun, s) # 0}
  <1> SUFFICES C = {}
    OBVIOUS
  <1> SUFFICES ASSUME C # {} PROVE FALSE
    OBVIOUS
  <1>1. PICK s \in C : \A t \in C : t \subseteq s => t = s
    <2> HIDE DEF C
    <2>1. C \subseteq SUBSET S
      BY DEF C
    <2> QED BY <2>1, SmallestSubset
  <1>2. IsFiniteSet(s)
    BY FS_Subset
  <1>3. s # {}
    <2>1. SumFunctionOnSet(fun, s) # 0
      BY <1>1
    <2> QED BY <2>1, SumEmpty, Zenon
  <1>4. First(s) \in s
    BY <1>3 DEF First
  <1>5. SumFunctionOnSet(fun, s \ {First(s)}) = 0 /\ fun[First(s)] = 0
    BY <1>1, <1>4
  <1>6. SumFunctionOnSet(fun, s) = fun[First(s)] + SumFunctionOnSet(fun, s \ {First(s)})
    BY <1>2, <1>3, SumUnfold
  <1> QED BY <1>1, <1>5, <1>6

\* The sum over two sets with nothing in common.
LEMMA SumUnion ==
    ASSUME NEW S, IsFiniteSet(S), NEW T, IsFiniteSet(T), S \cap T = {},
           NEW fun, \A x \in S \cup T : fun[x] \in Int
    PROVE  SumFunctionOnSet(fun, S \cup T) = SumFunctionOnSet(fun, S) + SumFunctionOnSet(fun, T)
  <1> DEFINE Sum(s) == SumFunctionOnSet(fun, s)
             C == {t \in SUBSET T : Sum(S \cup t) # Sum(S) + Sum(t)}
  <1> SUFFICES C = {}
    OBVIOUS
  <1> SUFFICES ASSUME C # {} PROVE FALSE
    OBVIOUS
  <1>1. PICK t \in C : \A r \in C : r \subseteq t => r = t
    <2> HIDE DEF C
    <2>1. C \subseteq SUBSET T
      BY DEF C
    <2> QED BY <2>1, SmallestSubset
  <1>2. t \in SUBSET T /\ Sum(S \cup t) # Sum(S) + Sum(t)
    BY <1>1
  <1>3. t # {}
    <2>1. S \cup {} = S /\ Sum(S) \in Int
      BY SumType
    <2>2. Sum({}) = 0
      BY SumEmpty
    <2>3. Sum(S \cup {}) = Sum(S) + Sum({})
      <3> HIDE DEF Sum
      <3> QED BY <2>1, <2>2
    <2> QED BY <1>2, <2>3
  <1>4. PICK x : x \in t
    BY <1>3
  <1> DEFINE rest == t \ {x}
  <1>5. /\ x \in T /\ x \notin S /\ x \in S \cup t
        /\ rest \in SUBSET T /\ rest \subseteq t /\ rest # t
        /\ (S \cup t) \ {x} = S \cup rest
    BY <1>2, <1>4
  <1>6. IsFiniteSet(t) /\ IsFiniteSet(rest) /\ IsFiniteSet(S \cup t)
    BY <1>2, <1>5, FS_Subset, FS_Union
  <1>7. Sum(S \cup rest) = Sum(S) + Sum(rest)
    BY <1>1, <1>5
  <1>8. Sum(S \cup t) = fun[x] + Sum(S \cup rest)
    <2>1. \A y \in S \cup t : fun[y] \in Int
      BY <1>2
    <2> HIDE DEF rest
    <2>2. Sum(S \cup t) = fun[x] + Sum((S \cup t) \ {x})
      BY <1>5, <1>6, <2>1, SumRemove
    <2> QED BY <1>5, <2>2
  <1>9. Sum(t) = fun[x] + Sum(rest)
    <2>1. \A y \in t : fun[y] \in Int
      BY <1>2
    <2> QED BY <1>4, <1>6, <2>1, SumRemove
  <1>10. Sum(S) \in Int /\ Sum(rest) \in Int /\ fun[x] \in Int
    BY <1>5, <1>6, SumType
  <1> HIDE DEF Sum, rest
  <1> QED BY <1>2, <1>7, <1>8, <1>9, <1>10
=============================================================================
