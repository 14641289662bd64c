------------------------------ MODULE SumLemmas ------------------------------
(***************************************************************************)
(* What SumFunctionOnSet, the sum the wallets, the withdrawals and the     *)
(* weekly bonus are accounted with, does on any finite set: which element  *)
(* is added first does not matter, a new element adds its value, an        *)
(* element whose value changes moves the sum by the difference, and        *)
(* disjoint parts add up.                                                  *)
(*                                                                         *)
(* The argument is an induction over the finite subsets. The library's     *)
(* induction takes an operator; the one here takes the set of the subsets  *)
(* the claim holds of, and rests on the least subset outside that set.     *)
(***************************************************************************)
EXTENDS Integers, Functions, FiniteSetTheorems, TLAPS

(* A set of subsets of S that has {} and grows with them has them all. *)
LEMMA SetInduction ==
    ASSUME NEW S, IsFiniteSet(S), NEW P, {} \in P,
           \A T \in SUBSET S : \A x \in S \ T : T \in P => T \cup {x} \in P
    PROVE  \A T \in SUBSET S : T \in P
<1> DEFINE less == StrictSubsetOrdering(S)
           left == (SUBSET S) \ P
<1>1. IsWellFoundedOn(less, SUBSET S)
  BY FS_FiniteSubsetsOfFinite, FS_StrictSubsetOrderingWellFounded
<1>2. SUFFICES ASSUME left # {} PROVE FALSE
  OBVIOUS
<1>3. left \subseteq SUBSET S
  OBVIOUS
<1> HIDE DEF less, left
<1>4. PICK T \in left : \A U \in left : ~(<<U, T>> \in less)
  BY <1>1, <1>2, <1>3, WFMin
<1>5. T # {} /\ T \in SUBSET S /\ T \notin P
  BY <1>4 DEF left
<1>6. PICK x \in T : TRUE
  BY <1>5
<1>7. T \ {x} \in P
  <2>1. T \ {x} \in SUBSET S /\ T \ {x} # T
    BY <1>5, <1>6
  <2>2. <<T \ {x}, T>> \in less
    BY <1>5, <2>1 DEF less, StrictSubsetOrdering
  <2> QED BY <1>4, <2>1, <2>2 DEF left
<1>8. (T \ {x}) \cup {x} = T
  BY <1>6
<1> QED BY <1>5, <1>6, <1>7, <1>8

-----------------------------------------------------------------------------
(* The folds of the library, unfolded: the function that is CHOOSEn. *)
One(s) == CHOOSE x \in s : TRUE

(* g adds up f over each of the sets in Dom. *)
Adds(g, f, Dom) ==
    g = [s \in Dom |-> IF s = {} THEN 0 ELSE f[One(s)] + g[s \ {One(s)}]]

SumsOf(f, S) == CHOOSE g : Adds(g, f, SUBSET S)

LEMMA SumUnfold == \A f, S : SumFunctionOnSet(f, S) = SumsOf(f, S)[S]
BY DEF SumFunctionOnSet, FoldFunctionOnSet, MapThenFoldSet, SumsOf, Adds, One

(* There is such a function on a finite set: it is built up by cardinality. *)
LEMMA AddsExists ==
    ASSUME NEW S, IsFiniteSet(S), NEW f
    PROVE  \E g : Adds(g, f, SUBSET S)
<1> DEFINE P == {T \in SUBSET S : \E g : Adds(g, f, {s \in SUBSET S : Cardinality(s) <= Cardinality(T)})}
<1>1. {} \in P
  <2> DEFINE D == {s \in SUBSET S : Cardinality(s) <= Cardinality({})}
             g == [s \in D |-> 0]
  <2>1. \A s \in D : s = {}
    <3> SUFFICES ASSUME NEW s \in D PROVE s = {}
      OBVIOUS
    <3>1. IsFiniteSet(s) /\ Cardinality(s) \in Nat
      BY FS_Subset, FS_CardinalityType
    <3> QED BY <3>1, FS_EmptySet
  <2>2. Adds(g, f, D)
    BY <2>1 DEF Adds
  <2> QED BY <2>2
<1>2. ASSUME NEW T \in SUBSET S, NEW x \in S \ T, T \in P PROVE T \cup {x} \in P
  <2> DEFINE D == {s \in SUBSET S : Cardinality(s) <= Cardinality(T)}
             E == {s \in SUBSET S : Cardinality(s) <= Cardinality(T \cup {x})}
  <2>1. PICK g : Adds(g, f, D)
    BY <1>2
  <2> DEFINE h == [s \in E |-> IF s \in D THEN g[s] ELSE f[One(s)] + g[s \ {One(s)}]]
  <2>2. Cardinality(T) \in Nat /\ Cardinality(T \cup {x}) = Cardinality(T) + 1
    BY FS_Subset, FS_AddElement, FS_CardinalityType
  <2>3. ASSUME NEW s \in E, s # {} PROVE s \ {One(s)} \in D
    <3>1. IsFiniteSet(s) /\ Cardinality(s) \in Nat /\ One(s) \in s
      BY <2>3, FS_Subset, FS_CardinalityType DEF One
    <3>2. Cardinality(s \ {One(s)}) = Cardinality(s) - 1
      BY <3>1, FS_RemoveElement
    <3> QED BY <2>2, <3>1, <3>2
  <2>4. {} \in D /\ D \subseteq E
    <3>1. \A s \in D : Cardinality(s) \in Nat
      BY FS_Subset, FS_CardinalityType
    <3> QED BY <2>2, <3>1, FS_EmptySet
  <2> HIDE DEF D, E
  <2>5. ASSUME NEW s \in E PROVE h[s] = IF s = {} THEN 0 ELSE f[One(s)] + h[s \ {One(s)}]
    <3>1. CASE s = {}
      BY <2>1, <2>4, <3>1 DEF Adds
    <3>2. CASE s # {}
      <4>1. s \ {One(s)} \in D /\ s \ {One(s)} \in E
        BY <2>3, <2>4, <3>2
      <4>2. h[s \ {One(s)}] = g[s \ {One(s)}]
        BY <4>1
      <4>3. s \in D => g[s] = f[One(s)] + g[s \ {One(s)}]
        BY <2>1, <3>2 DEF Adds
      <4> QED BY <3>2, <4>2, <4>3
    <3> QED BY <3>1, <3>2
  <2>6. Adds(h, f, E)
    BY <2>5 DEF Adds
  <2> QED BY <2>6 DEF E
<1> HIDE DEF P
<1>3. S \in P
  BY <1>1, <1>2, SetInduction
<1>4. SUBSET S = {s \in SUBSET S : Cardinality(s) <= Cardinality(S)}
  BY FS_Subset
<1> QED BY <1>3, <1>4 DEF P

IntOn(f, S) == \A x \in S : f[x] \in Int
SameOn(e, f, S) == \A x \in S : e[x] = f[x]

(* g[s] is a sum, whichever element is taken out. *)
AnyOut(g, f, s) == g[s] \in Int /\ \A y \in s : g[s] = f[y] + g[s \ {y}]

(* If smaller sets are sums whichever element goes first, so is this one. *)
LEMMA OutOfTwo ==
    ASSUME NEW s, NEW f, IntOn(f, s), NEW g, NEW c \in s, g[s] = f[c] + g[s \ {c}],
           \A y \in s : AnyOut(g, f, s \ {y}),
           \A y \in s, z \in s : g[(s \ {y}) \ {z}] \in Int
    PROVE  AnyOut(g, f, s)
<1>1. f[c] \in Int /\ g[s \ {c}] \in Int
  BY DEF AnyOut, IntOn
<1>2. ASSUME NEW y \in s, y # c PROVE g[s] = f[y] + g[s \ {y}]
  <2>1. y \in s \ {c} /\ c \in s \ {y}
    BY <1>2
  <2>2. g[s \ {c}] = f[y] + g[(s \ {c}) \ {y}] /\ g[s \ {y}] = f[c] + g[(s \ {y}) \ {c}]
    BY <2>1 DEF AnyOut
  <2>3. (s \ {c}) \ {y} = (s \ {y}) \ {c}
    OBVIOUS
  <2>4. f[y] \in Int /\ g[(s \ {y}) \ {c}] \in Int
    BY DEF IntOn
  <2>5. PICK rest \in Int : rest = g[(s \ {y}) \ {c}]
    BY <2>4
  <2>6. g[s \ {c}] = f[y] + rest /\ g[s \ {y}] = f[c] + rest
    BY <2>2, <2>3, <2>5
  <2> HIDE DEF AnyOut
  <2> QED BY <1>1, <2>4, <2>6
<1>3. g[s] \in Int
  BY <1>1
<1> QED BY <1>2, <1>3 DEF AnyOut

LEMMA AddsAny ==
    ASSUME NEW S, IsFiniteSet(S), NEW f, IntOn(f, S), NEW g, Adds(g, f, SUBSET S)
    PROVE  g[{}] = 0 /\ \A s \in SUBSET S : AnyOut(g, f, s)
<1> DEFINE P == {T \in SUBSET S : \A s \in SUBSET S : Cardinality(s) <= Cardinality(T) => AnyOut(g, f, s)}
<1>1. g[{}] = 0 /\ AnyOut(g, f, {})
  BY DEF Adds, AnyOut
<1>2. \A s \in SUBSET S : IsFiniteSet(s) /\ Cardinality(s) \in Nat
  BY FS_Subset, FS_CardinalityType
<1>3. {} \in P
  <2>1. \A s \in SUBSET S : Cardinality(s) <= Cardinality({}) => s = {}
    BY <1>2, FS_EmptySet
  <2> QED BY <1>1, <2>1
<1>4. ASSUME NEW T \in SUBSET S, NEW x \in S \ T, T \in P PROVE T \cup {x} \in P
  <2>1. Cardinality(T) \in Nat /\ Cardinality(T \cup {x}) = Cardinality(T) + 1
    BY <1>2, FS_AddElement
  <2>2. \A s \in SUBSET S : Cardinality(s) <= Cardinality(T) => AnyOut(g, f, s)
    BY <1>4
  <2>3. ASSUME NEW s \in SUBSET S, Cardinality(s) <= Cardinality(T) + 1, s # {}
        PROVE  AnyOut(g, f, s)
    <3> DEFINE c == One(s)
    <3>1. c \in s /\ g[s] = f[c] + g[s \ {c}] /\ IntOn(f, s)
      BY <2>3 DEF One, IntOn, Adds
    <3>2. ASSUME NEW y \in s
          PROVE  s \ {y} \in SUBSET S /\ Cardinality(s \ {y}) <= Cardinality(T)
      <4>1. Cardinality(s \ {y}) = Cardinality(s) - 1
        BY <1>2, FS_RemoveElement
      <4> QED BY <1>2, <2>1, <2>3, <4>1
    <3>3. ASSUME NEW y \in s, NEW z \in s PROVE g[(s \ {y}) \ {z}] \in Int
      <4>1. AnyOut(g, f, s \ {y}) /\ IsFiniteSet(s \ {y})
        BY <1>2, <2>2, <3>2
      <4>2. CASE z \in s \ {y}
        <5>1. Cardinality((s \ {y}) \ {z}) = Cardinality(s \ {y}) - 1
          BY <4>1, <4>2, FS_RemoveElement
        <5>2. Cardinality((s \ {y}) \ {z}) <= Cardinality(T) /\ (s \ {y}) \ {z} \in SUBSET S
          BY <1>2, <2>1, <3>2, <5>1
        <5> QED BY <2>2, <5>2 DEF AnyOut
      <4>3. CASE z \notin s \ {y}
        <5>1. (s \ {y}) \ {z} = s \ {y}
          BY <4>3
        <5> QED BY <4>1, <5>1 DEF AnyOut
      <4> QED BY <4>2, <4>3
    <3> HIDE DEF c
    <3> QED BY <2>2, <3>1, <3>2, <3>3, OutOfTwo
  <2> QED BY <1>1, <2>1, <2>3
<1> HIDE DEF P
<1>5. S \in P
  BY <1>3, <1>4, SetInduction
<1>6. \A s \in SUBSET S : Cardinality(s) <= Cardinality(S)
  BY FS_Subset
<1> QED BY <1>1, <1>5, <1>6 DEF P

(* Two such functions agree where their summands do. *)
LEMMA AddsAgree ==
    ASSUME NEW S, NEW T, NEW f, NEW e, NEW g, NEW h, IsFiniteSet(S), T \subseteq S,
           IntOn(f, S), SameOn(e, f, T), Adds(g, f, SUBSET S), Adds(h, e, SUBSET T)
    PROVE  h[T] = g[T]
<1> DEFINE P == {s \in SUBSET T : h[s] = g[s]}
<1>1. IsFiniteSet(T) /\ IntOn(e, T)
  BY FS_Subset DEF IntOn, SameOn
<1>2. g[{}] = 0 /\ \A s \in SUBSET S : AnyOut(g, f, s)
  BY AddsAny
<1>3. h[{}] = 0 /\ \A s \in SUBSET T : AnyOut(h, e, s)
  BY <1>1, AddsAny
<1>4. ASSUME NEW s \in SUBSET T, NEW x \in T \ s, s \in P PROVE s \cup {x} \in P
  <2>1. /\ s \cup {x} \in SUBSET T /\ s \cup {x} \in SUBSET S /\ x \in s \cup {x}
        /\ (s \cup {x}) \ {x} = s
    OBVIOUS
  <2>2. h[s \cup {x}] = e[x] + h[s]
    BY <1>3, <2>1 DEF AnyOut
  <2>3. g[s \cup {x}] = f[x] + g[s]
    BY <1>2, <2>1 DEF AnyOut
  <2>4. e[x] = f[x]
    BY DEF SameOn
  <2> QED BY <1>4, <2>1, <2>2, <2>3, <2>4
<1>5. {} \in P
  BY <1>2, <1>3
<1> HIDE DEF P
<1>6. T \in P
  BY <1>1, <1>4, <1>5, SetInduction
<1> QED BY <1>6 DEF P

(* A sum over part of S is one of the sums of S. *)
LEMMA SumOfPart ==
    ASSUME NEW S, IsFiniteSet(S), NEW f, IntOn(f, S),
           NEW T, T \subseteq S, NEW e, SameOn(e, f, T)
    PROVE  SumFunctionOnSet(e, T) = SumsOf(f, S)[T]
<1>1. Adds(SumsOf(f, S), f, SUBSET S)
  BY AddsExists DEF SumsOf
<1>2. IsFiniteSet(T)
  BY FS_Subset
<1>3. Adds(SumsOf(e, T), e, SUBSET T)
  BY <1>2, AddsExists DEF SumsOf
<1>4. ASSUME NEW g, NEW h, Adds(g, f, SUBSET S), Adds(h, e, SUBSET T) PROVE h[T] = g[T]
  BY <1>4, AddsAgree
<1> QED BY <1>1, <1>3, <1>4, SumUnfold

-----------------------------------------------------------------------------
(* What the proofs cite *)

LEMMA SumEmpty == \A f : SumFunctionOnSet(f, {}) = 0
<1> TAKE f
<1>1. IsFiniteSet({}) /\ IntOn(f, {})
  BY FS_EmptySet DEF IntOn
<1>2. Adds(SumsOf(f, {}), f, SUBSET {})
  BY <1>1, AddsExists DEF SumsOf
<1> QED BY <1>1, <1>2, AddsAny, SumUnfold

(* Any element can be taken out. *)
LEMMA SumRemove ==
    ASSUME NEW S, IsFiniteSet(S), NEW f, IntOn(f, S)
    PROVE  /\ SumFunctionOnSet(f, S) \in Int
           /\ \A x \in S : SumFunctionOnSet(f, S) = f[x] + SumFunctionOnSet(f, S \ {x})
<1>1. Adds(SumsOf(f, S), f, SUBSET S)
  BY AddsExists DEF SumsOf
<1>2. AnyOut(SumsOf(f, S), f, S)
  BY <1>1, AddsAny
<1>3. SumFunctionOnSet(f, S) = SumsOf(f, S)[S]
  BY SumUnfold
<1>4. ASSUME NEW x \in S PROVE SumFunctionOnSet(f, S \ {x}) = SumsOf(f, S)[S \ {x}]
  <2>1. SameOn(f, f, S \ {x})
    BY DEF SameOn
  <2> QED BY <2>1, SumOfPart
<1> QED BY <1>2, <1>3, <1>4 DEF AnyOut

(* Only the values on the set count. *)
LEMMA SumSame ==
    ASSUME NEW S, IsFiniteSet(S), NEW f, IntOn(f, S), NEW e, SameOn(e, f, S)
    PROVE  SumFunctionOnSet(e, S) = SumFunctionOnSet(f, S)
BY SumOfPart, SumUnfold

(* One element's value changes. *)
LEMMA SumChange ==
    ASSUME NEW S, IsFiniteSet(S), NEW f, IntOn(f, S), NEW e, NEW x \in S, e[x] \in Int,
           SameOn(e, f, S \ {x})
    PROVE  SumFunctionOnSet(e, S) = SumFunctionOnSet(f, S) + (e[x] - f[x])
<1>1. IsFiniteSet(S \ {x}) /\ IntOn(f, S \ {x}) /\ IntOn(e, S)
  BY FS_RemoveElement DEF IntOn, SameOn
<1>2. SumFunctionOnSet(e, S \ {x}) = SumFunctionOnSet(f, S \ {x}) /\ SumFunctionOnSet(f, S \ {x}) \in Int
  BY <1>1, SumSame, SumRemove
<1>3. /\ SumFunctionOnSet(e, S) = e[x] + SumFunctionOnSet(e, S \ {x})
      /\ SumFunctionOnSet(f, S) = f[x] + SumFunctionOnSet(f, S \ {x})
  BY <1>1, SumRemove
<1>4. f[x] \in Int
  BY DEF IntOn
<1> QED BY <1>2, <1>3, <1>4

(* A new element adds its value. *)
LEMMA SumAdd ==
    ASSUME NEW S, IsFiniteSet(S), NEW f, NEW x, x \notin S, IntOn(f, S \cup {x})
    PROVE  SumFunctionOnSet(f, S \cup {x}) = SumFunctionOnSet(f, S) + f[x]
<1>1. IsFiniteSet(S \cup {x}) /\ IntOn(f, S) /\ (S \cup {x}) \ {x} = S
  BY FS_AddElement DEF IntOn
<1>2. PICK sum \in Int, v \in Int : sum = SumFunctionOnSet(f, S) /\ v = f[x]
  BY <1>1, SumRemove DEF IntOn
<1>3. SumFunctionOnSet(f, S \cup {x}) = f[x] + SumFunctionOnSet(f, (S \cup {x}) \ {x})
  BY <1>1, SumRemove
<1>4. SumFunctionOnSet(f, S \cup {x}) = v + sum
  BY <1>1, <1>2, <1>3
<1>5. v + sum = sum + v
  OBVIOUS
<1> QED BY <1>2, <1>4, <1>5

LEMMA SumZero ==
    ASSUME NEW S, IsFiniteSet(S), NEW f, \A x \in S : f[x] = 0
    PROVE  SumFunctionOnSet(f, S) = 0
<1> DEFINE P == {T \in SUBSET S : SumFunctionOnSet(f, T) = 0}
<1>1. {} \in P
  BY SumEmpty
<1>2. ASSUME NEW T \in SUBSET S, NEW x \in S \ T, T \in P PROVE T \cup {x} \in P
  <2>1. IsFiniteSet(T) /\ IntOn(f, T \cup {x}) /\ f[x] = 0 /\ x \notin T
    BY FS_Subset DEF IntOn
  <2>2. SumFunctionOnSet(f, T \cup {x}) = SumFunctionOnSet(f, T) + f[x]
    BY <2>1, SumAdd
  <2> QED BY <1>2, <2>1, <2>2
<1> HIDE DEF P
<1>3. S \in P
  BY <1>1, <1>2, SetInduction
<1> QED BY <1>3 DEF P

(* Disjoint parts add up. *)
LEMMA SumUnion ==
    ASSUME NEW S, IsFiniteSet(S), NEW R, IsFiniteSet(R), S \cap R = {}, NEW f, IntOn(f, S \cup R)
    PROVE  SumFunctionOnSet(f, S \cup R) = SumFunctionOnSet(f, S) + SumFunctionOnSet(f, R)
<1> DEFINE P == {T \in SUBSET R :
                   SumFunctionOnSet(f, S \cup T) = SumFunctionOnSet(f, S) + SumFunctionOnSet(f, T)}
<1>1. SumFunctionOnSet(f, S) \in Int
  BY SumRemove DEF IntOn
<1>2. {} \in P
  <2>1. S \cup {} = S
    OBVIOUS
  <2> QED BY <1>1, <2>1, SumEmpty
<1>3. ASSUME NEW T \in SUBSET R, NEW x \in R \ T, T \in P PROVE T \cup {x} \in P
  <2>1. /\ IsFiniteSet(T) /\ IsFiniteSet(S \cup T) /\ x \notin T /\ x \notin S \cup T
        /\ IntOn(f, T) /\ IntOn(f, T \cup {x}) /\ IntOn(f, (S \cup T) \cup {x}) /\ f[x] \in Int
        /\ (S \cup T) \cup {x} = S \cup (T \cup {x}) /\ T \cup {x} \in SUBSET R
    BY FS_Subset, FS_Union DEF IntOn
  <2>2. SumFunctionOnSet(f, T) \in Int
    BY <2>1, SumRemove
  <2>3. SumFunctionOnSet(f, T \cup {x}) = SumFunctionOnSet(f, T) + f[x]
    BY <2>1, SumAdd
  <2>4. SumFunctionOnSet(f, S \cup (T \cup {x})) = SumFunctionOnSet(f, S \cup T) + f[x]
    BY <2>1, SumAdd
  <2>5. SumFunctionOnSet(f, S \cup T) = SumFunctionOnSet(f, S) + SumFunctionOnSet(f, T)
    BY <1>3
  <2> QED BY <1>1, <2>1, <2>2, <2>3, <2>4, <2>5
<1> HIDE DEF P
<1>4. R \in P
  BY <1>2, <1>3, SetInduction
<1> QED BY <1>4 DEF P
=============================================================================
