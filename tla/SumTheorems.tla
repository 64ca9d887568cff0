----------------------------- MODULE SumTheorems -----------------------------
(***************************************************************************)
(* The theory of SumFunction, the fold of the community modules that adds  *)
(* up the values of a function: margins of positions, notionals of legs    *)
(* and of queued intents, filled sizes of orders.  The library has no      *)
(* theorem about it, nor about functions that are defined by recursion on  *)
(* numbers.  The inductions are over sets of numbers and of subsets, by    *)
(* way of a smallest counterexample (WFMin).                               *)
(***************************************************************************)
EXTENDS Integers, Sequences, SequencesExt, FiniteSets, Functions, FiniteSetTheorems,
        WellFoundedInduction, TLAPS

-----------------------------------------------------------------------------
(* Induction.                                                              *)

\* A set with zero that holds the successor of each of its numbers holds
\* every number.
LEMMA NatSetInduction ==
  ASSUME NEW P, 0 \in P, \A n \in Nat : n \in P => n + 1 \in P
  PROVE  Nat \subseteq P
<1> DEFINE Missing == Nat \ P
<1>1. SUFFICES ASSUME Missing # {} PROVE FALSE
  OBVIOUS
<1>2. PICK n \in Missing : \A m \in Missing : <<m, n>> \notin OpToRel(<, Nat)
  <2>1. IsWellFoundedOn(OpToRel(<, Nat), Nat)
    BY NatLessThanWellFounded
  <2>2. Missing \subseteq Nat
    OBVIOUS
  <2> HIDE DEF Missing
  <2> QED
    BY <1>1, <2>1, <2>2, WFMin
<1>3. n \in Nat /\ n # 0 /\ n - 1 \in Nat /\ n - 1 < n /\ (n - 1) + 1 = n
  OBVIOUS
<1>4. n - 1 \in Missing
  BY <1>3
<1>5. <<n - 1, n>> \in OpToRel(<, Nat)
  BY <1>3 DEF OpToRel
<1> QED
  BY <1>2, <1>4, <1>5

-----------------------------------------------------------------------------
(* The recursion of SumFunctionOnSet, and that it is well defined.          *)

Some(s) == CHOOSE x \in s : TRUE

Body(f, s, g) == IF s = {} THEN 0 ELSE f[Some(s)] + g[s \ {Some(s)}]

Unfolded(f, S, g) == g = [s \in SUBSET S |-> Body(f, s, g)]

Partial(f, S) == CHOOSE g : Unfolded(f, S, g)

\* The sum over a set is a choice among the functions that satisfy its
\* recursion.
LEMMA SumIsChosen ==
  ASSUME NEW f, NEW S
  PROVE  SumFunctionOnSet(f, S) = Partial(f, S)[S]
  BY DEF SumFunctionOnSet, FoldFunctionOnSet, MapThenFoldSet, Partial, Unfolded, Body, Some

\* The element a sum takes off a set is one of the set.
LEMMA SomeIn ==
  ASSUME NEW s, s # {}
  PROVE  Some(s) \in s
  BY DEF Some

Sized(S, n) == {s \in SUBSET S : Cardinality(s) <= n}

\* A finite set without one of its elements is smaller by one.
LEMMA SmallerByOne ==
  ASSUME NEW S, IsFiniteSet(S), NEW s \in SUBSET S, NEW x \in s
  PROVE  /\ IsFiniteSet(s)
         /\ Cardinality(s) \in Nat
         /\ s \ {x} \in SUBSET S
         /\ Cardinality(s \ {x}) \in Nat
         /\ Cardinality(s) = Cardinality(s \ {x}) + 1
<1>1. IsFiniteSet(s)
  BY FS_Subset
<1>2. Cardinality(s) \in Nat /\ Cardinality(s \ {x}) = Cardinality(s) - 1
  BY <1>1, FS_CardinalityType, FS_RemoveElement
<1>3. IsFiniteSet(s \ {x})
  BY <1>1, FS_RemoveElement
<1> QED
  BY <1>1, <1>2, <1>3, FS_CardinalityType

\* There is a function that satisfies the recursion.
LEMMA SumDefined ==
  ASSUME NEW f, NEW S, IsFiniteSet(S)
  PROVE  Unfolded(f, S, Partial(f, S))
<1> DEFINE Upto(n, g) == g = [s \in Sized(S, n) |-> Body(f, s, g)]
           P == {n \in Nat : \E g : Upto(n, g)}
<1>1. 0 \in P
  <2> DEFINE g == [s \in Sized(S, 0) |-> 0]
  <2>1. ASSUME NEW s \in Sized(S, 0) PROVE s = {}
    <3>1. s \in SUBSET S /\ Cardinality(s) <= 0
      BY DEF Sized
    <3>2. SUFFICES ASSUME s # {} PROVE FALSE
      OBVIOUS
    <3>3. PICK x \in s : TRUE
      BY <3>2
    <3>4. /\ Cardinality(s) \in Nat
          /\ Cardinality(s \ {x}) \in Nat
          /\ Cardinality(s) = Cardinality(s \ {x}) + 1
      BY <3>1, <3>3, SmallerByOne
    <3> QED
      BY <3>1, <3>4
  <2>2. \A s \in Sized(S, 0) : Body(f, s, g) = 0
    BY <2>1 DEF Body
  <2>3. Upto(0, g)
    BY <2>2
  <2> QED
    BY <2>3
<1>2. ASSUME NEW n \in Nat, n \in P PROVE n + 1 \in P
  <2>1. PICK g : Upto(n, g)
    BY <1>2
  <2> DEFINE h == [s \in Sized(S, n + 1) |-> Body(f, s, g)]
  <2>2. ASSUME NEW s \in Sized(S, n + 1) PROVE Body(f, s, g) = Body(f, s, h)
    <3>1. CASE s = {}
      BY <3>1 DEF Body
    <3>2. CASE s # {}
      <4> DEFINE x == Some(s)
      <4>1. x \in s /\ s \in SUBSET S /\ Cardinality(s) <= n + 1
        BY <3>2, SomeIn DEF Sized
      <4>2. s \ {x} \in Sized(S, n) /\ s \ {x} \in Sized(S, n + 1)
        <5> HIDE DEF x
        <5>1. /\ Cardinality(s) \in Nat
              /\ s \ {x} \in SUBSET S
              /\ Cardinality(s \ {x}) \in Nat
              /\ Cardinality(s) = Cardinality(s \ {x}) + 1
          BY <4>1, SmallerByOne
        <5> QED
          BY <4>1, <5>1 DEF Sized
      <4>3. g[s \ {x}] = Body(f, s \ {x}, g)
        BY <2>1, <4>2
      <4>4. h[s \ {x}] = Body(f, s \ {x}, g)
        BY <4>2
      <4> QED
        BY <3>2, <4>3, <4>4 DEF Body
    <3> QED
      BY <3>1, <3>2
  <2>3. h = [s \in Sized(S, n + 1) |-> Body(f, s, h)]
    BY <2>2
  <2>4. Upto(n + 1, h)
    BY <2>3
  <2>5. \E k : Upto(n + 1, k)
    <3> HIDE DEF Upto, h
    <3> QED
      BY <2>4
  <2> HIDE DEF Upto, h
  <2> QED
    BY <2>5
<1>3. Nat \subseteq P
  <2> HIDE DEF P
  <2> QED
    BY <1>1, <1>2, NatSetInduction
<1>4. Cardinality(S) \in Nat
  BY FS_CardinalityType
<1>5. PICK g : Upto(Cardinality(S), g)
  BY <1>3, <1>4
<1>6. Sized(S, Cardinality(S)) = SUBSET S
  <2>1. ASSUME NEW s \in SUBSET S PROVE Cardinality(s) <= Cardinality(S)
    BY FS_Subset
  <2> QED
    BY <2>1 DEF Sized
<1>7. Unfolded(f, S, g)
  BY <1>5, <1>6 DEF Unfolded
<1> QED
  BY <1>7 DEF Partial

Partials(f, S) ==
  \A s \in SUBSET S : Partial(f, S)[s] = Body(f, s, Partial(f, S))

\* The chosen function satisfies the recursion.
LEMMA PartialUnfolds ==
  ASSUME NEW f, NEW S, IsFiniteSet(S)
  PROVE  Partials(f, S)
<1> DEFINE g == Partial(f, S)
<1>1. Unfolded(f, S, g)
  BY SumDefined
<1> HIDE DEF g
<1>2. \A s \in SUBSET S : g[s] = Body(f, s, g)
  BY <1>1 DEF Unfolded
<1> QED
  BY <1>2 DEF Partials, g

IntOn(f, S) == \A x \in S : f[x] \in Int

\* A sum of integers is an integer.
LEMMA PartialInt ==
  ASSUME NEW f, NEW S, IsFiniteSet(S), IntOn(f, S)
  PROVE  \A s \in SUBSET S : Partial(f, S)[s] \in Int
<1> DEFINE g == Partial(f, S)
           P == {n \in Nat : \A s \in SUBSET S : Cardinality(s) = n => g[s] \in Int}
<1>1. \A s \in SUBSET S : g[s] = Body(f, s, g)
  BY PartialUnfolds DEF Partials
<1> HIDE DEF g
<1>2. \A s \in SUBSET S : IsFiniteSet(s) /\ Cardinality(s) \in Nat
  BY FS_Subset, FS_CardinalityType
<1>3. 0 \in P
  <2>1. ASSUME NEW s \in SUBSET S, Cardinality(s) = 0 PROVE g[s] \in Int
    <3>1. s = {}
      BY <1>2, <2>1, FS_EmptySet
    <3>2. g[s] = 0
      BY <1>1, <3>1 DEF Body
    <3> QED
      BY <3>2
  <2> QED
    BY <2>1
<1>4. ASSUME NEW n \in Nat, n \in P PROVE n + 1 \in P
  <2>1. ASSUME NEW s \in SUBSET S, Cardinality(s) = n + 1 PROVE g[s] \in Int
    <3>1. s # {}
      BY <2>1, FS_EmptySet
    <3>2. PICK x \in s : x = Some(s)
      BY <3>1, SomeIn
    <3>3. /\ s \ {x} \in SUBSET S
          /\ Cardinality(s \ {x}) \in Nat
          /\ Cardinality(s) = Cardinality(s \ {x}) + 1
      BY SmallerByOne
    <3>4. g[s \ {x}] \in Int
      BY <1>4, <2>1, <3>3
    <3>5. g[s] = f[x] + g[s \ {x}]
      BY <1>1, <3>1, <3>2 DEF Body
    <3>6. f[x] \in Int
      BY DEF IntOn
    <3> QED
      BY <3>4, <3>5, <3>6
  <2> QED
    BY <2>1
<1>5. Nat \subseteq P
  <2> HIDE DEF P
  <2> QED
    BY <1>3, <1>4, NatSetInduction
<1> QED
  BY <1>2, <1>5 DEF g

\* It does not matter which element is taken off the set.
LEMMA PartialAnyElement ==
  ASSUME NEW f, NEW S, IsFiniteSet(S), IntOn(f, S)
  PROVE  \A s \in SUBSET S : \A x \in s :
           Partial(f, S)[s] = f[x] + Partial(f, S)[s \ {x}]
<1> DEFINE g == Partial(f, S)
           P == {n \in Nat : \A s \in SUBSET S : Cardinality(s) = n =>
                                \A x \in s : g[s] = f[x] + g[s \ {x}]}
<1>1. \A s \in SUBSET S : g[s] = Body(f, s, g)
  BY PartialUnfolds DEF Partials
<1>2. \A s \in SUBSET S : g[s] \in Int
  BY PartialInt
<1> HIDE DEF g
<1>3. \A s \in SUBSET S : IsFiniteSet(s) /\ Cardinality(s) \in Nat
  BY FS_Subset, FS_CardinalityType
<1>4. 0 \in P
  <2>1. ASSUME NEW s \in SUBSET S, Cardinality(s) = 0 PROVE s = {}
    BY <1>3, <2>1, FS_EmptySet
  <2> QED
    BY <2>1
<1>5. ASSUME NEW n \in Nat, n \in P PROVE n + 1 \in P
  <2>1. ASSUME NEW s \in SUBSET S, Cardinality(s) = n + 1, NEW x \in s
        PROVE  g[s] = f[x] + g[s \ {x}]
    <3>1. PICK y \in s : y = Some(s)
      BY SomeIn
    <3>2. g[s] = f[y] + g[s \ {y}]
      BY <1>1, <3>1 DEF Body
    <3>3. CASE x = y
      BY <3>2, <3>3
    <3>4. CASE x # y
      <4>1. /\ s \ {x} \in SUBSET S
            /\ Cardinality(s \ {x}) \in Nat
            /\ Cardinality(s) = Cardinality(s \ {x}) + 1
        BY SmallerByOne
      <4>2. /\ s \ {y} \in SUBSET S
            /\ Cardinality(s \ {y}) \in Nat
            /\ Cardinality(s) = Cardinality(s \ {y}) + 1
        BY SmallerByOne
      <4>3. Cardinality(s \ {x}) = n /\ Cardinality(s \ {y}) = n
        BY <2>1, <4>1, <4>2
      <4>4. y \in s \ {x} /\ x \in s \ {y}
        BY <3>4
      <4>5. g[s \ {x}] = f[y] + g[(s \ {x}) \ {y}]
        BY <1>5, <4>1, <4>3, <4>4
      <4>6. g[s \ {y}] = f[x] + g[(s \ {y}) \ {x}]
        BY <1>5, <4>2, <4>3, <4>4
      <4>7. (s \ {y}) \ {x} = (s \ {x}) \ {y} /\ (s \ {x}) \ {y} \in SUBSET S
        OBVIOUS
      <4>8. f[x] \in Int /\ f[y] \in Int /\ g[(s \ {x}) \ {y}] \in Int
        BY <1>2, <4>7 DEF IntOn
      <4>9. g[s \ {y}] = f[x] + g[(s \ {x}) \ {y}]
        BY <4>6, <4>7
      <4> QED
        BY <3>2, <4>5, <4>8, <4>9
    <3> QED
      BY <3>3, <3>4
  <2> QED
    BY <2>1
<1>6. Nat \subseteq P
  <2> HIDE DEF P
  <2> QED
    BY <1>4, <1>5, NatSetInduction
<1> QED
  BY <1>3, <1>6 DEF g

\* A sum looks at the function only on its own set.
LEMMA PartialSame ==
  ASSUME NEW f, NEW S, IsFiniteSet(S), NEW h, NEW T \in SUBSET S,
         \A x \in T : h[x] = f[x]
  PROVE  \A s \in SUBSET T : Partial(f, S)[s] = Partial(h, T)[s]
<1> DEFINE g == Partial(f, S)
           k == Partial(h, T)
           P == {n \in Nat : \A s \in SUBSET T : Cardinality(s) = n => g[s] = k[s]}
<1>1. \A s \in SUBSET S : g[s] = Body(f, s, g)
  BY PartialUnfolds DEF Partials
<1>2. IsFiniteSet(T)
  BY FS_Subset
<1>3. \A s \in SUBSET T : k[s] = Body(h, s, k)
  BY <1>2, PartialUnfolds DEF Partials
<1> HIDE DEF g, k
<1>4. \A s \in SUBSET T : IsFiniteSet(s) /\ Cardinality(s) \in Nat
  BY <1>2, FS_Subset, FS_CardinalityType
<1>5. 0 \in P
  <2>1. ASSUME NEW s \in SUBSET T, Cardinality(s) = 0 PROVE g[s] = k[s]
    <3>1. s = {}
      BY <1>4, <2>1, FS_EmptySet
    <3> QED
      BY <1>1, <1>3, <3>1 DEF Body
  <2> QED
    BY <2>1
<1>6. ASSUME NEW n \in Nat, n \in P PROVE n + 1 \in P
  <2>1. ASSUME NEW s \in SUBSET T, Cardinality(s) = n + 1 PROVE g[s] = k[s]
    <3>1. s # {}
      BY <2>1, FS_EmptySet
    <3>2. PICK x \in s : x = Some(s)
      BY <3>1, SomeIn
    <3>3. /\ s \ {x} \in SUBSET T
          /\ Cardinality(s \ {x}) \in Nat
          /\ Cardinality(s) = Cardinality(s \ {x}) + 1
      BY <1>2, SmallerByOne
    <3>4. g[s \ {x}] = k[s \ {x}]
      BY <1>6, <2>1, <3>3
    <3>5. g[s] = f[x] + g[s \ {x}]
      BY <1>1, <3>1, <3>2 DEF Body
    <3>6. k[s] = h[x] + k[s \ {x}]
      BY <1>3, <3>1, <3>2 DEF Body
    <3>7. h[x] = f[x]
      OBVIOUS
    <3> QED
      BY <3>4, <3>5, <3>6, <3>7
  <2> QED
    BY <2>1
<1>7. Nat \subseteq P
  <2> HIDE DEF P
  <2> QED
    BY <1>5, <1>6, NatSetInduction
<1> QED
  BY <1>4, <1>7 DEF g, k

----------------------------------------------------------------------------
\* The sum over nothing is zero.
LEMMA SumEmpty ==
  ASSUME NEW f
  PROVE  SumFunctionOnSet(f, {}) = 0
<1>1. IsFiniteSet({})
  BY FS_EmptySet
<1>2. Partial(f, {})[{}] = Body(f, {}, Partial(f, {}))
  BY <1>1, PartialUnfolds DEF Partials
<1> QED
  BY <1>2, SumIsChosen DEF Body

\* The sum over a finite set of integers is an integer.
LEMMA SumInt ==
  ASSUME NEW f, NEW S, IsFiniteSet(S), IntOn(f, S)
  PROVE  SumFunctionOnSet(f, S) \in Int
<1>1. S \in SUBSET S
  OBVIOUS
<1> QED
  BY <1>1, PartialInt, SumIsChosen

\* Functions that agree on a set have the same sum over it.
LEMMA SumSame ==
  ASSUME NEW f, NEW h, NEW S, IsFiniteSet(S), \A x \in S : h[x] = f[x]
  PROVE  SumFunctionOnSet(h, S) = SumFunctionOnSet(f, S)
<1>1. S \in SUBSET S
  OBVIOUS
<1>2. Partial(f, S)[S] = Partial(h, S)[S]
  BY <1>1, PartialSame
<1> QED
  BY <1>2, SumIsChosen

\* A sum is any of its terms and the sum of the others.
LEMMA SumOfElement ==
  ASSUME NEW f, NEW S, IsFiniteSet(S), IntOn(f, S), NEW x \in S
  PROVE  SumFunctionOnSet(f, S) = f[x] + SumFunctionOnSet(f, S \ {x})
<1>1. Partial(f, S)[S] = f[x] + Partial(f, S)[S \ {x}]
  <2>1. S \in SUBSET S
    OBVIOUS
  <2> QED
    BY <2>1, PartialAnyElement
<1>2. Partial(f, S)[S \ {x}] = Partial(f, S \ {x})[S \ {x}]
  <2>1. S \ {x} \in SUBSET S /\ S \ {x} \in SUBSET (S \ {x})
    OBVIOUS
  <2> QED
    BY <2>1, PartialSame
<1> QED
  BY <1>1, <1>2, SumIsChosen

\* A set of subsets of S that has the empty one, and every one whose
\* element can be taken off, has S itself.
LEMMA FiniteSetInduction ==
  ASSUME NEW S, IsFiniteSet(S), NEW P, {} \in P,
         \A T \in SUBSET S : \A x \in T : T \ {x} \in P => T \in P
  PROVE  S \in P
<1> DEFINE Q == {n \in Nat : \A T \in SUBSET S : Cardinality(T) = n => T \in P}
<1>1. \A T \in SUBSET S : IsFiniteSet(T) /\ Cardinality(T) \in Nat
  BY FS_Subset, FS_CardinalityType
<1>2. 0 \in Q
  <2>1. ASSUME NEW T \in SUBSET S, Cardinality(T) = 0 PROVE T \in P
    BY <1>1, <2>1, FS_EmptySet
  <2> QED
    BY <2>1
<1>3. ASSUME NEW n \in Nat, n \in Q PROVE n + 1 \in Q
  <2>1. ASSUME NEW T \in SUBSET S, Cardinality(T) = n + 1 PROVE T \in P
    <3>1. T # {}
      BY <2>1, FS_EmptySet
    <3>2. PICK x \in T : TRUE
      BY <3>1
    <3>3. /\ T \ {x} \in SUBSET S
          /\ Cardinality(T \ {x}) \in Nat
          /\ Cardinality(T) = Cardinality(T \ {x}) + 1
      BY SmallerByOne
    <3>4. T \ {x} \in P
      BY <1>3, <2>1, <3>3
    <3> QED
      BY <3>4
  <2> QED
    BY <2>1
<1>4. Nat \subseteq Q
  <2> HIDE DEF Q
  <2> QED
    BY <1>2, <1>3, NatSetInduction
<1>5. S \in SUBSET S
  OBVIOUS
<1> QED
  BY <1>1, <1>4, <1>5

\* A sum grows with its terms.
LEMMA SumLeq ==
  ASSUME NEW f, NEW h, NEW S, IsFiniteSet(S), IntOn(f, S), IntOn(h, S),
         \A x \in S : f[x] <= h[x]
  PROVE  SumFunctionOnSet(f, S) <= SumFunctionOnSet(h, S)
<1> DEFINE P == {T \in SUBSET S : SumFunctionOnSet(f, T) <= SumFunctionOnSet(h, T)}
<1>1. {} \in P
  BY SumEmpty
<1>2. ASSUME NEW T \in SUBSET S, NEW x \in T, T \ {x} \in P PROVE T \in P
  <2>1. /\ IsFiniteSet(T) /\ IntOn(f, T) /\ IntOn(h, T)
        /\ IsFiniteSet(T \ {x}) /\ IntOn(f, T \ {x}) /\ IntOn(h, T \ {x})
    BY FS_Subset DEF IntOn
  <2>2. SumFunctionOnSet(f, T) = f[x] + SumFunctionOnSet(f, T \ {x})
    BY <2>1, SumOfElement
  <2>3. SumFunctionOnSet(h, T) = h[x] + SumFunctionOnSet(h, T \ {x})
    BY <2>1, SumOfElement
  <2>4. SumFunctionOnSet(f, T \ {x}) \in Int /\ SumFunctionOnSet(h, T \ {x}) \in Int
    BY <2>1, SumInt
  <2>5. f[x] \in Int /\ h[x] \in Int /\ f[x] <= h[x]
    BY DEF IntOn
  <2>6. SumFunctionOnSet(f, T \ {x}) <= SumFunctionOnSet(h, T \ {x})
    BY <1>2
  <2> QED
    BY <2>2, <2>3, <2>4, <2>5, <2>6
<1>3. S \in P
  <2> HIDE DEF P
  <2> QED
    BY <1>1, <1>2, FiniteSetInduction
<1> QED
  BY <1>3

\* A sum of terms that are not negative is not negative.
LEMMA SumNonNegative ==
  ASSUME NEW f, NEW S, IsFiniteSet(S), IntOn(f, S), \A x \in S : f[x] >= 0
  PROVE  SumFunctionOnSet(f, S) >= 0
<1> DEFINE P == {T \in SUBSET S : SumFunctionOnSet(f, T) >= 0}
<1>1. {} \in P
  BY SumEmpty
<1>2. ASSUME NEW T \in SUBSET S, NEW x \in T, T \ {x} \in P PROVE T \in P
  <2>1. /\ IsFiniteSet(T) /\ IntOn(f, T)
        /\ IsFiniteSet(T \ {x}) /\ IntOn(f, T \ {x})
    BY FS_Subset DEF IntOn
  <2>2. SumFunctionOnSet(f, T) = f[x] + SumFunctionOnSet(f, T \ {x})
    BY <2>1, SumOfElement
  <2>3. SumFunctionOnSet(f, T \ {x}) \in Int
    BY <2>1, SumInt
  <2>4. f[x] \in Int /\ f[x] >= 0
    BY DEF IntOn
  <2>5. SumFunctionOnSet(f, T \ {x}) >= 0
    BY <1>2
  <2> QED
    BY <2>2, <2>3, <2>4, <2>5
<1>3. S \in P
  <2> HIDE DEF P
  <2> QED
    BY <1>1, <1>2, FiniteSetInduction
<1> QED
  BY <1>3

\* A sum of zeros is zero.
LEMMA SumZero ==
  ASSUME NEW f, NEW S, IsFiniteSet(S), \A x \in S : f[x] = 0
  PROVE  SumFunctionOnSet(f, S) = 0
<1> DEFINE P == {T \in SUBSET S : SumFunctionOnSet(f, T) = 0}
<1>1. {} \in P
  BY SumEmpty
<1>2. ASSUME NEW T \in SUBSET S, NEW x \in T, T \ {x} \in P PROVE T \in P
  <2>1. IsFiniteSet(T) /\ IntOn(f, T)
    BY FS_Subset DEF IntOn
  <2>2. SumFunctionOnSet(f, T) = f[x] + SumFunctionOnSet(f, T \ {x})
    BY <2>1, SumOfElement
  <2>3. SumFunctionOnSet(f, T \ {x}) = 0 /\ f[x] = 0
    BY <1>2
  <2> QED
    BY <2>2, <2>3
<1>3. S \in P
  <2> HIDE DEF P
  <2> QED
    BY <1>1, <1>2, FiniteSetInduction
<1> QED
  BY <1>3

-----------------------------------------------------------------------------
(* Sums of functions.                                                      *)

Summable(f) == IsFiniteSet(DOMAIN f) /\ \A x \in DOMAIN f : f[x] \in Int

\* A function without arguments adds up to zero.
LEMMA SumFunctionEmpty ==
  ASSUME NEW f, DOMAIN f = {}
  PROVE  SumFunction(f) = 0
BY SumEmpty DEF SumFunction

\* The sum of finitely many integers is an integer.
LEMMA SumFunctionInt ==
  ASSUME NEW f, Summable(f)
  PROVE  SumFunction(f) \in Int
BY SumInt DEF SumFunction, Summable, IntOn

\* The sum of values that are not negative is not negative.
LEMMA SumFunctionNonNegative ==
  ASSUME NEW f, Summable(f), \A x \in DOMAIN f : f[x] >= 0
  PROVE  SumFunction(f) >= 0
BY SumNonNegative DEF SumFunction, Summable, IntOn

\* Values of zero add up to zero.
LEMMA SumFunctionZero ==
  ASSUME NEW f, IsFiniteSet(DOMAIN f), \A x \in DOMAIN f : f[x] = 0
  PROVE  SumFunction(f) = 0
BY SumZero DEF SumFunction

\* The sum grows with the values.
LEMMA SumFunctionLeq ==
  ASSUME NEW f, NEW h, Summable(f), Summable(h), DOMAIN h = DOMAIN f,
         \A x \in DOMAIN f : f[x] <= h[x]
  PROVE  SumFunction(f) <= SumFunction(h)
BY SumLeq DEF SumFunction, Summable, IntOn

\* Equal values have equal sums.
LEMMA SumFunctionSame ==
  ASSUME NEW f, NEW h, IsFiniteSet(DOMAIN f), DOMAIN h = DOMAIN f,
         \A x \in DOMAIN f : h[x] = f[x]
  PROVE  SumFunction(h) = SumFunction(f)
BY SumSame DEF SumFunction

\* A value at a new argument is added to the sum.
LEMMA SumFunctionExtended ==
  ASSUME NEW f, NEW h, NEW x, Summable(f), x \notin DOMAIN f, h[x] \in Int,
         DOMAIN h = DOMAIN f \cup {x}, \A y \in DOMAIN f : h[y] = f[y]
  PROVE  Summable(h) /\ SumFunction(h) = SumFunction(f) + h[x]
<1>1. Summable(h)
  <2>1. IsFiniteSet(DOMAIN h)
    BY FS_AddElement DEF Summable
  <2> QED
    BY <2>1 DEF Summable
<1>2. SumFunctionOnSet(h, DOMAIN h) = h[x] + SumFunctionOnSet(h, (DOMAIN h) \ {x})
  <2>1. IsFiniteSet(DOMAIN h) /\ IntOn(h, DOMAIN h) /\ x \in DOMAIN h
    BY <1>1 DEF Summable, IntOn
  <2> QED
    BY <2>1, SumOfElement
<1>3. (DOMAIN h) \ {x} = DOMAIN f
  OBVIOUS
<1>4. SumFunctionOnSet(h, DOMAIN f) = SumFunctionOnSet(f, DOMAIN f)
  BY SumSame DEF Summable
<1>5. SumFunctionOnSet(f, DOMAIN f) \in Int
  BY SumInt DEF Summable, IntOn
<1>6. SumFunctionOnSet(h, DOMAIN h) = h[x] + SumFunctionOnSet(f, DOMAIN f)
  BY <1>2, <1>3, <1>4
<1> QED
  BY <1>1, <1>5, <1>6 DEF SumFunction

\* A value that is replaced is taken off, and the new one added.
LEMMA SumFunctionChanged ==
  ASSUME NEW f, NEW h, NEW x \in DOMAIN f, Summable(f), h[x] \in Int,
         DOMAIN h = DOMAIN f, \A y \in DOMAIN f : y # x => h[y] = f[y]
  PROVE  Summable(h) /\ SumFunction(h) = SumFunction(f) - f[x] + h[x]
<1>1. Summable(h)
  <2>1. \A y \in DOMAIN h : h[y] \in Int
    BY DEF Summable
  <2> QED
    BY <2>1 DEF Summable
<1> DEFINE R == (DOMAIN f) \ {x}
<1>2. IsFiniteSet(R) /\ IntOn(f, R) /\ \A y \in R : h[y] = f[y]
  BY FS_Subset DEF Summable, IntOn
<1>3. SumFunctionOnSet(h, DOMAIN h) = h[x] + SumFunctionOnSet(h, R)
  <2>1. IsFiniteSet(DOMAIN h) /\ IntOn(h, DOMAIN h) /\ x \in DOMAIN h
    BY <1>1 DEF Summable, IntOn
  <2> QED
    BY <2>1, SumOfElement
<1>4. SumFunctionOnSet(f, DOMAIN f) = f[x] + SumFunctionOnSet(f, R)
  <2>1. IsFiniteSet(DOMAIN f) /\ IntOn(f, DOMAIN f)
    BY DEF Summable, IntOn
  <2> QED
    BY <2>1, SumOfElement
<1>5. SumFunctionOnSet(h, R) = SumFunctionOnSet(f, R) /\ SumFunctionOnSet(f, R) \in Int
  <2> HIDE DEF R
  <2> QED
    BY <1>2, SumSame, SumInt
<1>6. f[x] \in Int
  BY DEF Summable
<1> HIDE DEF R
<1> QED
  BY <1>1, <1>3, <1>4, <1>5, <1>6 DEF SumFunction

-----------------------------------------------------------------------------
(* Sums over sequences: the weight w of each element of q.                  *)

Summed(w, q) == SumFunction([n \in DOMAIN q |-> w[q[n]]])

\* The indices of a sequence are finitely many.
LEMMA SeqIndices ==
  ASSUME NEW D, NEW q \in Seq(D)
  PROVE  /\ Len(q) \in Nat /\ DOMAIN q = 1..Len(q) /\ IsFiniteSet(DOMAIN q)
         /\ \A n \in DOMAIN q : q[n] \in D
<1>1. Len(q) \in Nat /\ DOMAIN q = 1..Len(q) /\ \A n \in DOMAIN q : q[n] \in D
  OBVIOUS
<1>2. IsFiniteSet(1..Len(q))
  BY <1>1, FS_Interval
<1> QED
  BY <1>1, <1>2

\* The weights of a sequence can be added up.
LEMMA SummedSummable ==
  ASSUME NEW D, NEW w \in [D -> Int], NEW q \in Seq(D)
  PROVE  Summable([n \in DOMAIN q |-> w[q[n]]])
BY SeqIndices DEF Summable

\* Their sum is an integer.
LEMMA SummedInt ==
  ASSUME NEW D, NEW w \in [D -> Int], NEW q \in Seq(D)
  PROVE  Summed(w, q) \in Int
BY SummedSummable, SumFunctionInt DEF Summed

\* The empty sequence weighs nothing.
LEMMA SummedEmpty ==
  ASSUME NEW w
  PROVE  Summed(w, << >>) = 0
BY SumFunctionEmpty DEF Summed

\* A sequence weighs more under greater weights.
LEMMA SummedLeq ==
  ASSUME NEW D, NEW w \in [D -> Int], NEW v \in [D -> Int], NEW q \in Seq(D),
         \A n \in DOMAIN q : w[q[n]] <= v[q[n]]
  PROVE  Summed(w, q) <= Summed(v, q)
<1> DEFINE f == [n \in DOMAIN q |-> w[q[n]]]
           h == [n \in DOMAIN q |-> v[q[n]]]
<1>1. Summable(f) /\ Summable(h)
  BY SummedSummable
<1>2. DOMAIN h = DOMAIN f /\ \A n \in DOMAIN f : f[n] <= h[n]
  OBVIOUS
<1>3. SumFunction(f) <= SumFunction(h)
  <2> HIDE DEF f, h
  <2> QED
    BY <1>1, <1>2, SumFunctionLeq
<1> QED
  BY <1>3 DEF Summed

\* Weights that are not negative have no negative sum.
LEMMA SummedNonNegative ==
  ASSUME NEW D, NEW w \in [D -> Int], NEW q \in Seq(D),
         \A n \in DOMAIN q : w[q[n]] >= 0
  PROVE  Summed(w, q) >= 0
<1> DEFINE f == [n \in DOMAIN q |-> w[q[n]]]
<1>1. Summable(f)
  BY SummedSummable
<1>2. \A n \in DOMAIN f : f[n] >= 0
  OBVIOUS
<1>3. SumFunction(f) >= 0
  <2> HIDE DEF f
  <2> QED
    BY <1>1, <1>2, SumFunctionNonNegative
<1> QED
  BY <1>3 DEF Summed

\* An element that is appended adds its weight.
LEMMA SummedAppend ==
  ASSUME NEW D, NEW w \in [D -> Int], NEW q \in Seq(D), NEW e \in D
  PROVE  Summed(w, Append(q, e)) = Summed(w, q) + w[e]
<1> DEFINE r == Append(q, e)
           f == [n \in DOMAIN q |-> w[q[n]]]
           h == [n \in DOMAIN r |-> w[r[n]]]
           x == Len(q) + 1
<1>1. Summable(f)
  BY SummedSummable
<1>2. Len(q) \in Nat /\ DOMAIN q = 1..Len(q)
  OBVIOUS
<1>3. DOMAIN r = 1..x /\ r[x] = e /\ \A n \in DOMAIN q : r[n] = q[n]
  OBVIOUS
<1>4. DOMAIN r = DOMAIN q \cup {x} /\ x \notin DOMAIN q
  BY <1>2, <1>3
<1>5. h[x] = w[e] /\ w[e] \in Int /\ \A n \in DOMAIN q : h[n] = f[n]
  BY <1>3, <1>4
<1>6. DOMAIN f = DOMAIN q /\ DOMAIN h = DOMAIN r
  OBVIOUS
<1>7. SumFunction(h) = SumFunction(f) + h[x]
  <2> HIDE DEF f, h, x, r
  <2>1. x \notin DOMAIN f /\ h[x] \in Int /\ DOMAIN h = DOMAIN f \cup {x}
        /\ \A y \in DOMAIN f : h[y] = f[y]
    BY <1>4, <1>5, <1>6
  <2> QED
    BY <1>1, <2>1, SumFunctionExtended
<1> QED
  BY <1>5, <1>7 DEF Summed

\* An element that is replaced is taken off, and the new one added.
LEMMA SummedReplaced ==
  ASSUME NEW D, NEW w \in [D -> Int], NEW q \in Seq(D), NEW r \in Seq(D), Len(r) = Len(q),
         NEW m \in 1..Len(q), \A n \in 1..Len(q) : n # m => r[n] = q[n]
  PROVE  Summed(w, r) = Summed(w, q) - w[q[m]] + w[r[m]]
<1> DEFINE f == [n \in DOMAIN q |-> w[q[n]]]
           h == [n \in DOMAIN r |-> w[r[n]]]
<1>1. Summable(f)
  BY SummedSummable
<1>2. DOMAIN q = 1..Len(q) /\ DOMAIN r = 1..Len(q) /\ r[m] \in D
  OBVIOUS
<1>3. h[m] = w[r[m]] /\ w[r[m]] \in Int /\ f[m] = w[q[m]]
      /\ \A n \in DOMAIN q : n # m => h[n] = f[n]
  BY <1>2
<1>4. DOMAIN f = DOMAIN q /\ DOMAIN h = DOMAIN q /\ m \in DOMAIN q
  BY <1>2
<1>5. SumFunction(h) = SumFunction(f) - f[m] + h[m]
  <2> HIDE DEF f, h
  <2>1. m \in DOMAIN f /\ h[m] \in Int /\ DOMAIN h = DOMAIN f
        /\ \A y \in DOMAIN f : y # m => h[y] = f[y]
    BY <1>3, <1>4
  <2> QED
    BY <1>1, <2>1, SumFunctionChanged
<1> QED
  BY <1>3, <1>5 DEF Summed

\* Elements without weight weigh nothing together.
LEMMA SummedZero ==
  ASSUME NEW D, NEW w \in [D -> Int], NEW q \in Seq(D), \A n \in DOMAIN q : w[q[n]] = 0
  PROVE  Summed(w, q) = 0
<1> DEFINE f == [n \in DOMAIN q |-> w[q[n]]]
<1>1. IsFiniteSet(DOMAIN f) /\ \A n \in DOMAIN f : f[n] = 0
  BY SeqIndices
<1>2. SumFunction(f) = 0
  <2> HIDE DEF f
  <2> QED
    BY <1>1, SumFunctionZero
<1> QED
  BY <1>2 DEF Summed

\* q is a front and a last element, and what is left of q without its first
\* element is what is left of the front, and the last element.
Ends(D, q, front, last) ==
  /\ Len(front) = Len(q) - 1
  /\ q = Append(front, last)
  /\ front[1] = q[1] /\ Tail(front) \in Seq(D)
  /\ Tail(q) = Append(Tail(front), last)

\* A sequence of several elements has such ends.
LEMMA FrontAndTail ==
  ASSUME NEW D, NEW q \in Seq(D), Len(q) > 1
  PROVE  \E front \in Seq(D), last \in D : Ends(D, q, front, last)
<1> DEFINE front == SubSeq(q, 1, Len(q) - 1)
           last  == q[Len(q)]
<1>1. Len(q) \in Nat /\ last \in D
  OBVIOUS
<1>2. /\ front \in Seq(D) /\ Len(front) = Len(q) - 1
      /\ \A n \in 1..(Len(q) - 1) : front[n] = q[n]
  BY <1>1
<1> HIDE DEF front
<1>3. q = Append(front, last)
  BY <1>1, <1>2
<1>4. front[1] = q[1] /\ Tail(front) \in Seq(D)
  BY <1>1, <1>2
<1>5. Tail(q) = Append(Tail(front), last)
  <2>1. Len(Tail(q)) = Len(q) - 1 /\ \A n \in 1..(Len(q) - 1) : Tail(q)[n] = q[n + 1]
    BY <1>1
  <2>2. /\ Len(Tail(front)) = Len(q) - 2
        /\ \A n \in 1..(Len(q) - 2) : Tail(front)[n] = front[n + 1]
    BY <1>1, <1>2
  <2>3. Tail(q) \in Seq(D) /\ Append(Tail(front), last) \in Seq(D)
    BY <1>1, <1>4
  <2>4. Len(Append(Tail(front), last)) = Len(q) - 1
    BY <1>1, <1>4, <2>2
  <2>5. \A n \in 1..(Len(q) - 1) : Append(Tail(front), last)[n] = q[n + 1]
    BY <1>1, <1>2, <1>4, <2>2
  <2> QED
    BY <2>1, <2>3, <2>4, <2>5
<1> HIDE DEF last
<1>6. Ends(D, q, front, last)
  BY <1>2, <1>3, <1>4, <1>5 DEF Ends
<1> QED
  BY <1>1, <1>2, <1>6, Zenon

\* A sequence of one element is that element appended to nothing.
LEMMA SingleAndTail ==
  ASSUME NEW D, NEW q \in Seq(D), Len(q) = 1
  PROVE  /\ q = Append(<< >>, q[1]) /\ q[1] \in D
         /\ << >> \in Seq(D) /\ Tail(q) = << >>
<1>1. q[1] \in D /\ << >> \in Seq(D)
  OBVIOUS
<1>2. Append(<< >>, q[1]) \in Seq(D) /\ Len(Append(<< >>, q[1])) = 1
      /\ Append(<< >>, q[1])[1] = q[1]
  BY <1>1
<1>3. q = Append(<< >>, q[1])
  BY <1>2
<1>4. Tail(q) \in Seq(D) /\ Len(Tail(q)) = 0
  OBVIOUS
<1>5. \A t \in Seq(D) : Len(t) = 0 => t = << >>
  OBVIOUS
<1> QED
  BY <1>1, <1>3, <1>4, <1>5

\* An element that is taken off the front takes its weight with it.
LEMMA SummedTail ==
  ASSUME NEW D, NEW w \in [D -> Int], NEW q \in Seq(D), q # << >>
  PROVE  /\ Tail(q) \in Seq(D) /\ Head(q) \in D
         /\ Summed(w, q) = w[Head(q)] + Summed(w, Tail(q))
<1> DEFINE P == {m \in Nat : \A r \in Seq(D) : Len(r) = m + 1 =>
                   Summed(w, r) = w[r[1]] + Summed(w, Tail(r))}
<1>1. 0 \in P
  <2> SUFFICES ASSUME NEW r \in Seq(D), Len(r) = 1
               PROVE  Summed(w, r) = w[r[1]] + Summed(w, Tail(r))
    OBVIOUS
  <2>1. r = Append(<< >>, r[1]) /\ r[1] \in D /\ << >> \in Seq(D) /\ Tail(r) = << >>
    BY SingleAndTail
  <2>2. Summed(w, Append(<< >>, r[1])) = Summed(w, << >>) + w[r[1]]
    BY <2>1, SummedAppend
  <2>3. Summed(w, << >>) = 0 /\ w[r[1]] \in Int
    BY <2>1, SummedEmpty
  <2>4. Summed(w, r) = 0 + w[r[1]] /\ Summed(w, Tail(r)) = 0
    BY <2>1, <2>2, <2>3, Zenon
  <2> QED
    BY <2>3, <2>4
<1>2. ASSUME NEW m \in Nat, m \in P PROVE m + 1 \in P
  <2> SUFFICES ASSUME NEW r \in Seq(D), Len(r) = (m + 1) + 1
               PROVE  Summed(w, r) = w[r[1]] + Summed(w, Tail(r))
    OBVIOUS
  <2>1. Len(r) > 1
    OBVIOUS
  <2>2. PICK front \in Seq(D), last \in D : Ends(D, r, front, last)
    BY <2>1, FrontAndTail, Zenon
  <2>3. /\ Len(front) = m + 1 /\ r = Append(front, last) /\ front[1] = r[1]
        /\ Tail(front) \in Seq(D) /\ Tail(r) = Append(Tail(front), last)
    BY <2>2 DEF Ends
  <2>4. Summed(w, front) = w[r[1]] + Summed(w, Tail(front))
    BY <1>2, <2>3
  <2>5. Summed(w, r) = Summed(w, front) + w[last]
    BY <2>3, SummedAppend
  <2>6. Summed(w, Tail(r)) = Summed(w, Tail(front)) + w[last]
    BY <2>3, SummedAppend
  <2>7. Summed(w, Tail(front)) \in Int /\ w[last] \in Int /\ w[r[1]] \in Int
    <3>1. r[1] \in D
      OBVIOUS
    <3> QED
      BY <2>3, <3>1, SummedInt
  <2> QED
    BY <2>4, <2>5, <2>6, <2>7
<1>3. Nat \subseteq P
  <2> HIDE DEF P
  <2> QED
    BY <1>1, <1>2, NatSetInduction
<1>4. Len(q) - 1 \in Nat /\ (Len(q) - 1) + 1 = Len(q)
  OBVIOUS
<1>5. Tail(q) \in Seq(D) /\ Head(q) \in D /\ Head(q) = q[1]
  OBVIOUS
<1>6. Summed(w, q) = w[q[1]] + Summed(w, Tail(q))
  BY <1>3, <1>4
<1> QED
  BY <1>5, <1>6

-----------------------------------------------------------------------------
(* Recursion over the natural numbers.                                     *)

\* What a recursive function from zero to N is to satisfy, its step given as a
\* table.
Recurs(g, N, base, step) ==
  g = [n \in 0..N |-> IF n = 0 THEN base ELSE step[<<n, g[n - 1]>>]]

\* There is such a function when the table covers the values it reaches.
LEMMA RecursionDefined ==
  ASSUME NEW V, NEW base \in V, NEW N \in Nat, NEW step,
         \A n \in 1..N : \A v \in V : step[<<n, v>>] \in V
  PROVE  \E g \in [0..N -> V] : Recurs(g, N, base, step)
<1> DEFINE Good(k) == \E g \in [0..k -> V] : Recurs(g, k, base, step)
           P == {k \in Nat : k <= N => Good(k)}
<1>1. 0 \in P
  <2> DEFINE g == [n \in 0..0 |-> base]
  <2>1. g \in [0..0 -> V] /\ Recurs(g, 0, base, step)  BY DEF Recurs
  <2>2. Good(0)  BY <2>1
  <2> HIDE DEF Good
  <2> QED BY <2>2
<1>2. ASSUME NEW k \in Nat, k \in P PROVE k + 1 \in P
  <2> SUFFICES ASSUME k + 1 <= N PROVE Good(k + 1)  OBVIOUS
  <2>1. PICK g \in [0..k -> V] : Recurs(g, k, base, step)  BY <1>2
  <2> DEFINE h == [n \in 0..(k + 1) |-> IF n = k + 1 THEN step[<<k + 1, g[k]>>] ELSE g[n]]
  <2>2. g[k] \in V /\ k + 1 \in 1..N  OBVIOUS
  <2>3. step[<<k + 1, g[k]>>] \in V  BY <2>2
  <2>4. h \in [0..(k + 1) -> V]  BY <2>3
  <2>5. ASSUME NEW n \in 0..(k + 1)
        PROVE  h[n] = IF n = 0 THEN base ELSE step[<<n, h[n - 1]>>]
    <3>1. CASE n = k + 1
      <4>1. h[n - 1] = g[k] /\ n # 0  BY <3>1
      <4> QED BY <3>1, <4>1
    <3>2. CASE n # k + 1
      <4>1. n \in 0..k /\ h[n] = g[n] /\ (n # 0 => h[n - 1] = g[n - 1])  BY <3>2
      <4>2. g[n] = IF n = 0 THEN base ELSE step[<<n, g[n - 1]>>]  BY <2>1, <4>1 DEF Recurs
      <4> QED BY <4>1, <4>2
    <3> QED BY <3>1, <3>2
  <2>6. Recurs(h, k + 1, base, step)  BY <2>5 DEF Recurs
  <2> QED BY <2>4, <2>6
<1> HIDE DEF P
<1>3. Nat \subseteq P  BY <1>1, <1>2, NatSetInduction
<1>4. N \in P  BY <1>3
<1> QED BY <1>4 DEF P

-----------------------------------------------------------------------------
(* Flattened sequences.                                                    *)

\* The elements of a concatenation are those of its parts.
LEMMA ConcatMembers ==
  ASSUME NEW S, NEW a \in Seq(S), NEW b \in Seq(S)
  PROVE  a \o b \in Seq(S) /\ ToSet(a \o b) = ToSet(a) \cup ToSet(b)
<1>1. a \o b \in Seq(S) /\ Len(a \o b) = Len(a) + Len(b)
  OBVIOUS
<1>2. /\ DOMAIN a = 1..Len(a) /\ DOMAIN b = 1..Len(b)
      /\ DOMAIN (a \o b) = 1..(Len(a) + Len(b))
      /\ Len(a) \in Nat /\ Len(b) \in Nat
  BY <1>1
<1>3. \A n \in DOMAIN (a \o b) : (a \o b)[n] \in ToSet(a) \cup ToSet(b)
  <2> SUFFICES ASSUME NEW n \in DOMAIN (a \o b)
               PROVE  (a \o b)[n] \in ToSet(a) \cup ToSet(b)
    OBVIOUS
  <2>1. CASE n <= Len(a)
    <3>1. n \in DOMAIN a /\ (a \o b)[n] = a[n]
      BY <1>2, <2>1
    <3> QED
      BY <3>1 DEF ToSet
  <2>2. CASE n > Len(a)
    <3>1. n - Len(a) \in DOMAIN b /\ (a \o b)[n] = b[n - Len(a)]
      BY <1>2, <2>2
    <3> QED
      BY <3>1 DEF ToSet
  <2> QED
    BY <1>2, <2>1, <2>2
<1>4. \A n \in DOMAIN a : a[n] \in ToSet(a \o b)
  <2>1. \A n \in DOMAIN a : n \in DOMAIN (a \o b) /\ (a \o b)[n] = a[n]
    BY <1>2
  <2> QED
    BY <2>1 DEF ToSet
<1>5. \A n \in DOMAIN b : b[n] \in ToSet(a \o b)
  <2>1. \A n \in DOMAIN b : Len(a) + n \in DOMAIN (a \o b)
                            /\ (a \o b)[Len(a) + n] = b[n]
    BY <1>2
  <2> QED
    BY <2>1 DEF ToSet
<1>6. ToSet(a) \cup ToSet(b) \subseteq ToSet(a \o b)
  BY <1>4, <1>5 DEF ToSet
<1>7. ToSet(a \o b) \subseteq ToSet(a) \cup ToSet(b)
  BY <1>3 DEF ToSet
<1> QED
  BY <1>1, <1>6, <1>7

FlatBody(seqs, i, g) == IF i = 1 THEN seqs[i] ELSE g[i-1] \o seqs[i]
Flattens(seqs, n, g) == g = [i \in 1..n |-> FlatBody(seqs, i, g)]

\* FlattenSeq is a choice among the functions that satisfy its recursion.
LEMMA FlattenIsChosen ==
  ASSUME NEW seqs, Len(seqs) # 0
  PROVE  FlattenSeq(seqs) = (CHOOSE g : Flattens(seqs, Len(seqs), g))[Len(seqs)]
BY DEF FlattenSeq, Flattens, FlatBody

\* There is such a function.
LEMMA FlattenDefined ==
  ASSUME NEW seqs, NEW n \in Nat
  PROVE  \E g : Flattens(seqs, n, g)
<1> DEFINE P == {m \in Nat : \E g : Flattens(seqs, m, g)}
<1>1. 0 \in P
  <2> DEFINE g == [i \in 1..0 |-> 0]
  <2>1. g = [i \in 1..0 |-> FlatBody(seqs, i, g)]
    OBVIOUS
  <2>2. Flattens(seqs, 0, g)
    BY <2>1 DEF Flattens
  <2> QED
    BY <2>2
<1>2. ASSUME NEW m \in Nat, m \in P PROVE m + 1 \in P
  <2>1. PICK g : Flattens(seqs, m, g)
    BY <1>2
  <2> DEFINE h == [i \in 1..m+1 |-> IF i <= m THEN g[i] ELSE FlatBody(seqs, i, g)]
  <2>2. \A i \in 1..m : g[i] = FlatBody(seqs, i, g)
    BY <2>1 DEF Flattens
  <2>3. \A i \in 1..m+1 : h[i] = FlatBody(seqs, i, g)
    BY <2>2
  <2>4. \A i \in 1..m+1 : i # 1 => i - 1 \in 1..m /\ h[i-1] = g[i-1]
    OBVIOUS
  <2>5. \A i \in 1..m+1 : FlatBody(seqs, i, h) = FlatBody(seqs, i, g)
    <3> HIDE DEF h
    <3> QED
      BY <2>4, Zenon DEF FlatBody
  <2>6. h = [i \in 1..m+1 |-> h[i]]
    OBVIOUS
  <2> HIDE DEF h
  <2>7. h = [i \in 1..m+1 |-> FlatBody(seqs, i, h)]
    BY <2>3, <2>5, <2>6
  <2>8. Flattens(seqs, m+1, h)
    BY <2>7 DEF Flattens
  <2> QED
    BY <2>8
<1>3. Nat \subseteq P
  <2> HIDE DEF P
  <2> QED
    BY <1>1, <1>2, NatSetInduction
<1> QED
  BY <1>3

\* A flattened sequence has the elements of its parts, and no others.
LEMMA FlattenMembers ==
  ASSUME NEW S, NEW seqs \in Seq(Seq(S))
  PROVE  /\ FlattenSeq(seqs) \in Seq(S)
         /\ ToSet(FlattenSeq(seqs)) = UNION {ToSet(seqs[m]) : m \in DOMAIN seqs}
<1>1. CASE Len(seqs) = 0
  <2>1. FlattenSeq(seqs) = seqs
    BY <1>1, Zenon DEF FlattenSeq
  <2>2. seqs = << >> /\ DOMAIN seqs = {}
    BY <1>1
  <2>3. << >> \in Seq(S) /\ ToSet(<< >>) = {}
    BY DEF ToSet
  <2> QED
    BY <2>1, <2>2, <2>3, Zenon
<1>2. CASE Len(seqs) # 0
  <2> DEFINE N == Len(seqs)
             g == CHOOSE f : Flattens(seqs, N, f)
             Upto(m) == UNION {ToSet(seqs[i]) : i \in 1..m}
             P == {m \in Nat : m + 1 \in 1..N =>
                     g[m+1] \in Seq(S) /\ ToSet(g[m+1]) = Upto(m+1)}
  <2>1. N \in Nat /\ N >= 1 /\ DOMAIN seqs = 1..N
        /\ \A i \in 1..N : seqs[i] \in Seq(S)
    BY <1>2
  <2>2. Flattens(seqs, N, g)
    BY <2>1, FlattenDefined, Zenon
  <2>3. FlattenSeq(seqs) = g[N]
    BY <1>2, FlattenIsChosen
  <2> HIDE DEF N, g
  <2>4. \A i \in 1..N : g[i] = FlatBody(seqs, i, g)
    BY <2>2 DEF Flattens
  <2>5. 0 \in P
    <3>1. g[1] = seqs[1]
      BY <2>1, <2>4 DEF FlatBody
    <3>2. Upto(1) = ToSet(seqs[1])
      OBVIOUS
    <3> QED
      BY <2>1, <3>1, <3>2
  <2>6. ASSUME NEW m \in Nat, m \in P PROVE m + 1 \in P
    <3> SUFFICES ASSUME (m + 1) + 1 \in 1..N
                 PROVE  g[(m+1)+1] \in Seq(S) /\ ToSet(g[(m+1)+1]) = Upto((m+1)+1)
      OBVIOUS
    <3> DEFINE k == m + 1
    <3>1. k \in 1..N /\ k + 1 \in 1..N /\ k + 1 # 1 /\ (k + 1) - 1 = k
      BY <2>1
    <3>2. g[k] \in Seq(S) /\ ToSet(g[k]) = Upto(k)
      BY <2>6, <3>1
    <3> HIDE DEF k
    <3>3. g[k + 1] = g[k] \o seqs[k + 1]
      BY <2>4, <3>1 DEF FlatBody
    <3>4. seqs[k + 1] \in Seq(S)
      BY <2>1, <3>1
    <3>5. g[k + 1] \in Seq(S) /\ ToSet(g[k + 1]) = Upto(k) \cup ToSet(seqs[k + 1])
      <4> HIDE DEF Upto
      <4> QED
        BY <3>2, <3>3, <3>4, ConcatMembers
    <3>6. 1..(k + 1) = 1..k \cup {k + 1}
      BY <2>1, <3>1
    <3>7. Upto(k + 1) = Upto(k) \cup ToSet(seqs[k + 1])
      BY <3>6
    <3> QED
      BY <3>5, <3>7 DEF k
  <2>7. Nat \subseteq P
    <3> HIDE DEF P
    <3> QED
      BY <2>5, <2>6, NatSetInduction
  <2>8. g[N] \in Seq(S) /\ ToSet(g[N]) = Upto(N)
    <3>1. N - 1 \in Nat /\ (N - 1) + 1 = N /\ N \in 1..N
      BY <2>1
    <3>2. N - 1 \in P
      BY <2>7, <3>1
    <3> QED
      BY <3>1, <3>2
  <2> QED
    BY <2>1, <2>3, <2>8
<1> QED
  BY <1>1, <1>2
=============================================================================
