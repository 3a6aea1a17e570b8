----------------------------- MODULE FiniteSums -----------------------------
(***************************************************************************)
(* What SumFunctionOnSet of the community modules computes: the sum of the *)
(* values of a function on a finite set, whatever the order in which they  *)
(* are added.  The library's induction principles are stated of operators, *)
(* which no prover here instantiates; the lemmas go by induction over sets *)
(* instead, from the well-foundedness of the order of the numbers.         *)
(***************************************************************************)
EXTENDS Integers, FiniteSetTheorems, WellFoundedInduction, Functions, TLAPS
-----------------------------------------------------------------------------
(* A set of numbers with 0 and the successor of each of its members has    *)
(* every number: else there would be a least one it lacks.                 *)
LEMMA NumbersInductive ==
  ASSUME NEW A, 0 \in A, \A n \in Nat : n \in A => n + 1 \in A
  PROVE  Nat \subseteq A
<1>1. SUFFICES ASSUME Nat \ A # {} PROVE FALSE
  OBVIOUS
<1>2. PICK Rest : Rest = Nat \ A
  OBVIOUS
<1>3. IsWellFoundedOn(OpToRel(<, Nat), Nat)
  BY NatLessThanWellFounded
<1>4. PICK x \in Rest : \A y \in Rest : ~(<<y, x>> \in OpToRel(<, Nat))
  BY <1>1, <1>2, <1>3, WFMin
<1>5. \A y \in Rest : ~(y < x)
  BY <1>2, <1>4 DEF OpToRel
<1>6. x \in Nat /\ x # 0
  BY <1>2
<1>7. x - 1 \in Nat /\ x - 1 < x /\ (x - 1) + 1 = x
  BY <1>6
<1> QED
  BY <1>2, <1>5, <1>7

(* Sets of finite sets: what holds of the empty set, and of a set with one *)
(* element more when it holds of the set, holds of every finite set.       *)
LEMMA FiniteInductive ==
  ASSUME NEW S, IsFiniteSet(S), NEW A, {} \in A,
         \A T \in SUBSET S : \A x \in S \ T : T \in A => T \cup {x} \in A
  PROVE  SUBSET S \subseteq A
<1>1. PICK Sizes : Sizes = {n \in Nat : \A T \in SUBSET S : Cardinality(T) = n => T \in A}
  OBVIOUS
<1>2. \A T \in SUBSET S : IsFiniteSet(T) /\ Cardinality(T) \in Nat
  BY FS_Subset, FS_CardinalityType
<1>3. 0 \in Sizes
  BY <1>1, <1>2, FS_EmptySet
<1>4. ASSUME NEW n \in Nat, n \in Sizes
      PROVE  n + 1 \in Sizes
  <2>1. ASSUME NEW T \in SUBSET S, Cardinality(T) = n + 1
        PROVE  T \in A
    <3>1. T # {}
      BY <2>1, FS_EmptySet
    <3>2. PICK x \in T : TRUE
      BY <3>1
    <3>3. Cardinality(T \ {x}) = n
      <4>1. IsFiniteSet(T) /\ Cardinality(T \ {x}) = Cardinality(T) - 1
        BY <1>2, FS_RemoveElement
      <4> QED
        BY <2>1, <4>1
    <3>4. T \ {x} \in A
      BY <1>1, <1>4, <3>3
    <3>5. /\ T \ {x} \in SUBSET S /\ x \in S \ (T \ {x})
          /\ (T \ {x}) \cup {x} = T
      OBVIOUS
    <3>6. (T \ {x}) \cup {x} \in A
      BY <3>4, <3>5
    <3> QED
      BY <3>5, <3>6
  <2> QED
    BY <1>1, <2>1
<1>5. Nat \subseteq Sizes
  BY <1>3, <1>4, NumbersInductive
<1> QED
  BY <1>1, <1>2, <1>5
-----------------------------------------------------------------------------
(***************************************************************************)
(* The recursion behind SumFunctionOnSet.  f is such a sum on the subsets  *)
(* of S; one element of a set, the one CHOOSE gives, is taken first.       *)
(***************************************************************************)
First(s) == CHOOSE x \in s : TRUE
SumsOf(w, S, f) ==
  f = [s \in SUBSET S |-> IF s = {} THEN 0 ELSE w[First(s)] + f[s \ {First(s)}]]

(* The library's sum is a value of a function chosen by its recursive      *)
(* equation.                                                               *)
LEMMA SumIsChosen ==
  ASSUME NEW w, NEW S
  PROVE  SumFunctionOnSet(w, S) = (CHOOSE f : SumsOf(w, S, f))[S]
BY DEF SumFunctionOnSet, FoldFunctionOnSet, MapThenFoldSet, SumsOf, First

(* An element to begin with, and the elements after it.                    *)
LEMMA FirstFacts ==
  ASSUME NEW S, NEW s \in SUBSET S, s # {}
  PROVE  First(s) \in s /\ s \ {First(s)} \in SUBSET S
BY DEF First

(* f is right on the sets of up to n elements. *)
RightUpTo(w, S, n, f) ==
  \A s \in SUBSET S : Cardinality(s) <= n =>
    f[s] = IF s = {} THEN 0 ELSE w[First(s)] + f[s \ {First(s)}]

(* There is such a function: one that is right on small sets can be made   *)
(* right on sets with one more element.                                    *)
LEMMA SumsExist ==
  ASSUME NEW S, IsFiniteSet(S), NEW w \in [S -> Int]
  PROVE  \E f \in [SUBSET S -> Int] : SumsOf(w, S, f)
<1>1. PICK A : A = {n \in Nat : \E f \in [SUBSET S -> Int] : RightUpTo(w, S, n, f)}
  OBVIOUS
<1>2. \A s \in SUBSET S : IsFiniteSet(s) /\ Cardinality(s) \in Nat
                          /\ (Cardinality(s) = 0 <=> s = {})
  BY FS_Subset, FS_CardinalityType, FS_EmptySet
<1>3. 0 \in A
  <2>1. PICK f : f = [s \in SUBSET S |-> 0]
    OBVIOUS
  <2>2. f \in [SUBSET S -> Int] /\ \A s \in SUBSET S : f[s] = 0
    BY <2>1
  <2>3. \A s \in SUBSET S : Cardinality(s) <= 0 => s = {}
    BY <1>2
  <2>4. RightUpTo(w, S, 0, f)
    BY <2>2, <2>3 DEF RightUpTo
  <2> QED
    BY <1>1, <2>2, <2>4
<1>4. ASSUME NEW n \in Nat, n \in A
      PROVE  n + 1 \in A
  <2>1. PICK f \in [SUBSET S -> Int] : RightUpTo(w, S, n, f)
    BY <1>1, <1>4
  <2>2. PICK g : g = [s \in SUBSET S |-> IF s = {} THEN 0
                                         ELSE w[First(s)] + f[s \ {First(s)}]]
    OBVIOUS
  <2>3. \A s \in SUBSET S : s # {} =>
          /\ First(s) \in s /\ s \ {First(s)} \in SUBSET S
          /\ Cardinality(s \ {First(s)}) = Cardinality(s) - 1
    BY <1>2, FirstFacts, FS_RemoveElement
  <2>4. g \in [SUBSET S -> Int]
    <3>1. \A s \in SUBSET S : s # {} =>
            w[First(s)] \in Int /\ f[s \ {First(s)}] \in Int
      BY <2>3
    <3>2. \A s \in SUBSET S :
            (IF s = {} THEN 0 ELSE w[First(s)] + f[s \ {First(s)}]) \in Int
      BY <3>1
    <3> QED
      BY <2>2, <3>2
  <2>5. \A s \in SUBSET S : Cardinality(s) <= n => g[s] = f[s]
    BY <2>1, <2>2 DEF RightUpTo
  <2>6. ASSUME NEW s \in SUBSET S, Cardinality(s) <= n + 1
        PROVE  g[s] = IF s = {} THEN 0 ELSE w[First(s)] + g[s \ {First(s)}]
    <3>1. CASE s = {}
      BY <2>2, <3>1
    <3>2. CASE s # {}
      <4>1. /\ s \ {First(s)} \in SUBSET S
            /\ Cardinality(s \ {First(s)}) <= n
        BY <1>2, <2>3, <2>6, <3>2
      <4> QED
        BY <2>2, <2>5, <3>2, <4>1
    <3> QED
      BY <3>1, <3>2
  <2>7. RightUpTo(w, S, n + 1, g)
    BY <2>6 DEF RightUpTo
  <2>8. n + 1 \in Nat
    OBVIOUS
  <2> QED
    BY <1>1, <2>4, <2>7, <2>8
<1>5. Cardinality(S) \in A
  BY <1>2, <1>3, <1>4, NumbersInductive
<1>6. PICK f \in [SUBSET S -> Int] : RightUpTo(w, S, Cardinality(S), f)
  BY <1>1, <1>5
<1>7. \A s \in SUBSET S : Cardinality(s) <= Cardinality(S)
  BY FS_Subset
<1>8. \A s \in SUBSET S :
        f[s] = IF s = {} THEN 0 ELSE w[First(s)] + f[s \ {First(s)}]
  BY <1>6, <1>7 DEF RightUpTo
<1>9. f = [s \in SUBSET S |-> f[s]]
  OBVIOUS
<1> QED
  BY <1>8, <1>9 DEF SumsOf

(* It does not matter of which larger set a set is seen as a subset.       *)
LEMMA SumsAgree ==
  ASSUME NEW S, IsFiniteSet(S), NEW w, NEW T \in SUBSET S,
         NEW f, SumsOf(w, S, f), NEW g, SumsOf(w, T, g)
  PROVE  f[T] = g[T]
<1>1. PICK A : A = {n \in Nat : \A s \in SUBSET T : Cardinality(s) = n => f[s] = g[s]}
  OBVIOUS
<1>2. /\ \A s \in SUBSET S :
           f[s] = IF s = {} THEN 0 ELSE w[First(s)] + f[s \ {First(s)}]
      /\ \A s \in SUBSET T :
           g[s] = IF s = {} THEN 0 ELSE w[First(s)] + g[s \ {First(s)}]
  <2>1. /\ f = [s \in SUBSET S |-> IF s = {} THEN 0 ELSE w[First(s)] + f[s \ {First(s)}]]
        /\ g = [s \in SUBSET T |-> IF s = {} THEN 0 ELSE w[First(s)] + g[s \ {First(s)}]]
    BY DEF SumsOf
  <2> QED
    BY <2>1
<1>3. \A s \in SUBSET T : IsFiniteSet(s) /\ Cardinality(s) \in Nat
                          /\ (Cardinality(s) = 0 <=> s = {})
  BY FS_Subset, FS_CardinalityType, FS_EmptySet
<1>4. 0 \in A
  BY <1>1, <1>2, <1>3
<1>5. ASSUME NEW n \in Nat, n \in A
      PROVE  n + 1 \in A
  <2>1. ASSUME NEW s \in SUBSET T, Cardinality(s) = n + 1
        PROVE  f[s] = g[s]
    <3>1. s # {}
      BY <1>3, <2>1
    <3>2. /\ s \ {First(s)} \in SUBSET T
          /\ Cardinality(s \ {First(s)}) = n
      <4>1. First(s) \in s /\ s \ {First(s)} \in SUBSET T /\ IsFiniteSet(s)
        BY <1>3, <3>1, FirstFacts
      <4>2. Cardinality(s \ {First(s)}) = Cardinality(s) - 1
        BY <4>1, FS_RemoveElement
      <4> QED
        BY <2>1, <4>1, <4>2
    <3>3. f[s \ {First(s)}] = g[s \ {First(s)}]
      BY <1>1, <1>5, <3>2
    <3>4. s \in SUBSET S
      OBVIOUS
    <3>5. /\ f[s] = w[First(s)] + f[s \ {First(s)}]
          /\ g[s] = w[First(s)] + g[s \ {First(s)}]
      BY <1>2, <3>1, <3>4
    <3> QED
      BY <3>3, <3>5
  <2> QED
    BY <1>1, <2>1
<1>6. Cardinality(T) \in A
  BY <1>3, <1>4, <1>5, NumbersInductive
<1> QED
  BY <1>1, <1>6

(* The sum of nothing, and the sum that takes the chosen element first.    *)
LEMMA SumRecursion ==
  ASSUME NEW S, IsFiniteSet(S), NEW w \in [S -> Int], NEW T \in SUBSET S
  PROVE  /\ SumFunctionOnSet(w, T) \in Int
         /\ T = {} => SumFunctionOnSet(w, T) = 0
         /\ T # {} => SumFunctionOnSet(w, T)
                        = w[First(T)] + SumFunctionOnSet(w, T \ {First(T)})
<1>1. PICK f \in [SUBSET S -> Int] : SumsOf(w, S, f)
  BY SumsExist
<1>2. ASSUME NEW U \in SUBSET S
      PROVE  SumFunctionOnSet(w, U) = f[U]
  <2>1. IsFiniteSet(U)
    BY FS_Subset
  <2>2. PICK v : v = [x \in U |-> w[x]]
    OBVIOUS
  <2>3. v \in [U -> Int]
    BY <2>2
  <2>4. PICK g \in [SUBSET U -> Int] : SumsOf(v, U, g)
    BY <2>1, <2>3, SumsExist
  <2>5. SumsOf(w, U, g)
    <3>1. \A s \in SUBSET U : s # {} => w[First(s)] = v[First(s)]
      BY <2>2, FirstFacts
    <3> QED
      BY <2>4, <3>1 DEF SumsOf
  <2>6. SumsOf(w, U, CHOOSE h : SumsOf(w, U, h))
    BY <2>5
  <2>7. f[U] = (CHOOSE h : SumsOf(w, U, h))[U]
    BY <1>1, <2>6, SumsAgree
  <2> QED
    BY <2>7, SumIsChosen
<1>3. \A s \in SUBSET S :
        f[s] = IF s = {} THEN 0 ELSE w[First(s)] + f[s \ {First(s)}]
  <2>1. f = [s \in SUBSET S |-> IF s = {} THEN 0 ELSE w[First(s)] + f[s \ {First(s)}]]
    BY <1>1 DEF SumsOf
  <2> QED
    BY <2>1
<1>4. T \ {First(T)} \in SUBSET S
  OBVIOUS
<1> QED
  BY <1>2, <1>3, <1>4
-----------------------------------------------------------------------------
(***************************************************************************)
(* What is known of sums from here on.                                     *)
(***************************************************************************)

(* Taking any element of a set first gives the same sum.                   *)
LEMMA SumWithout ==
  ASSUME NEW S, IsFiniteSet(S), NEW w \in [S -> Int], NEW T \in SUBSET S, NEW x \in T
  PROVE  SumFunctionOnSet(w, T) = w[x] + SumFunctionOnSet(w, T \ {x})
<1>1. PICK Sum : Sum = [U \in SUBSET S |-> SumFunctionOnSet(w, U)]
  OBVIOUS
<1>2. \A U \in SUBSET S : /\ Sum[U] = SumFunctionOnSet(w, U)
                          /\ Sum[U] \in Int
                          /\ U # {} => /\ Sum[U] = w[First(U)] + Sum[U \ {First(U)}]
                                       /\ First(U) \in U
  <2> SUFFICES ASSUME NEW U \in SUBSET S
               PROVE  /\ Sum[U] = SumFunctionOnSet(w, U)
                      /\ Sum[U] \in Int
                      /\ U # {} => /\ Sum[U] = w[First(U)] + Sum[U \ {First(U)}]
                                   /\ First(U) \in U
    OBVIOUS
  <2>1. U \ {First(U)} \in SUBSET S
    OBVIOUS
  <2>2. /\ Sum[U] = SumFunctionOnSet(w, U)
        /\ Sum[U \ {First(U)}] = SumFunctionOnSet(w, U \ {First(U)})
    BY <1>1, <2>1
  <2>3. U # {} => First(U) \in U
    BY FirstFacts
  <2> QED
    BY <2>2, <2>3, SumRecursion
<1>3. \A U \in SUBSET S : IsFiniteSet(U) /\ Cardinality(U) \in Nat
                          /\ (Cardinality(U) = 0 <=> U = {})
  BY FS_Subset, FS_CardinalityType, FS_EmptySet
<1>4. PICK A : A = {n \in Nat : \A U \in SUBSET S : Cardinality(U) = n =>
                                 \A y \in U : Sum[U] = w[y] + Sum[U \ {y}]}
  OBVIOUS
<1>5. 0 \in A
  BY <1>3, <1>4
<1>6. ASSUME NEW n \in Nat, n \in A
      PROVE  n + 1 \in A
  <2>1. ASSUME NEW U \in SUBSET S, Cardinality(U) = n + 1, NEW y \in U
        PROVE  Sum[U] = w[y] + Sum[U \ {y}]
    <3>1. PICK z \in U : Sum[U] = w[z] + Sum[U \ {z}]
      BY <1>2
    <3>2. CASE y = z
      BY <3>1, <3>2
    <3>3. CASE y # z
      <4>1. /\ U \ {y} \in SUBSET S /\ U \ {z} \in SUBSET S
            /\ Cardinality(U \ {y}) = n /\ Cardinality(U \ {z}) = n
            /\ z \in U \ {y} /\ y \in U \ {z}
        BY <1>3, <2>1, <3>3, FS_RemoveElement
      <4>2. /\ Sum[U \ {y}] = w[z] + Sum[(U \ {y}) \ {z}]
            /\ Sum[U \ {z}] = w[y] + Sum[(U \ {z}) \ {y}]
        BY <1>4, <1>6, <4>1
      <4>3. (U \ {y}) \ {z} = (U \ {z}) \ {y} /\ (U \ {y}) \ {z} \in SUBSET S
        OBVIOUS
      <4>4. w[y] \in Int /\ w[z] \in Int /\ Sum[(U \ {y}) \ {z}] \in Int
        BY <1>2, <4>3
      <4>5. /\ Sum[U] = w[z] + (w[y] + Sum[(U \ {z}) \ {y}])
            /\ Sum[U \ {y}] = w[z] + Sum[(U \ {z}) \ {y}]
            /\ Sum[(U \ {z}) \ {y}] \in Int
        BY <3>1, <4>2, <4>3, <4>4
      <4> QED
        BY <4>4, <4>5
    <3> QED
      BY <3>2, <3>3
  <2> QED
    BY <1>4, <2>1
<1>7. Cardinality(T) \in A
  BY <1>3, <1>5, <1>6, NumbersInductive
<1>8. Sum[T] = w[x] + Sum[T \ {x}]
  BY <1>4, <1>7
<1>9. T \ {x} \in SUBSET S
  OBVIOUS
<1> QED
  BY <1>2, <1>8, <1>9

(* The two equations of a sum: nothing sums to 0, and one element more     *)
(* adds its value.                                                         *)
LEMMA SumFacts ==
  ASSUME NEW S, IsFiniteSet(S), NEW w \in [S -> Int]
  PROVE  /\ SumFunctionOnSet(w, {}) = 0
         /\ \A T \in SUBSET S : SumFunctionOnSet(w, T) \in Int
         /\ \A T \in SUBSET S : \A x \in S \ T :
              SumFunctionOnSet(w, T \cup {x}) = SumFunctionOnSet(w, T) + w[x]
<1>1. \A T \in SUBSET S : SumFunctionOnSet(w, T) \in Int
  BY SumRecursion
<1>2. SumFunctionOnSet(w, {}) = 0
  BY SumRecursion
<1>3. ASSUME NEW T \in SUBSET S, NEW x \in S \ T
      PROVE  SumFunctionOnSet(w, T \cup {x}) = SumFunctionOnSet(w, T) + w[x]
  <2>1. /\ T \cup {x} \in SUBSET S /\ x \in T \cup {x}
        /\ (T \cup {x}) \ {x} = T
    OBVIOUS
  <2>2. SumFunctionOnSet(w, T \cup {x}) = w[x] + SumFunctionOnSet(w, (T \cup {x}) \ {x})
    BY <2>1, SumWithout
  <2>3. SumFunctionOnSet(w, T \cup {x}) = w[x] + SumFunctionOnSet(w, T)
    BY <2>1, <2>2
  <2> QED
    BY <1>1, <2>3
<1> QED
  BY <1>1, <1>2, <1>3

(* Only the values on the set count.                                       *)
LEMMA SumOfEqual ==
  ASSUME NEW S, IsFiniteSet(S), NEW w \in [S -> Int], NEW v \in [S -> Int],
         NEW T \in SUBSET S, \A x \in T : w[x] = v[x]
  PROVE  SumFunctionOnSet(w, T) = SumFunctionOnSet(v, T)
<1>1. PICK A : A = {U \in SUBSET T : SumFunctionOnSet(w, U) = SumFunctionOnSet(v, U)}
  OBVIOUS
<1>2. {} \in A
  BY <1>1, SumFacts
<1>3. ASSUME NEW U \in SUBSET T, NEW x \in T \ U, U \in A
      PROVE  U \cup {x} \in A
  <2>1. U \in SUBSET S /\ x \in S \ U
    OBVIOUS
  <2>2. /\ SumFunctionOnSet(w, U \cup {x}) = SumFunctionOnSet(w, U) + w[x]
        /\ SumFunctionOnSet(v, U \cup {x}) = SumFunctionOnSet(v, U) + v[x]
    BY <2>1, SumFacts
  <2>3. SumFunctionOnSet(w, U) = SumFunctionOnSet(v, U)
    BY <1>1, <1>3
  <2> QED
    BY <1>1, <2>2, <2>3
<1>4. IsFiniteSet(T)
  BY FS_Subset
<1>5. T \in A
  BY <1>2, <1>3, <1>4, FiniteInductive
<1> QED
  BY <1>1, <1>5

(* Members that weigh nothing do not count.                                *)
LEMMA SumOfWeighty ==
  ASSUME NEW S, IsFiniteSet(S), NEW w \in [S -> Int], NEW T \in SUBSET S
  PROVE  SumFunctionOnSet(w, T) = SumFunctionOnSet(w, {x \in T : w[x] # 0})
<1> DEFINE Weighty(U) == {x \in U : w[x] # 0}
<1>1. PICK A : A = {U \in SUBSET T :
                      SumFunctionOnSet(w, U) = SumFunctionOnSet(w, Weighty(U))}
  OBVIOUS
<1>2. {} \in A
  <2>1. Weighty({}) = {}
    OBVIOUS
  <2> HIDE DEF Weighty
  <2> QED
    BY <1>1, <2>1
<1>3. ASSUME NEW U \in SUBSET T, NEW x \in T \ U, U \in A
      PROVE  U \cup {x} \in A
  <2>1. /\ U \in SUBSET S /\ x \in S \ U
        /\ Weighty(U) \in SUBSET S /\ x \in S \ Weighty(U)
        /\ Weighty(U \cup {x}) = IF w[x] = 0 THEN Weighty(U) ELSE Weighty(U) \cup {x}
        /\ w[x] \in Int /\ U \cup {x} \in SUBSET T
    OBVIOUS
  <2>2. SumFunctionOnSet(w, U) = SumFunctionOnSet(w, Weighty(U))
    BY <1>1, <1>3
  <2> HIDE DEF Weighty
  <2>3. /\ SumFunctionOnSet(w, U \cup {x}) = SumFunctionOnSet(w, U) + w[x]
        /\ SumFunctionOnSet(w, Weighty(U) \cup {x}) = SumFunctionOnSet(w, Weighty(U)) + w[x]
        /\ SumFunctionOnSet(w, U) \in Int
    BY <2>1, SumFacts
  <2>4. SumFunctionOnSet(w, U \cup {x}) = SumFunctionOnSet(w, Weighty(U \cup {x}))
    <3>1. CASE w[x] = 0
      BY <2>1, <2>2, <2>3, <3>1
    <3>2. CASE w[x] # 0
      BY <2>1, <2>2, <2>3, <3>2
    <3> QED
      BY <3>1, <3>2
  <2> QED
    BY <1>1, <2>1, <2>4
<1>4. IsFiniteSet(T)
  BY FS_Subset
<1> HIDE DEF Weighty
<1>5. T \in A
  BY <1>2, <1>3, <1>4, FiniteInductive
<1>6. SumFunctionOnSet(w, T) = SumFunctionOnSet(w, Weighty(T))
  BY <1>1, <1>5
<1> QED
  BY <1>6 DEF Weighty

(* A sum of natural numbers is one, and when it is 0 all of them are.      *)
LEMMA SumOfNaturals ==
  ASSUME NEW S, IsFiniteSet(S), NEW w \in [S -> Int], NEW T \in SUBSET S,
         \A x \in T : w[x] \in Nat
  PROVE  /\ SumFunctionOnSet(w, T) \in Nat
         /\ SumFunctionOnSet(w, T) = 0 => \A x \in T : w[x] = 0
<1>1. PICK A : A = {U \in SUBSET T : SumFunctionOnSet(w, U) \in Nat}
  OBVIOUS
<1>2. {} \in A
  BY <1>1, SumFacts
<1>3. ASSUME NEW U \in SUBSET T, NEW x \in T \ U, U \in A
      PROVE  U \cup {x} \in A
  <2>1. U \in SUBSET S /\ x \in S \ U
    OBVIOUS
  <2>2. SumFunctionOnSet(w, U \cup {x}) = SumFunctionOnSet(w, U) + w[x]
    BY <2>1, SumFacts
  <2> QED
    BY <1>1, <1>3, <2>2
<1>4. IsFiniteSet(T)
  BY FS_Subset
<1>5. SUBSET T \subseteq A
  BY <1>2, <1>3, <1>4, FiniteInductive
<1>6. SumFunctionOnSet(w, T) \in Nat
  BY <1>1, <1>5
<1>7. ASSUME NEW x \in T, SumFunctionOnSet(w, T) = 0
      PROVE  w[x] = 0
  <2>1. SumFunctionOnSet(w, T) = w[x] + SumFunctionOnSet(w, T \ {x})
    BY SumWithout
  <2>2. SumFunctionOnSet(w, T \ {x}) \in Nat
    BY <1>1, <1>5
  <2>3. w[x] \in Nat
    OBVIOUS
  <2> QED
    BY <1>7, <2>1, <2>2, <2>3
<1> QED
  BY <1>6, <1>7
=============================================================================
