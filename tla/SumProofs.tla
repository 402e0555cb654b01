------------------------------ MODULE SumProofs ------------------------------
(***************************************************************************)
(* Sums over finite sets, as SumFunctionOnSet forms them: the element that *)
(* CHOOSE picks, and the sum over the others. The library's theorems of    *)
(* induction take an operator; here a set takes its place.                 *)
(***************************************************************************)
EXTENDS Integers, FiniteSets, Functions, FiniteSetTheorems, WellFoundedInduction, TLAPS

\* Induction over numbers, with a set for the property.
LEMMA NumberInduction ==
  ASSUME NEW T, 0 \in T, \A n \in Nat : n \in T => n + 1 \in T
  PROVE  Nat \subseteq T
<1> DEFINE Missing == Nat \ T
           R == OpToRel(<, Nat)
<1> SUFFICES ASSUME Missing # {} PROVE FALSE
  OBVIOUS
<1>1. PICK m \in Missing : \A n \in Missing : ~ (<<n, m>> \in R)
  <2>1. IsWellFoundedOn(R, Nat) /\ Missing \subseteq Nat
    BY NatLessThanWellFounded
  <2> HIDE DEF R, Missing
  <2> QED
    BY <2>1, WFMin
<1>2. m \in Nat /\ m # 0 /\ m \notin T
  OBVIOUS
<1>3. m - 1 \in Nat /\ (m - 1) + 1 = m
  BY <1>2
<1>4. m - 1 \in Missing
  BY <1>2, <1>3
<1>5. <<m - 1, m>> \in R
  BY <1>2, <1>3 DEF OpToRel
<1> QED
  BY <1>1, <1>4, <1>5

\* The element with which a sum over a nonempty set begins.
First(s) == CHOOSE x \in s : TRUE

LEMMA FirstIn == \A s : s # {} => First(s) \in s
  BY DEF First

\* Induction over the subsets of a finite set: what holds of every set with one
\* element less holds of the set.
LEMMA SubsetInduction ==
  ASSUME NEW S, IsFiniteSet(S), NEW T, {} \in T,
         \A s \in SUBSET S : s # {} /\ (\A x \in s : s \ {x} \in T) => s \in T
  PROVE  SUBSET S \subseteq T
<1> DEFINE Sized == {n \in Nat : \A s \in SUBSET S : Cardinality(s) = n => s \in T}
<1>1. ASSUME NEW s \in SUBSET S
      PROVE  IsFiniteSet(s) /\ Cardinality(s) \in Nat /\ (Cardinality(s) = 0 <=> s = {})
  BY FS_Subset, FS_CardinalityType, FS_EmptySet
<1>2. 0 \in Sized
  BY <1>1
<1>3. ASSUME NEW n \in Nat, n \in Sized
      PROVE  n + 1 \in Sized
  <2> SUFFICES ASSUME NEW s \in SUBSET S, Cardinality(s) = n + 1 PROVE s \in T
    OBVIOUS
  <2>1. s # {}
    BY <1>1
  <2>2. ASSUME NEW x \in s PROVE s \ {x} \in T
    <3>1. Cardinality(s \ {x}) = n /\ s \ {x} \in SUBSET S
      BY <1>1, FS_RemoveElement
    <3> QED
      BY <1>3, <3>1
  <2> QED
    BY <2>1, <2>2
<1>4. Nat \subseteq Sized
  <2> HIDE DEF Sized
  <2> QED
    BY <1>2, <1>3, NumberInduction
<1> QED
  BY <1>1, <1>4

-----------------------------------------------------------------------------
(* The recursion is well-founded: it defines a sum. *)

IsSum(sum, f, S) ==
    sum = [s \in SUBSET S |-> IF s = {} THEN 0 ELSE f[First(s)] + sum[s \ {First(s)}]]

LEMMA SumExists ==
  ASSUME NEW f, NEW S, IsFiniteSet(S)
  PROVE  \E sum : IsSum(sum, f, S)
<1> DEFINE Small(n) == {s \in SUBSET S : Cardinality(s) <= n}
           SumTo(sum, n) ==
             sum = [s \in Small(n) |->
                      IF s = {} THEN 0 ELSE f[First(s)] + sum[s \ {First(s)}]]
           Reached == {n \in Nat : \E sum : SumTo(sum, n)}
<1>1. ASSUME NEW s \in SUBSET S
      PROVE  IsFiniteSet(s) /\ Cardinality(s) \in Nat /\ (Cardinality(s) = 0 <=> s = {})
  BY FS_Subset, FS_CardinalityType, FS_EmptySet
<1>2. 0 \in Reached
  <2>1. Small(0) = {{}}
    BY <1>1
  <2>2. SumTo([s \in {{}} |-> 0], 0)
    BY <2>1
  <2> QED
    BY <2>2
<1>3. ASSUME NEW n \in Nat, n \in Reached
      PROVE  n + 1 \in Reached
  <2>1. PICK sum : SumTo(sum, n)
    BY <1>3
  <2> DEFINE more == [s \in Small(n + 1) |->
                        IF s = {} THEN 0 ELSE f[First(s)] + sum[s \ {First(s)}]]
  <2>2. ASSUME NEW s \in Small(n + 1), s # {}
        PROVE  s \ {First(s)} \in Small(n)
    <3>1. First(s) \in s /\ s \ {First(s)} \in SUBSET S
      BY <2>2, FirstIn
    <3>2. Cardinality(s \ {First(s)}) = Cardinality(s) - 1
      BY <1>1, <3>1, FS_RemoveElement
    <3> QED
      BY <1>1, <3>1, <3>2
  <2>3. Small(n) \subseteq Small(n + 1)
    BY <1>1
  <2>4. ASSUME NEW s \in Small(n) PROVE sum[s] = more[s]
    BY <2>1, <2>3
  <2>5. SumTo(more, n + 1)
    <3> HIDE DEF Small
    <3>1. \A s \in Small(n + 1) : s # {} => sum[s \ {First(s)}] = more[s \ {First(s)}]
      BY <2>2, <2>4
    <3> QED
      BY <3>1
  <2>6. \E bigger : SumTo(bigger, n + 1)
    <3> HIDE DEF SumTo, more
    <3> QED
      BY <2>5
  <2> HIDE DEF SumTo, more
  <2> QED
    BY <2>6
<1>4. Nat \subseteq Reached
  <2> HIDE DEF Reached
  <2> QED
    BY <1>2, <1>3, NumberInduction
<1>5. Cardinality(S) \in Nat
  BY <1>1
<1>6. PICK sum : SumTo(sum, Cardinality(S))
  BY <1>4, <1>5
<1>7. Small(Cardinality(S)) = SUBSET S
  BY FS_Subset
<1> QED
  BY <1>6, <1>7 DEF IsSum

LEMMA SumIs ==
  ASSUME NEW f, NEW S, IsFiniteSet(S)
  PROVE  \E sum : IsSum(sum, f, S) /\ SumFunctionOnSet(f, S) = sum[S]
<1> DEFINE iter == CHOOSE sum : IsSum(sum, f, S)
<1>1. IsSum(iter, f, S)
  BY SumExists
<1>2. SumFunctionOnSet(f, S) = iter[S]
  BY DEF SumFunctionOnSet, FoldFunctionOnSet, MapThenFoldSet, IsSum, First
<1> QED
  BY <1>1, <1>2

\* A sum over a set and one over a part of it agree on the part.
LEMMA SumsAgree ==
  ASSUME NEW f, NEW S, IsFiniteSet(S), NEW P \in SUBSET S,
         NEW g, IsSum(g, f, S), NEW h, IsSum(h, f, P)
  PROVE  g[P] = h[P]
<1> DEFINE Same == {s \in SUBSET P : g[s] = h[s]}
<1>1. IsFiniteSet(P)
  BY FS_Subset
<1>2. {} \in Same
  BY DEF IsSum
<1>3. ASSUME NEW s \in SUBSET P, s # {}, \A x \in s : s \ {x} \in Same
      PROVE  s \in Same
  <2>1. s \ {First(s)} \in Same
    BY <1>3, FirstIn
  <2> QED
    BY <1>3, <2>1 DEF IsSum
<1>4. SUBSET P \subseteq Same
  <2> HIDE DEF Same
  <2> QED
    BY <1>1, <1>2, <1>3, SubsetInduction
<1> QED
  BY <1>4

LEMMA SumEmpty == \A f : SumFunctionOnSet(f, {}) = 0
<1> TAKE f
<1>1. PICK sum : IsSum(sum, f, {}) /\ SumFunctionOnSet(f, {}) = sum[{}]
  BY SumIs, FS_EmptySet
<1> QED
  BY <1>1 DEF IsSum

LEMMA SumFirst ==
  ASSUME NEW f, NEW S, IsFiniteSet(S), S # {}
  PROVE  SumFunctionOnSet(f, S) = f[First(S)] + SumFunctionOnSet(f, S \ {First(S)})
<1> DEFINE P == S \ {First(S)}
<1>1. IsFiniteSet(P) /\ P \in SUBSET S
  BY FS_Subset
<1>2. PICK g : IsSum(g, f, S) /\ SumFunctionOnSet(f, S) = g[S]
  BY SumIs
<1>3. PICK h : IsSum(h, f, P) /\ SumFunctionOnSet(f, P) = h[P]
  BY <1>1, SumIs
<1>4. g[P] = h[P]
  <2> HIDE DEF P
  <2> QED
    BY <1>1, <1>2, <1>3, SumsAgree
<1>5. g[S] = f[First(S)] + g[P]
  BY <1>2 DEF IsSum
<1> QED
  BY <1>2, <1>3, <1>4, <1>5

-----------------------------------------------------------------------------
(* What is summed are integers. *)

LEMMA SumInt ==
  ASSUME NEW S, IsFiniteSet(S), NEW f, \A x \in S : f[x] \in Int
  PROVE  SumFunctionOnSet(f, S) \in Int
<1> DEFINE T == {s \in SUBSET S : SumFunctionOnSet(f, s) \in Int}
<1>1. {} \in T
  BY SumEmpty
<1>2. ASSUME NEW s \in SUBSET S, s # {}, \A x \in s : s \ {x} \in T
      PROVE  s \in T
  <2>1. IsFiniteSet(s) /\ First(s) \in s
    BY <1>2, FS_Subset, FirstIn
  <2>2. SumFunctionOnSet(f, s) = f[First(s)] + SumFunctionOnSet(f, s \ {First(s)})
    BY <1>2, <2>1, SumFirst
  <2> QED
    BY <1>2, <2>1, <2>2
<1>3. SUBSET S \subseteq T
  <2> HIDE DEF T
  <2> QED
    BY <1>1, <1>2, SubsetInduction
<1> QED
  BY <1>3

\* Any element can be taken out, not only the first.
LEMMA SumTake ==
  ASSUME NEW S, IsFiniteSet(S), NEW f, \A y \in S : f[y] \in Int, NEW x \in S
  PROVE  SumFunctionOnSet(f, S) = f[x] + SumFunctionOnSet(f, S \ {x})
<1> DEFINE T == {s \in SUBSET S : \A y \in s :
                   SumFunctionOnSet(f, s) = f[y] + SumFunctionOnSet(f, s \ {y})}
<1>1. {} \in T
  OBVIOUS
<1>2. ASSUME NEW s \in SUBSET S, s # {}, \A y \in s : s \ {y} \in T
      PROVE  s \in T
  <2> SUFFICES ASSUME NEW y \in s
      PROVE SumFunctionOnSet(f, s) = f[y] + SumFunctionOnSet(f, s \ {y})
    OBVIOUS
  <2>0. PICK a : a = First(s)
    OBVIOUS
  <2>1. a \in s /\ IsFiniteSet(s)
    BY <1>2, <2>0, FS_Subset, FirstIn
  <2>2. SumFunctionOnSet(f, s) = f[a] + SumFunctionOnSet(f, s \ {a})
    BY <1>2, <2>0, <2>1, SumFirst
  <2>3. CASE a = y
    BY <2>2, <2>3
  <2>4. CASE a # y
    <3>1. PICK rest : rest = s \ {a, y}
      OBVIOUS
    <3>2. (s \ {a}) \ {y} = rest /\ (s \ {y}) \ {a} = rest
      BY <3>1
    <3>3. SumFunctionOnSet(f, s \ {a}) = f[y] + SumFunctionOnSet(f, rest)
      BY <1>2, <2>1, <2>4, <3>2
    <3>4. SumFunctionOnSet(f, s \ {y}) = f[a] + SumFunctionOnSet(f, rest)
      BY <1>2, <2>1, <2>4, <3>2
    <3>5. SumFunctionOnSet(f, rest) \in Int
      <4>1. IsFiniteSet(rest) /\ \A z \in rest : f[z] \in Int
        BY <2>1, <3>1, FS_Subset
      <4> QED
        BY <4>1, SumInt
    <3>6. f[a] \in Int /\ f[y] \in Int
      BY <2>1
    <3> QED
      BY <2>2, <3>3, <3>4, <3>5, <3>6
  <2> QED
    BY <2>3, <2>4
<1>3. SUBSET S \subseteq T
  <2> HIDE DEF T
  <2> QED
    BY <1>1, <1>2, SubsetInduction
<1> QED
  BY <1>3

\* Only the values on the set count.
LEMMA SumSame ==
  ASSUME NEW S, IsFiniteSet(S), NEW f, NEW g, \A x \in S : f[x] = g[x]
  PROVE  SumFunctionOnSet(f, S) = SumFunctionOnSet(g, S)
<1> DEFINE T == {s \in SUBSET S : SumFunctionOnSet(f, s) = SumFunctionOnSet(g, s)}
<1>1. {} \in T
  BY SumEmpty
<1>2. ASSUME NEW s \in SUBSET S, s # {}, \A x \in s : s \ {x} \in T
      PROVE  s \in T
  <2>1. IsFiniteSet(s) /\ First(s) \in s
    BY <1>2, FS_Subset, FirstIn
  <2>2. SumFunctionOnSet(f, s) = f[First(s)] + SumFunctionOnSet(f, s \ {First(s)})
    BY <1>2, <2>1, SumFirst
  <2>3. SumFunctionOnSet(g, s) = g[First(s)] + SumFunctionOnSet(g, s \ {First(s)})
    BY <1>2, <2>1, SumFirst
  <2> QED
    BY <1>2, <2>1, <2>2, <2>3
<1>3. SUBSET S \subseteq T
  <2> HIDE DEF T
  <2> QED
    BY <1>1, <1>2, SubsetInduction
<1> QED
  BY <1>3

\* A sum over a set and one more.
LEMMA SumAdd ==
  ASSUME NEW S, IsFiniteSet(S), NEW x, x \notin S,
         NEW f, \A y \in S \cup {x} : f[y] \in Int
  PROVE  SumFunctionOnSet(f, S \cup {x}) = SumFunctionOnSet(f, S) + f[x]
<1>1. IsFiniteSet(S \cup {x}) /\ (S \cup {x}) \ {x} = S
  BY FS_AddElement
<1>2. SumFunctionOnSet(f, S \cup {x}) = f[x] + SumFunctionOnSet(f, S)
  BY <1>1, SumTake
<1>3. SumFunctionOnSet(f, S) \in Int
  BY SumInt
<1> QED
  BY <1>2, <1>3

\* A change at one point.
LEMMA SumChange ==
  ASSUME NEW S, IsFiniteSet(S), NEW x \in S,
         NEW f, \A y \in S : f[y] \in Int,
         NEW g, g[x] \in Int, \A y \in S \ {x} : g[y] = f[y]
  PROVE  SumFunctionOnSet(g, S) = SumFunctionOnSet(f, S) - f[x] + g[x]
<1>1. PICK rest : rest = SumFunctionOnSet(f, S \ {x})
  OBVIOUS
<1>2. IsFiniteSet(S \ {x})
  BY FS_Subset
<1>3. rest \in Int
  BY <1>1, <1>2, SumInt
<1>4. SumFunctionOnSet(f, S) = f[x] + rest
  BY <1>1, SumTake
<1>5. \A y \in S : g[y] \in Int
  OBVIOUS
<1>6. SumFunctionOnSet(g, S \ {x}) = rest
  BY <1>1, <1>2, SumSame
<1>7. SumFunctionOnSet(g, S) = g[x] + rest
  BY <1>5, <1>6, SumTake
<1> QED
  BY <1>3, <1>4, <1>7

\* Sums keep the order of what they sum.
LEMMA SumMonotone ==
  ASSUME NEW S, IsFiniteSet(S),
         NEW f, \A x \in S : f[x] \in Int, NEW g, \A x \in S : g[x] \in Int /\ f[x] <= g[x]
  PROVE  SumFunctionOnSet(f, S) <= SumFunctionOnSet(g, S)
<1> DEFINE T == {s \in SUBSET S : SumFunctionOnSet(f, s) <= SumFunctionOnSet(g, s)}
<1>1. {} \in T
  BY SumEmpty
<1>2. ASSUME NEW s \in SUBSET S, s # {}, \A x \in s : s \ {x} \in T
      PROVE  s \in T
  <2>0. PICK a : a = First(s)
    OBVIOUS
  <2>1. a \in s /\ IsFiniteSet(s) /\ IsFiniteSet(s \ {a})
    BY <1>2, <2>0, FS_Subset, FirstIn
  <2>2. SumFunctionOnSet(f, s) = f[a] + SumFunctionOnSet(f, s \ {a})
    BY <1>2, <2>0, <2>1, SumFirst
  <2>3. SumFunctionOnSet(g, s) = g[a] + SumFunctionOnSet(g, s \ {a})
    BY <1>2, <2>0, <2>1, SumFirst
  <2>4. SumFunctionOnSet(f, s \ {a}) \in Int /\ SumFunctionOnSet(g, s \ {a}) \in Int
    <3>1. \A x \in s \ {a} : f[x] \in Int /\ g[x] \in Int
      OBVIOUS
    <3> QED
      BY <2>1, <3>1, SumInt
  <2>5. f[a] \in Int /\ g[a] \in Int /\ f[a] <= g[a]
    BY <2>1
  <2>6. SumFunctionOnSet(f, s \ {a}) <= SumFunctionOnSet(g, s \ {a})
    BY <1>2, <2>1
  <2>7. SumFunctionOnSet(f, s) <= SumFunctionOnSet(g, s)
    BY <2>2, <2>3, <2>4, <2>5, <2>6
  <2> QED
    BY <2>7
<1>3. SUBSET S \subseteq T
  <2> HIDE DEF T
  <2> QED
    BY <1>1, <1>2, SubsetInduction
<1> QED
  BY <1>3

\* A sum of the same number everywhere: zero, or a bound times a cardinality.
LEMMA SumConstant ==
  ASSUME NEW S, IsFiniteSet(S), NEW c \in Int, NEW f, \A x \in S : f[x] = c
  PROVE  SumFunctionOnSet(f, S) = c * Cardinality(S)
<1> DEFINE T == {s \in SUBSET S : SumFunctionOnSet(f, s) = c * Cardinality(s)}
<1>1. {} \in T
  BY SumEmpty, FS_EmptySet
<1>2. ASSUME NEW s \in SUBSET S, s # {}, \A x \in s : s \ {x} \in T
      PROVE  s \in T
  <2>0. PICK a : a = First(s)
    OBVIOUS
  <2>1. a \in s /\ IsFiniteSet(s)
    BY <1>2, <2>0, FS_Subset, FirstIn
  <2>2. SumFunctionOnSet(f, s) = f[a] + SumFunctionOnSet(f, s \ {a})
    BY <1>2, <2>0, <2>1, SumFirst
  <2>3. PICK n \in Nat : n = Cardinality(s)
    BY <2>1, FS_CardinalityType
  <2>4. Cardinality(s \ {a}) = n - 1
    BY <2>1, <2>3, FS_RemoveElement
  <2>5. SumFunctionOnSet(f, s \ {a}) = c * (n - 1)
    BY <1>2, <2>1, <2>4
  <2>6. SumFunctionOnSet(f, s) = c + c * (n - 1)
    BY <2>1, <2>2, <2>5
  <2>7. c + c * (n - 1) = c * n
    OBVIOUS
  <2> QED
    BY <2>3, <2>6, <2>7
<1>3. SUBSET S \subseteq T
  <2> HIDE DEF T
  <2> QED
    BY <1>1, <1>2, SubsetInduction
<1> QED
  BY <1>3

\* Nonnegative numbers: each is at most the sum, and a part sums to no more.
LEMMA SumNat ==
  ASSUME NEW S, IsFiniteSet(S), NEW f, \A x \in S : f[x] \in Nat
  PROVE  /\ SumFunctionOnSet(f, S) \in Nat
         /\ \A x \in S : f[x] <= SumFunctionOnSet(f, S)
<1>1. ASSUME NEW s \in SUBSET S PROVE SumFunctionOnSet(f, s) \in Nat
  <2>1. IsFiniteSet(s)
    BY FS_Subset
  <2> DEFINE zero == [x \in s |-> 0]
  <2>2. SumFunctionOnSet(zero, s) = 0
    <3>1. SumFunctionOnSet(zero, s) = 0 * Cardinality(s) /\ Cardinality(s) \in Nat
      BY <2>1, SumConstant, FS_CardinalityType
    <3> QED
      BY <3>1
  <2>3. SumFunctionOnSet(f, s) \in Int
    BY <2>1, SumInt
  <2>4. SumFunctionOnSet(zero, s) <= SumFunctionOnSet(f, s)
    <3>1. \A x \in s : zero[x] \in Int /\ f[x] \in Int /\ zero[x] <= f[x]
      OBVIOUS
    <3> HIDE DEF zero
    <3> QED
      BY <2>1, <3>1, SumMonotone
  <2> HIDE DEF zero
  <2> QED
    BY <2>2, <2>3, <2>4
<1>2. ASSUME NEW x \in S PROVE f[x] <= SumFunctionOnSet(f, S)
  <2>1. SumFunctionOnSet(f, S) = f[x] + SumFunctionOnSet(f, S \ {x})
    BY SumTake
  <2>2. SumFunctionOnSet(f, S \ {x}) \in Nat
    BY <1>1
  <2> QED
    BY <2>1, <2>2
<1> QED
  BY <1>1, <1>2

\* The sum of sums.
LEMMA SumPlus ==
  ASSUME NEW S, IsFiniteSet(S),
         NEW f, \A x \in S : f[x] \in Int, NEW g, \A x \in S : g[x] \in Int,
         NEW h, \A x \in S : h[x] = f[x] + g[x]
  PROVE  SumFunctionOnSet(h, S) = SumFunctionOnSet(f, S) + SumFunctionOnSet(g, S)
<1> DEFINE T == {s \in SUBSET S : SumFunctionOnSet(h, s)
                                    = SumFunctionOnSet(f, s) + SumFunctionOnSet(g, s)}
<1>1. {} \in T
  BY SumEmpty
<1>2. ASSUME NEW s \in SUBSET S, s # {}, \A x \in s : s \ {x} \in T
      PROVE  s \in T
  <2>0. PICK a : a = First(s)
    OBVIOUS
  <2>1. a \in s /\ IsFiniteSet(s) /\ IsFiniteSet(s \ {a})
    BY <1>2, <2>0, FS_Subset, FirstIn
  <2>2. /\ SumFunctionOnSet(f, s) = f[a] + SumFunctionOnSet(f, s \ {a})
        /\ SumFunctionOnSet(g, s) = g[a] + SumFunctionOnSet(g, s \ {a})
        /\ SumFunctionOnSet(h, s) = h[a] + SumFunctionOnSet(h, s \ {a})
    BY <1>2, <2>0, <2>1, SumFirst
  <2>3. SumFunctionOnSet(f, s \ {a}) \in Int /\ SumFunctionOnSet(g, s \ {a}) \in Int
    <3>1. \A x \in s \ {a} : f[x] \in Int /\ g[x] \in Int
      OBVIOUS
    <3> QED
      BY <2>1, <3>1, SumInt
  <2>4. f[a] \in Int /\ g[a] \in Int /\ h[a] = f[a] + g[a]
    BY <2>1
  <2>5. SumFunctionOnSet(h, s \ {a})
          = SumFunctionOnSet(f, s \ {a}) + SumFunctionOnSet(g, s \ {a})
    BY <1>2, <2>1
  <2>6. SumFunctionOnSet(h, s) = SumFunctionOnSet(f, s) + SumFunctionOnSet(g, s)
    BY <2>2, <2>3, <2>4, <2>5
  <2> QED
    BY <2>6
<1>3. SUBSET S \subseteq T
  <2> HIDE DEF T
  <2> QED
    BY <1>1, <1>2, SubsetInduction
<1> QED
  BY <1>3

\* A part of natural numbers sums to no more than all of them.
LEMMA SumPart ==
  ASSUME NEW S, IsFiniteSet(S), NEW P \in SUBSET S, NEW f, \A x \in S : f[x] \in Nat
  PROVE  SumFunctionOnSet(f, P) <= SumFunctionOnSet(f, S)
<1> DEFINE T == {s \in SUBSET S : SumFunctionOnSet(f, P \cap s) <= SumFunctionOnSet(f, s)}
<1>1. {} \in T
  BY SumEmpty
<1>2. ASSUME NEW s \in SUBSET S, s # {}, \A x \in s : s \ {x} \in T
      PROVE  s \in T
  <2>0. PICK a : a = First(s)
    OBVIOUS
  <2>1. a \in s /\ IsFiniteSet(s) /\ IsFiniteSet(s \ {a}) /\ IsFiniteSet(P \cap s)
    BY <1>2, <2>0, FS_Subset, FirstIn
  <2>2. PICK whole \in Nat : whole = SumFunctionOnSet(f, s \ {a})
    BY <2>1, SumNat
  <2>3. PICK part \in Nat : part = SumFunctionOnSet(f, P \cap (s \ {a}))
    <3>1. IsFiniteSet(P \cap (s \ {a}))
      BY <2>1, FS_Subset
    <3> QED
      BY <3>1, SumNat
  <2>4. part <= whole
    BY <1>2, <2>1, <2>2, <2>3
  <2>5. PICK n \in Nat : n = f[a]
    BY <2>1
  <2>6. SumFunctionOnSet(f, s) = n + whole
    BY <1>2, <2>0, <2>1, <2>2, <2>5, SumFirst
  <2>7. SumFunctionOnSet(f, P \cap s) \in {part, n + part}
    <3>1. CASE a \in P
      <4>1. (P \cap s) \ {a} = P \cap (s \ {a}) /\ a \in P \cap s
        BY <2>1, <3>1
      <4>2. \A y \in P \cap s : f[y] \in Int
        OBVIOUS
      <4>3. SumFunctionOnSet(f, P \cap s) = n + part
        BY <2>1, <2>3, <2>5, <4>1, <4>2, SumTake
      <4> QED
        BY <4>3
    <3>2. CASE a \notin P
      <4>1. P \cap s = P \cap (s \ {a})
        BY <3>2
      <4> QED
        BY <2>3, <4>1
    <3> QED
      BY <3>1, <3>2
  <2>8. SumFunctionOnSet(f, P \cap s) <= SumFunctionOnSet(f, s)
    BY <2>4, <2>6, <2>7
  <2> QED
    BY <2>8
<1>3. S \in T
  <2>1. SUBSET S \subseteq T
    <3> HIDE DEF T
    <3> QED
      BY <1>1, <1>2, SubsetInduction
  <2> QED
    BY <2>1
<1>4. P \cap S = P
  OBVIOUS
<1> QED
  BY <1>3, <1>4

\* Numbers that are each charged to a larger one of their own sum to no more.
LEMMA SumCharged ==
  ASSUME NEW S, IsFiniteSet(S), NEW f, \A x \in S : f[x] \in Nat,
         NEW X, IsFiniteSet(X), NEW g, \A y \in X : g[y] \in Nat,
         NEW h, \A x \in S : f[x] # 0 => h[x] \in X /\ f[x] <= g[h[x]],
         \A x, y \in S : f[x] # 0 /\ f[y] # 0 /\ h[x] = h[y] => x = y
  PROVE  SumFunctionOnSet(f, S) <= SumFunctionOnSet(g, X)
<1> DEFINE Image(s) == {h[x] : x \in {y \in s : f[y] # 0}}
           T == {s \in SUBSET S : SumFunctionOnSet(f, s) <= SumFunctionOnSet(g, Image(s))}
<1>1. {} \in T
  <2>1. Image({}) = {}
    OBVIOUS
  <2> QED
    BY <2>1, SumEmpty
<1>2. ASSUME NEW s \in SUBSET S, s # {}, \A x \in s : s \ {x} \in T
      PROVE  s \in T
  <2>0. PICK a : a = First(s)
    OBVIOUS
  <2>1. a \in s /\ IsFiniteSet(s) /\ IsFiniteSet(s \ {a})
    BY <1>2, <2>0, FS_Subset, FirstIn
  <2>2. PICK R \in SUBSET X : R = Image(s \ {a})
    OBVIOUS
  <2>3. IsFiniteSet(R)
    BY FS_Subset
  <2>4. PICK rest \in Nat : rest = SumFunctionOnSet(f, s \ {a})
    BY <2>1, SumNat
  <2>5. PICK room \in Nat : room = SumFunctionOnSet(g, R)
    BY <2>3, SumNat
  <2>6. rest <= room
    BY <1>2, <2>1, <2>2, <2>4, <2>5
  <2>7. PICK n \in Nat : n = f[a]
    BY <2>1
  <2>8. SumFunctionOnSet(f, s) = n + rest
    BY <1>2, <2>0, <2>1, <2>4, <2>7, SumFirst
  <2>9. CASE n = 0
    <3>1. Image(s) = R
      BY <2>2, <2>7, <2>9
    <3>2. SumFunctionOnSet(f, s) <= SumFunctionOnSet(g, Image(s))
      <4> HIDE DEF Image
      <4> QED
        BY <2>5, <2>6, <2>8, <2>9, <3>1
    <3> QED
      BY <3>2
  <2>10. CASE n # 0
    <3>1. PICK b \in X : b = h[a]
      BY <2>1, <2>7, <2>10
    <3>2. Image(s) = R \cup {b}
      BY <2>1, <2>2, <2>7, <2>10, <3>1
    <3>3. b \notin R
      BY <2>1, <2>2, <2>7, <2>10, <3>1
    <3>4. PICK m \in Nat : m = g[b]
      OBVIOUS
    <3>5. n <= m
      BY <2>1, <2>7, <2>10, <3>1, <3>4
    <3>6. \A y \in R \cup {b} : g[y] \in Int
      OBVIOUS
    <3>7. SumFunctionOnSet(g, R \cup {b}) = room + m
      BY <2>3, <2>5, <3>3, <3>4, <3>6, SumAdd
    <3>8. SumFunctionOnSet(f, s) <= SumFunctionOnSet(g, Image(s))
      <4> HIDE DEF Image
      <4> QED
        BY <2>6, <2>8, <3>2, <3>5, <3>7
    <3> QED
      BY <3>8
  <2> QED
    BY <2>9, <2>10
<1>3. SUBSET S \subseteq T
  <2> HIDE DEF T
  <2> QED
    BY <1>1, <1>2, SubsetInduction
<1>4. PICK charged \in Nat : charged = SumFunctionOnSet(f, S)
  BY SumNat
<1>5. PICK R \in SUBSET X : R = Image(S)
  OBVIOUS
<1>6. PICK paid \in Nat : paid = SumFunctionOnSet(g, R)
  <2>1. IsFiniteSet(R)
    BY FS_Subset
  <2> QED
    BY <2>1, SumNat
<1>7. PICK all \in Nat : all = SumFunctionOnSet(g, X)
  BY SumNat
<1>8. charged <= paid
  BY <1>3, <1>4, <1>5, <1>6
<1>9. paid <= all
  BY <1>6, <1>7, SumPart
<1> QED
  BY <1>4, <1>7, <1>8, <1>9

\* The sum over two sets that have nothing in common.
LEMMA SumUnion ==
  ASSUME NEW P, IsFiniteSet(P), NEW Q, IsFiniteSet(Q), P \cap Q = {},
         NEW f, \A x \in P \cup Q : f[x] \in Int
  PROVE  SumFunctionOnSet(f, P \cup Q) = SumFunctionOnSet(f, P) + SumFunctionOnSet(f, Q)
<1> DEFINE T == {s \in SUBSET Q : SumFunctionOnSet(f, P \cup s)
                                    = SumFunctionOnSet(f, P) + SumFunctionOnSet(f, s)}
<1>1. SumFunctionOnSet(f, P) \in Int
  BY SumInt
<1>2. {} \in T
  <2>1. P \cup {} = P /\ SumFunctionOnSet(f, {}) = 0
    BY SumEmpty
  <2> QED
    BY <1>1, <2>1
<1>3. ASSUME NEW s \in SUBSET Q, s # {}, \A x \in s : s \ {x} \in T
      PROVE  s \in T
  <2>1. PICK x \in s : TRUE
    BY <1>3
  <2>2. IsFiniteSet(s) /\ IsFiniteSet(P \cup s) /\ IsFiniteSet(s \ {x})
    BY FS_Subset, FS_Union
  <2>3. SumFunctionOnSet(f, s \ {x}) \in Int /\ f[x] \in Int
    BY <2>2, SumInt
  <2>4. SumFunctionOnSet(f, P \cup s) = f[x] + SumFunctionOnSet(f, (P \cup s) \ {x})
    BY <2>2, SumTake
  <2>5. (P \cup s) \ {x} = P \cup (s \ {x})
    OBVIOUS
  <2>6. SumFunctionOnSet(f, s) = f[x] + SumFunctionOnSet(f, s \ {x})
    BY <2>2, SumTake
  <2>7. SumFunctionOnSet(f, P \cup (s \ {x}))
          = SumFunctionOnSet(f, P) + SumFunctionOnSet(f, s \ {x})
    BY <1>3
  <2>8. SumFunctionOnSet(f, P \cup s) = SumFunctionOnSet(f, P) + SumFunctionOnSet(f, s)
    <3>1. SumFunctionOnSet(f, P \cup s)
            = f[x] + (SumFunctionOnSet(f, P) + SumFunctionOnSet(f, s \ {x}))
      BY <2>4, <2>5, <2>7
    <3>2. PICK a \in Int : a = SumFunctionOnSet(f, P)
      BY <1>1
    <3>3. PICK b \in Int : b = SumFunctionOnSet(f, s \ {x})
      BY <2>3
    <3>4. PICK c \in Int : c = f[x]
      BY <2>3
    <3>5. c + (a + b) = a + (c + b)
      OBVIOUS
    <3> QED
      BY <2>6, <3>1, <3>2, <3>3, <3>4, <3>5
  <2> QED
    BY <2>8
<1>4. SUBSET Q \subseteq T
  <2> HIDE DEF T
  <2> QED
    BY <1>2, <1>3, SubsetInduction
<1> QED
  BY <1>4

\* A sum of nothing but zeroes.
LEMMA SumZero ==
  ASSUME NEW S, IsFiniteSet(S), NEW f, \A x \in S : f[x] = 0
  PROVE  SumFunctionOnSet(f, S) = 0
<1>1. SumFunctionOnSet(f, S) = 0 * Cardinality(S)
  BY SumConstant
<1> QED
  BY <1>1, FS_CardinalityType

\* A sum one of whose terms, or none, has grown by one.
LEMMA SumGrows ==
  ASSUME NEW S, IsFiniteSet(S), NEW x,
         NEW f, \A y \in S : f[y] \in Nat,
         NEW g, g[x] = f[x] + 1, \A y \in S : y # x => g[y] = f[y]
  PROVE  /\ SumFunctionOnSet(f, S) \in Nat
         /\ SumFunctionOnSet(g, S) = IF x \in S THEN SumFunctionOnSet(f, S) + 1
                                                ELSE SumFunctionOnSet(f, S)
<1>1. PICK n \in Nat : n = SumFunctionOnSet(f, S)
  BY SumNat
<1>2. CASE x \in S
  <2>1. \A y \in S : f[y] \in Int
    OBVIOUS
  <2>2. \A y \in S \ {x} : g[y] = f[y]
    OBVIOUS
  <2>3. PICK m \in Nat : m = f[x]
    BY <1>2
  <2>4. g[x] = m + 1 /\ g[x] \in Int
    BY <2>3
  <2>5. SumFunctionOnSet(g, S) = SumFunctionOnSet(f, S) - f[x] + g[x]
    BY <1>2, <2>1, <2>2, <2>4, SumChange
  <2>6. SumFunctionOnSet(g, S) = n - m + (m + 1)
    BY <1>1, <2>3, <2>4, <2>5
  <2> QED
    BY <1>1, <1>2, <2>3, <2>6
<1>3. CASE x \notin S
  <2>1. \A y \in S : g[y] = f[y]
    BY <1>3
  <2>2. SumFunctionOnSet(g, S) = SumFunctionOnSet(f, S)
    BY <2>1, SumSame
  <2> QED
    BY <1>1, <1>3, <2>2
<1> QED
  BY <1>2, <1>3

===============================================================================
