----------------------- MODULE StructuredPruningProofs -----------------------
(***************************************************************************)
(* What holds of one call of structured pruning for any prompt, any        *)
(* figures of the host and any configuration.                              *)
(*                                                                         *)
(* The sums of PruneGroups are folds over sets.  A sum of natural numbers  *)
(* is shown to be the number of elements of a set, the units of the        *)
(* summands, so that the facts about cardinalities become facts about      *)
(* sums.  Induction over the subsets of a finite set is by a smallest      *)
(* counterexample.                                                         *)
(***************************************************************************)
EXTENDS StructuredPruning, FiniteSetTheorems, TLAPS

-----------------------------------------------------------------------------
(* Smallest sets and numbers *)

\* Among subsets of a finite set there is one that none of the others is part of.
LEMMA SmallestSet ==
  ASSUME NEW S, IsFiniteSet(S), NEW T, T \subseteq SUBSET S, T # {}
  PROVE  \E s \in T : \A t \in T : t \subseteq s => t = s
<1>1. IsWellFoundedOn(StrictSubsetOrdering(S), SUBSET S)
  BY FS_StrictSubsetOrderingWellFounded, FS_FiniteSubsetsOfFinite
<1>2. PICK s \in T : \A t \in T : ~ (<<t, s>> \in StrictSubsetOrdering(S))
  BY <1>1, WFMin
<1>3. ASSUME NEW t \in T, t \subseteq s, t # s PROVE FALSE
  BY <1>2, <1>3 DEF StrictSubsetOrdering
<1> QED
  BY <1>3

\* There is a least number.
LEMMA LeastNumber ==
  ASSUME NEW T, T \subseteq Nat, T # {}
  PROVE  \E n \in T : \A m \in T : n <= m
<1>1. PICK k \in T : TRUE
  OBVIOUS
<1> DEFINE B == {1 .. m : m \in {l \in T : l <= k}}
           C == 1 .. k
<1>2. k \in Nat /\ IsFiniteSet(C)
  BY <1>1, FS_Interval
<1>3. B # {} /\ B \subseteq SUBSET C
  BY <1>2
<1>4. PICK s \in B : \A t \in B : t \subseteq s => t = s
  <2> HIDE DEF B, C
  <2> QED
    BY <1>2, <1>3, SmallestSet
<1>5. PICK n \in T : n <= k /\ s = 1 .. n
  BY <1>4
<1>6. ASSUME NEW m \in T, m < n PROVE FALSE
  <2>1. m \in Nat /\ n \in Nat /\ m <= k
    BY <1>2, <1>5, <1>6
  <2>2. 1 .. m \in B /\ 1 .. m \subseteq 1 .. n
    BY <1>6, <2>1
  <2>3. 1 .. m = 1 .. n
    BY <1>4, <1>5, <2>2
  <2>4. n \in 1 .. n /\ n \notin 1 .. m
    BY <1>6, <2>1
  <2> QED
    BY <2>3, <2>4
<1> QED
  BY <1>5, <1>6

\* Min is the least member of a set of numbers.
LEMMA MinProperties ==
  ASSUME NEW S, S \subseteq Nat, S # {}
  PROVE  Min(S) \in S /\ \A m \in S : Min(S) <= m
<1>1. \E n \in S : \A m \in S : n <= m
  BY LeastNumber
<1> QED
  BY <1>1 DEF Min

\* The same of the greatest member, where there is a bound.
LEMMA MaxProperties ==
  ASSUME NEW S, S \subseteq Nat, S # {}, NEW k \in Nat, \A m \in S : m <= k
  PROVE  Max(S) \in S /\ \A m \in S : m <= Max(S)
<1> DEFINE T == {k - m : m \in S}
<1>1. T \subseteq Nat /\ T # {}
  <2>1. ASSUME NEW m \in S PROVE k - m \in Nat
    <3>1. m \in Nat /\ m <= k
      OBVIOUS
    <3> QED
      BY <3>1
  <2> QED
    BY <2>1
<1>2. PICK n \in T : \A m \in T : n <= m
  <2> HIDE DEF T
  <2> QED
    BY <1>1, LeastNumber
<1>3. PICK x \in S : n = k - x
  BY <1>2
<1>4. \A m \in S : x >= m
  <2> TAKE m \in S
  <2>1. k - x <= k - m /\ x \in Nat /\ m \in Nat
    BY <1>2, <1>3
  <2> QED
    BY <2>1
<1>5. \E y \in S : \A m \in S : y >= m
  BY <1>4
<1>6. Max(S) \in S /\ \A m \in S : Max(S) >= m
  BY <1>5 DEF Max
<1> QED
  BY <1>6

-----------------------------------------------------------------------------
(* Sums *)

\* As many elements for each x of s as w[x] says, and how many that makes.
Units(w, s)  == UNION {{x} \X (1 .. w[x]) : x \in s}
Volume(w, s) == Cardinality(Units(w, s))

\* The element that a fold takes first, and what MapThenSumSet unfolds to: the sums
\* of w over all subsets of S.
First(s) == CHOOSE x \in s : TRUE
SumsUp(w, S, g) ==
  g = [s \in SUBSET S |-> IF s = {} THEN 0 ELSE w[First(s)] + g[s \ {First(s)}]]

\* Nothing has no units.
LEMMA UnitsEmpty ==
  ASSUME NEW w
  PROVE  Units(w, {}) = {} /\ IsFiniteSet(Units(w, {})) /\ Volume(w, {}) = 0
  BY FS_EmptySet DEF Units, Volume

\* The units of two sets are those of the one and of the other.
LEMMA UnitsUnion ==
  ASSUME NEW w, NEW s, NEW t
  PROVE  /\ Units(w, s \cup t) = Units(w, s) \cup Units(w, t)
         /\ s \cap t = {} => Units(w, s) \cap Units(w, t) = {}
  BY DEF Units

\* One element has as many units as it is given.
LEMMA UnitsOne ==
  ASSUME NEW w, NEW x, w[x] \in Nat
  PROVE  IsFiniteSet(Units(w, {x})) /\ Volume(w, {x}) = w[x]
<1>0. PICK n \in Nat : n = w[x]
  OBVIOUS
<1>1. IsFiniteSet({x}) /\ Cardinality({x}) = 1
  BY FS_Singleton
<1>2. IsFiniteSet(1 .. n) /\ Cardinality(1 .. n) = n
  BY FS_Interval
<1>3. IsFiniteSet({x} \X (1 .. n)) /\ Cardinality({x} \X (1 .. n)) = Cardinality({x}) * Cardinality(1 .. n)
  BY <1>1, <1>2, FS_Product
<1>4. Units(w, {x}) = {x} \X (1 .. n)
  BY <1>0 DEF Units
<1>5. Cardinality({x} \X (1 .. n)) = n
  BY <1>1, <1>2, <1>3
<1> QED
  BY <1>0, <1>3, <1>4, <1>5 DEF Volume

\* The volume of a finite set is a number.
LEMMA UnitsFinite ==
  ASSUME NEW S, IsFiniteSet(S), NEW w, \A x \in S : w[x] \in Nat
  PROVE  IsFiniteSet(Units(w, S)) /\ Volume(w, S) \in Nat
<1> DEFINE T == {s \in SUBSET S : ~IsFiniteSet(Units(w, s))}
<1>1. ASSUME T # {} PROVE FALSE
  <2>1. PICK s \in T : \A t \in T : t \subseteq s => t = s
    <3>1. T \subseteq SUBSET S
      OBVIOUS
    <3> HIDE DEF T
    <3> QED
      BY <1>1, <3>1, SmallestSet
  <2>2. PICK x \in s : TRUE
    BY <2>1, UnitsEmpty
  <2>3. s \ {x} \notin T /\ s \ {x} \in SUBSET S
    BY <2>1, <2>2
  <2>4. IsFiniteSet(Units(w, s \ {x})) /\ s = (s \ {x}) \cup {x}
    BY <2>2, <2>3
  <2>5. IsFiniteSet(Units(w, {x}))
    BY <2>1, <2>2, UnitsOne
  <2>6. Units(w, s) = Units(w, s \ {x}) \cup Units(w, {x})
    BY <2>4, UnitsUnion
  <2> DEFINE A == Units(w, s \ {x})
             B == Units(w, {x})
  <2>7. IsFiniteSet(A \cup B)
    <3> HIDE DEF A, B
    <3> QED
      BY <2>4, <2>5, FS_Union DEF A, B
  <2> QED
    BY <2>1, <2>6, <2>7
<1>2. IsFiniteSet(Units(w, S))
  BY <1>1
<1> QED
  BY <1>2, FS_CardinalityType DEF Volume

\* The volumes of two sets that have nothing in common add up.
LEMMA VolumeUnion ==
  ASSUME NEW s, IsFiniteSet(s), NEW t, IsFiniteSet(t), s \cap t = {},
         NEW w, \A x \in s \cup t : w[x] \in Nat
  PROVE  /\ Volume(w, s \cup t) = Volume(w, s) + Volume(w, t)
         /\ Volume(w, s) \in Nat /\ Volume(w, t) \in Nat
<1> DEFINE A == Units(w, s)
           B == Units(w, t)
<1>1. IsFiniteSet(A) /\ IsFiniteSet(B) /\ Cardinality(A) \in Nat /\ Cardinality(B) \in Nat
  BY UnitsFinite DEF Volume
<1>2. Units(w, s \cup t) = A \cup B /\ A \cap B = {}
  BY UnitsUnion
<1> HIDE DEF A, B
<1>3. Cardinality(A \cup B) = Cardinality(A) + Cardinality(B) - Cardinality(A \cap B)
  BY <1>1, FS_Union
<1>4. Cardinality(A \cap B) = 0
  BY <1>2, FS_EmptySet
<1>5. Cardinality(A \cup B) = Cardinality(A) + Cardinality(B)
  BY <1>1, <1>3, <1>4
<1> QED
  BY <1>1, <1>2, <1>5 DEF A, B, Volume

\* A set has the volume of one of its elements and of the others.
LEMMA VolumeAdd ==
  ASSUME NEW S, IsFiniteSet(S), NEW w, \A y \in S : w[y] \in Nat, NEW x \in S
  PROVE  Volume(w, S) = w[x] + Volume(w, S \ {x}) /\ Volume(w, S \ {x}) \in Nat
<1>1. S = (S \ {x}) \cup {x} /\ (S \ {x}) \cap {x} = {}
  OBVIOUS
<1>2. IsFiniteSet(S \ {x}) /\ IsFiniteSet({x})
  BY FS_RemoveElement, FS_Singleton
<1>3. Volume(w, S) = Volume(w, S \ {x}) + Volume(w, {x}) /\ Volume(w, S \ {x}) \in Nat
  BY <1>1, <1>2, VolumeUnion
<1>4. Volume(w, {x}) = w[x] /\ w[x] \in Nat
  BY UnitsOne
<1> QED
  BY <1>3, <1>4

\* A part of a set has no more volume than the set.
LEMMA VolumeSubset ==
  ASSUME NEW S, IsFiniteSet(S), NEW w, \A x \in S : w[x] \in Nat, NEW T \in SUBSET S
  PROVE  Volume(w, T) <= Volume(w, S) /\ Volume(w, T) \in Nat /\ Volume(w, S) \in Nat
<1>1. IsFiniteSet(T) /\ IsFiniteSet(S \ T)
  BY FS_Subset, FS_Difference
<1>2. T \cap (S \ T) = {} /\ T \cup (S \ T) = S
  OBVIOUS
<1>3. Volume(w, T \cup (S \ T)) = Volume(w, T) + Volume(w, S \ T)
      /\ Volume(w, T) \in Nat /\ Volume(w, S \ T) \in Nat
  BY <1>1, <1>2, VolumeUnion
<1>4. Volume(w, S) = Volume(w, T) + Volume(w, S \ T)
  BY <1>2, <1>3
<1> QED
  BY <1>3, <1>4

\* What two functions give each element, their sum gives the set.
LEMMA VolumeSum ==
  ASSUME NEW S, IsFiniteSet(S), NEW u, NEW v, NEW w,
         \A x \in S : v[x] \in Nat /\ w[x] \in Nat /\ u[x] = v[x] + w[x]
  PROVE  Volume(u, S) = Volume(v, S) + Volume(w, S)
<1> DEFINE T == {s \in SUBSET S : Volume(u, s) # Volume(v, s) + Volume(w, s)}
<1>1. ASSUME T # {} PROVE FALSE
  <2>1. PICK s \in T : \A t \in T : t \subseteq s => t = s
    <3>1. T \subseteq SUBSET S
      OBVIOUS
    <3> HIDE DEF T
    <3> QED
      BY <1>1, <3>1, SmallestSet
  <2>2. Volume(u, {}) = 0 /\ Volume(v, {}) = 0 /\ Volume(w, {}) = 0
    BY UnitsEmpty
  <2>3. s # {}
    <3>1. Volume(u, s) # Volume(v, s) + Volume(w, s)
      BY <2>1
    <3> HIDE DEF T
    <3> QED
      BY <2>2, <3>1
  <2>4. PICK x \in s : TRUE
    BY <2>3
  <2>5. IsFiniteSet(s) /\ s \ {x} \in SUBSET S /\ s \ {x} \notin T
    BY <2>1, <2>4, FS_Subset
  <2>6. \A y \in s : u[y] \in Nat /\ v[y] \in Nat /\ w[y] \in Nat
    BY <2>1
  <2>7. /\ Volume(u, s) = u[x] + Volume(u, s \ {x}) /\ Volume(u, s \ {x}) \in Nat
        /\ Volume(v, s) = v[x] + Volume(v, s \ {x}) /\ Volume(v, s \ {x}) \in Nat
        /\ Volume(w, s) = w[x] + Volume(w, s \ {x}) /\ Volume(w, s \ {x}) \in Nat
    BY <2>4, <2>5, <2>6, VolumeAdd
  <2>8. Volume(u, s \ {x}) = Volume(v, s \ {x}) + Volume(w, s \ {x})
    BY <2>5
  <2>9. u[x] = v[x] + w[x] /\ v[x] \in Nat /\ w[x] \in Nat
    BY <2>1, <2>4
  <2>10. Volume(u, s) = Volume(v, s) + Volume(w, s)
    BY <2>7, <2>8, <2>9
  <2> QED
    BY <2>1, <2>10
<1> QED
  BY <1>1

\* A set that has as many elements as another, and none that gives less than one
\* of the other, has as much volume.
LEMMA VolumeExchange ==
  ASSUME NEW A, IsFiniteSet(A), NEW B, IsFiniteSet(B), Cardinality(B) <= Cardinality(A),
         NEW w, \A x \in A \cup B : w[x] \in Nat, \A a \in A, b \in B : w[b] <= w[a]
  PROVE  Volume(w, B) <= Volume(w, A)
<1> DEFINE Worse(a, b) == Cardinality(b) <= Cardinality(a) /\ Volume(w, a) < Volume(w, b)
           T == {b \in SUBSET B : \E a \in SUBSET A : Worse(a, b)}
<1>1. ASSUME T # {} PROVE FALSE
  <2>1. PICK b \in T : \A t \in T : t \subseteq b => t = b
    <3>1. T \subseteq SUBSET B
      OBVIOUS
    <3> HIDE DEF T
    <3> QED
      BY <1>1, <3>1, SmallestSet
  <2>2. PICK a \in SUBSET A : Worse(a, b)
    BY <2>1
  <2>3. IsFiniteSet(a) /\ IsFiniteSet(b) /\ b \in SUBSET B
    BY <2>1, FS_Subset
  <2>4. Cardinality(a) \in Nat /\ Cardinality(b) \in Nat
    BY <2>3, FS_CardinalityType
  <2>5. \A x \in a \cup b : w[x] \in Nat
    BY <2>3
  <2>6. Volume(w, a) \in Nat /\ Volume(w, b) \in Nat
    BY <2>3, <2>5, UnitsFinite
  <2>7. b # {}
    BY <2>2, <2>6, UnitsEmpty
  <2>8. a # {}
    <3>1. Cardinality(b) # 0
      BY <2>3, <2>7, FS_EmptySet
    <3>2. Cardinality(a) # 0
      BY <2>2, <2>4, <3>1
    <3> QED
      BY <3>2, FS_EmptySet
  <2>9. PICK x \in a, y \in b : TRUE
    BY <2>7, <2>8
  <2>10. /\ Volume(w, a) = w[x] + Volume(w, a \ {x}) /\ Volume(w, a \ {x}) \in Nat
         /\ Volume(w, b) = w[y] + Volume(w, b \ {y}) /\ Volume(w, b \ {y}) \in Nat
    BY <2>3, <2>5, <2>9, VolumeAdd
  <2>11. Cardinality(a \ {x}) = Cardinality(a) - 1 /\ Cardinality(b \ {y}) = Cardinality(b) - 1
    BY <2>3, <2>9, FS_RemoveElement
  <2>12. w[x] \in Nat /\ w[y] \in Nat /\ w[y] <= w[x]
    BY <2>3, <2>9
  <2>13. Cardinality(b \ {y}) <= Cardinality(a \ {x})
    BY <2>2, <2>4, <2>11
  <2>14. Volume(w, a \ {x}) < Volume(w, b \ {y})
    BY <2>2, <2>10, <2>12
  <2>15. b \ {y} \in T
    <3>1. a \ {x} \in SUBSET A /\ b \ {y} \in SUBSET B
      BY <2>3
    <3> QED
      BY <2>13, <2>14, <3>1
  <2> QED
    BY <2>1, <2>9, <2>15
<1>2. ~Worse(A, B)
  BY <1>1
<1>3. Volume(w, A) \in Nat /\ Volume(w, B) \in Nat
  BY UnitsFinite
<1> QED
  BY <1>2, <1>3

\* The recursion that a sum unfolds to has a solution ...
LEMMA SumExists ==
  ASSUME NEW S, IsFiniteSet(S), NEW w, \A x \in S : w[x] \in Nat
  PROVE  \E g : SumsUp(w, S, g)
<1> DEFINE g == [s \in SUBSET S |-> Volume(w, s)]
           pick(s) == First(s)
<1>1. ASSUME NEW s \in SUBSET S
      PROVE  Volume(w, s) = IF s = {} THEN 0 ELSE w[pick(s)] + g[s \ {pick(s)}]
  <2>1. CASE s = {}
    BY <2>1, UnitsEmpty
  <2>2. CASE s # {}
    <3>1. pick(s) \in s /\ s \ {pick(s)} \in SUBSET S
      BY <2>2 DEF First
    <3>2. IsFiniteSet(s)
      BY FS_Subset
    <3> HIDE DEF pick
    <3>3. Volume(w, s) = w[pick(s)] + Volume(w, s \ {pick(s)})
      BY <3>1, <3>2, VolumeAdd
    <3> QED
      BY <2>2, <3>1, <3>3
  <2> QED
    BY <2>1, <2>2
<1>2. SumsUp(w, S, g)
  BY <1>1 DEF SumsUp
<1> QED
  BY <1>2

\* ... and every solution gives the volume.
LEMMA SumIsVolume ==
  ASSUME NEW S, IsFiniteSet(S), NEW w, \A x \in S : w[x] \in Nat, NEW g, SumsUp(w, S, g)
  PROVE  g[S] = Volume(w, S)
<1> DEFINE T == {s \in SUBSET S : g[s] # Volume(w, s)}
           pick(s) == First(s)
<1>1. ASSUME T # {} PROVE FALSE
  <2>1. PICK s \in T : \A t \in T : t \subseteq s => t = s
    <3>1. T \subseteq SUBSET S
      OBVIOUS
    <3> HIDE DEF T
    <3> QED
      BY <1>1, <3>1, SmallestSet
  <2>2. g[s] = IF s = {} THEN 0 ELSE w[pick(s)] + g[s \ {pick(s)}]
    BY <2>1 DEF SumsUp
  <2>3. s # {}
    BY <2>1, <2>2, UnitsEmpty
  <2>4. pick(s) \in s
    BY <2>3 DEF First
  <2> HIDE DEF pick
  <2>5. s \ {pick(s)} \in SUBSET S /\ s \ {pick(s)} \notin T
    BY <2>1, <2>4
  <2>6. IsFiniteSet(s) /\ \A y \in s : w[y] \in Nat
    BY <2>1, FS_Subset
  <2>7. Volume(w, s) = w[pick(s)] + Volume(w, s \ {pick(s)})
    BY <2>4, <2>6, VolumeAdd
  <2>8. g[s \ {pick(s)}] = Volume(w, s \ {pick(s)})
    BY <2>5
  <2> QED
    BY <2>1, <2>2, <2>3, <2>7, <2>8
<1> QED
  BY <1>1

-----------------------------------------------------------------------------
(* Positions and tokens *)

\* A prompt has finitely many positions, and at each of them a contribution.
LEMMA PositionFacts ==
  ASSUME NEW c \in Seq(Contribution)
  PROVE  /\ Positions(c) = 1 .. Len(c) /\ Positions(c) \subseteq Nat
         /\ IsFiniteSet(Positions(c))
         /\ \A S \in SUBSET Positions(c) : IsFiniteSet(S)
         /\ \A i \in Positions(c) : c[i] \in Contribution /\ c[i].tokens \in Nat
<1>1. Positions(c) = 1 .. Len(c) /\ Len(c) \in Nat
  BY DEF Positions
<1>2. IsFiniteSet(Positions(c))
  BY <1>1, FS_Interval
<1>3. \A S \in SUBSET Positions(c) : IsFiniteSet(S)
  BY <1>2, FS_Subset
<1>4. \A i \in Positions(c) : c[i] \in Contribution
  BY <1>1
<1> QED
  BY <1>1, <1>2, <1>3, <1>4 DEF Contribution

\* The tokens of each position.
Weights(c) == [i \in Positions(c) |-> c[i].tokens]

\* Tokens is a volume: of the weights.
LEMMA TokensVolume ==
  ASSUME NEW c \in Seq(Contribution), NEW S \in SUBSET Positions(c)
  PROVE  Tokens(c, S) = Volume(Weights(c), S) /\ Tokens(c, S) \in Nat
<1> DEFINE w == Weights(c)
<1>1. IsFiniteSet(S) /\ \A x \in S : w[x] \in Nat /\ w[x] = c[x].tokens
  BY PositionFacts DEF Weights
<1>2. PICK g : SumsUp(w, S, g)
  BY <1>1, SumExists
<1>3. g = [s \in SUBSET S |->
             IF s = {} THEN 0
             ELSE c[First(s)].tokens + g[s \ {First(s)}]]
  <2>1. \A s \in SUBSET S : s # {} => w[First(s)] = c[First(s)].tokens
    BY <1>1 DEF First
  <2> QED
    BY <1>2, <2>1 DEF SumsUp
<1>4. \E f : /\ f = [s \in SUBSET S |->
                       IF s = {} THEN 0
                       ELSE c[First(s)].tokens + f[s \ {First(s)}]]
             /\ Tokens(c, S) = f[S]
  BY <1>3 DEF Tokens, MapThenSumSet, MapThenFoldSet, First
<1>5. PICK f : /\ f = [s \in SUBSET S |->
                         IF s = {} THEN 0
                         ELSE c[First(s)].tokens + f[s \ {First(s)}]]
               /\ Tokens(c, S) = f[S]
  BY <1>4
<1>6. SumsUp(w, S, f)
  <2>1. \A s \in SUBSET S : s # {} => w[First(s)] = c[First(s)].tokens
    BY <1>1 DEF First
  <2> QED
    BY <1>5, <2>1 DEF SumsUp
<1>7. f[S] = Volume(w, S) /\ Volume(w, S) \in Nat
  BY <1>1, <1>6, SumIsVolume, UnitsFinite
<1> QED
  BY <1>5, <1>7

\* The tokens of two parts of a prompt that have nothing in common add up.
LEMMA TokensUnion ==
  ASSUME NEW c \in Seq(Contribution),
         NEW S \in SUBSET Positions(c), NEW T \in SUBSET Positions(c), S \cap T = {}
  PROVE  Tokens(c, S \cup T) = Tokens(c, S) + Tokens(c, T)
<1> DEFINE w == Weights(c)
<1>1. IsFiniteSet(S) /\ IsFiniteSet(T) /\ \A x \in S \cup T : w[x] \in Nat
  BY PositionFacts DEF Weights
<1>2. Volume(w, S \cup T) = Volume(w, S) + Volume(w, T)
  BY <1>1, VolumeUnion
<1>3. S \cup T \in SUBSET Positions(c)
  OBVIOUS
<1> QED
  BY <1>2, <1>3, TokensVolume

\* A part of a part of the prompt has no more tokens.
LEMMA TokensSubset ==
  ASSUME NEW c \in Seq(Contribution), NEW S \in SUBSET Positions(c), NEW T \in SUBSET S
  PROVE  Tokens(c, T) <= Tokens(c, S)
<1> DEFINE w == Weights(c)
<1>1. IsFiniteSet(S) /\ \A x \in S : w[x] \in Nat
  BY PositionFacts DEF Weights
<1>2. Volume(w, T) <= Volume(w, S)
  BY <1>1, VolumeSubset
<1>3. T \in SUBSET Positions(c)
  OBVIOUS
<1> QED
  BY <1>2, <1>3, TokensVolume

\* No positions, no tokens.
LEMMA TokensEmpty ==
  ASSUME NEW c \in Seq(Contribution)
  PROVE  Tokens(c, {}) = 0
  BY TokensVolume, UnitsEmpty

-----------------------------------------------------------------------------
(* Groups *)

\* Groups are parts of the prompt that have nothing in common, and each position
\* is in the group it has.
LEMMA GroupFacts ==
  ASSUME NEW c \in Seq(Contribution)
  PROVE  /\ \A i \in Positions(c) : i \in GroupOf(c, i) /\ GroupOf(c, i) \in Groups(c)
         /\ \A g \in Groups(c) : g \subseteq Positions(c) /\ g # {}
         /\ \A g \in Groups(c) : \A i \in g : g = GroupOf(c, i)
         /\ \A f, g \in Groups(c) : f # g => f \cap g = {}
         /\ \A i, j \in Positions(c) :
              c[i].group # None /\ c[i].group = c[j].group => GroupOf(c, i) = GroupOf(c, j)
<1>1. \A i \in Positions(c) : i \in GroupOf(c, i) /\ GroupOf(c, i) \in Groups(c)
  BY DEF GroupOf, Groups
<1>2. \A g \in Groups(c) : g \subseteq Positions(c) /\ g # {}
  BY <1>1 DEF GroupOf, Groups
<1>3. \A g \in Groups(c) : \A i \in g : g = GroupOf(c, i)
  <2> TAKE g \in Groups(c)
  <2> TAKE i \in g
  <2>1. PICK j \in Positions(c) : g = GroupOf(c, j)
    BY DEF Groups
  <2>2. CASE c[j].group = None
    BY <2>1, <2>2 DEF GroupOf
  <2>3. CASE c[j].group # None
    <3>1. c[i].group = c[j].group
      BY <2>1, <2>3 DEF GroupOf
    <3> QED
      BY <2>1, <2>3, <3>1 DEF GroupOf
  <2> QED
    BY <2>2, <2>3
<1>4. \A f, g \in Groups(c) : f # g => f \cap g = {}
  BY <1>3
<1>5. \A i, j \in Positions(c) :
        c[i].group # None /\ c[i].group = c[j].group => GroupOf(c, i) = GroupOf(c, j)
  BY DEF GroupOf
<1> QED
  BY <1>1, <1>2, <1>3, <1>4, <1>5

\* The first position of a group is in it, so that different groups have
\* different ones.
LEMMA FirstPositions ==
  ASSUME NEW c \in Seq(Contribution)
  PROVE  /\ \A g \in Groups(c) : Min(g) \in g /\ Min(g) \in Nat /\ \A i \in g : Min(g) <= i
         /\ \A f, g \in Groups(c) : Min(f) = Min(g) => f = g
         /\ IsFiniteSet(Groups(c)) /\ \A G \in SUBSET Groups(c) : IsFiniteSet(G)
<1>1. \A g \in Groups(c) : Min(g) \in g /\ Min(g) \in Nat /\ \A i \in g : Min(g) <= i
  <2> TAKE g \in Groups(c)
  <2>1. g \subseteq Nat /\ g # {}
    BY GroupFacts, PositionFacts
  <2> QED
    BY <2>1, MinProperties
<1>2. \A f, g \in Groups(c) : Min(f) = Min(g) => f = g
  BY <1>1, GroupFacts
<1>3. Groups(c) \subseteq SUBSET Positions(c) /\ IsFiniteSet(SUBSET Positions(c))
  BY GroupFacts, PositionFacts, FS_SUBSET
<1>4. IsFiniteSet(Groups(c))
  BY <1>3, FS_Subset
<1>5. \A G \in SUBSET Groups(c) : IsFiniteSet(G)
  BY <1>4, FS_Subset
<1> QED
  BY <1>1, <1>2, <1>4, <1>5

\* What each group saves.
GroupWeights(c) == [g \in Groups(c) |-> Tokens(c, g)]

\* What groups save together is the volume of what each of them does.
LEMMA SavingsVolume ==
  ASSUME NEW c \in Seq(Contribution), NEW G \in SUBSET Groups(c)
  PROVE  Savings(c, G) = Volume(GroupWeights(c), G) /\ Savings(c, G) \in Nat
<1> DEFINE w == GroupWeights(c)
           T == {H \in SUBSET G : Savings(c, H) # Volume(w, H)}
<1>1. IsFiniteSet(G) /\ \A g \in G : w[g] \in Nat /\ w[g] = Tokens(c, g)
  <2>1. \A g \in Groups(c) : g \in SUBSET Positions(c)
    BY GroupFacts
  <2> QED
    BY <2>1, FirstPositions, TokensVolume DEF GroupWeights
<1>2. \A H \in SUBSET G : UNION H \in SUBSET Positions(c)
  BY GroupFacts
<1>3. ASSUME T # {} PROVE FALSE
  <2>1. PICK H \in T : \A K \in T : K \subseteq H => K = H
    <3>1. T \subseteq SUBSET G
      OBVIOUS
    <3> HIDE DEF T
    <3> QED
      BY <1>1, <1>3, <3>1, SmallestSet
  <2>2. H # {}
    BY <2>1, UnitsEmpty, TokensEmpty DEF Savings
  <2>3. PICK g \in H : TRUE
    BY <2>2
  <2> DEFINE K == H \ {g}
  <2>4. K \in SUBSET G /\ K \notin T /\ H \in SUBSET G /\ IsFiniteSet(H)
    BY <1>1, <2>1, <2>3, FS_Subset
  <2>5. Savings(c, K) = Volume(w, K)
    BY <2>4
  <2>6. UNION H = g \cup UNION K /\ g \cap UNION K = {}
    <3>1. \A f \in K : f \cap g = {}
      BY <2>3, <2>4, GroupFacts
    <3> QED
      BY <2>3, <3>1
  <2>7. g \in SUBSET Positions(c) /\ UNION K \in SUBSET Positions(c)
    BY <1>2, <2>3, <2>4, GroupFacts
  <2>8. Tokens(c, UNION H) = Tokens(c, g) + Tokens(c, UNION K)
    BY <2>6, <2>7, TokensUnion
  <2>9. Volume(w, H) = w[g] + Volume(w, K)
    BY <1>1, <2>3, <2>4, VolumeAdd
  <2>10. Savings(c, H) = Volume(w, H)
    BY <1>1, <2>3, <2>4, <2>5, <2>8, <2>9 DEF Savings
  <2> QED
    BY <2>1, <2>10
<1>4. Savings(c, G) = Volume(w, G)
  BY <1>3
<1> QED
  BY <1>2, <1>4, TokensVolume DEF Savings

\* More groups save no less.
LEMMA SavingsSubset ==
  ASSUME NEW c \in Seq(Contribution), NEW G \in SUBSET Groups(c), NEW H \in SUBSET G
  PROVE  Savings(c, H) <= Savings(c, G)
<1>1. UNION G \in SUBSET Positions(c) /\ UNION H \in SUBSET UNION G
  BY GroupFacts
<1> QED
  BY <1>1, TokensSubset DEF Savings

-----------------------------------------------------------------------------
(* Selection *)

\* The time of the oldest member of a group is a number.
LEMMA OldestType ==
  ASSUME NEW c \in Seq(Contribution), NEW g \in Groups(c)
  PROVE  Oldest(c, g) \in Nat
<1> DEFINE known == {c[i].created : i \in g} \ {None}
<1>1. known \subseteq Nat
  <2>1. \A i \in g : c[i] \in Contribution
    BY GroupFacts, PositionFacts
  <2>2. \A i \in g : c[i].created \in Nat \cup {None}
    BY <2>1 DEF Contribution
  <2> QED
    BY <2>2
<1>2. CASE known = {}
  BY <1>2 DEF Oldest
<1>3. CASE known # {}
  <2>1. Min(known) \in Nat
    <3> HIDE DEF known
    <3> QED
      BY <1>1, <1>3, MinProperties
  <2> QED
    BY <1>3, <2>1 DEF Oldest
<1> QED
  BY <1>2, <1>3

\* The order in which groups are gone through is a strict total order.
LEMMA BeforeOrder ==
  ASSUME NEW c \in Seq(Contribution)
  PROVE  /\ \A g \in Groups(c) : ~Before(c, g, g)
         /\ \A f, g, h \in Groups(c) : Before(c, f, g) /\ Before(c, g, h) => Before(c, f, h)
         /\ \A f, g \in Groups(c) : f = g \/ Before(c, f, g) \/ Before(c, g, f)
         /\ \A f, g \in Groups(c) : Before(c, f, g) => Tokens(c, g) <= Tokens(c, f)
         /\ \A f, g \in Groups(c) : ~Before(c, f, g) => Tokens(c, f) <= Tokens(c, g)
<1>1. \A g \in Groups(c) : Tokens(c, g) \in Nat /\ Oldest(c, g) \in Nat /\ Min(g) \in Nat
  BY GroupFacts, TokensVolume, OldestType, FirstPositions
<1>2. \A f, g \in Groups(c) : Min(f) = Min(g) => f = g
  BY FirstPositions
<1> QED
  BY <1>1, <1>2 DEF Before

\* The groups of late that come before g.
Earlier(c, late, g) == {f \in late : Before(c, f, g)}

\* As many groups as it takes, in order: they reach what all of them reach.
LEMMA TakenReach ==
  ASSUME NEW c \in Seq(Contribution), NEW late \in SUBSET Groups(c), NEW n \in Nat,
         Savings(c, late) >= n,
         NEW O, O = {g \in late : Savings(c, Earlier(c, late, g)) < n}
  PROVE  Savings(c, O) >= n
<1>1. ASSUME ~(Savings(c, O) >= n) PROVE FALSE
  <2> DEFINE T == {Earlier(c, late, g) : g \in late \ O}
  <2>1. O \in SUBSET late /\ Savings(c, O) < n
    BY <1>1, SavingsVolume
  <2>2. late \ O # {}
    BY <1>1, <2>1
  <2>3. PICK s \in T : \A t \in T : t \subseteq s => t = s
    <3>1. \A g \in late : Earlier(c, late, g) \in SUBSET late
      BY DEF Earlier
    <3>2. T \subseteq SUBSET late
      BY <3>1, Zenon
    <3>3. T # {}
      BY <2>2, Zenon
    <3>4. IsFiniteSet(late)
      BY FirstPositions
    <3> HIDE DEF T
    <3> QED
      BY <3>2, <3>3, <3>4, SmallestSet
  <2>4. PICK g \in late \ O : s = Earlier(c, late, g)
    BY <2>3
  <2>5. Earlier(c, late, g) \subseteq O
    <3>1. ASSUME NEW f \in Earlier(c, late, g), f \notin O PROVE FALSE
      <4>1. f \in late \ O /\ Before(c, f, g)
        BY <3>1 DEF Earlier
      <4>2. Earlier(c, late, f) \subseteq Earlier(c, late, g)
        BY <4>1, BeforeOrder DEF Earlier
      <4>3. Earlier(c, late, f) = Earlier(c, late, g)
        BY <2>3, <2>4, <4>1, <4>2
      <4>4. f \notin Earlier(c, late, f)
        BY <4>1, BeforeOrder DEF Earlier
      <4> QED
        BY <3>1, <4>3, <4>4
    <3> QED
      BY <3>1
  <2>6. Savings(c, Earlier(c, late, g)) < n
    <3>1. O \in SUBSET Groups(c) /\ Earlier(c, late, g) \in SUBSET O
          /\ Earlier(c, late, g) \in SUBSET Groups(c)
      BY <2>1, <2>5
    <3>2. Savings(c, Earlier(c, late, g)) <= Savings(c, O)
      BY <3>1, SavingsSubset
    <3> QED
      BY <2>1, <3>1, <3>2, SavingsVolume
  <2> QED
    BY <2>4, <2>6
<1> QED
  BY <1>1

\* As many groups, or fewer, save no more than those that are larger than the rest.
LEMMA LargestSaveMost ==
  ASSUME NEW c \in Seq(Contribution), NEW late \in SUBSET Groups(c),
         NEW A \in SUBSET late, NEW S \in SUBSET late,
         Cardinality(S) <= Cardinality(A),
         \A a \in A, b \in late \ A : Tokens(c, b) <= Tokens(c, a)
  PROVE  Savings(c, S) <= Savings(c, A)
<1> DEFINE w == GroupWeights(c)
<1>1. /\ A \in SUBSET Groups(c) /\ S \in SUBSET Groups(c)
      /\ IsFiniteSet(A) /\ IsFiniteSet(S)
      /\ Cardinality(A) \in Nat /\ Cardinality(S) \in Nat
  BY FirstPositions, FS_CardinalityType
<1>2. \A g \in Groups(c) : w[g] \in Nat /\ w[g] = Tokens(c, g)
  BY GroupFacts, TokensVolume DEF GroupWeights
<1>3. Cardinality(S \ A) <= Cardinality(A \ S)
  <2>1. Cardinality(S \ A) = Cardinality(S) - Cardinality(S \cap A)
    BY <1>1, FS_Difference
  <2>2. Cardinality(A \ S) = Cardinality(A) - Cardinality(A \cap S)
    BY <1>1, FS_Difference
  <2>3. A \cap S = S \cap A /\ IsFiniteSet(S \cap A)
    BY <1>1, FS_Subset
  <2> DEFINE both == Cardinality(S \cap A)
  <2>4. Cardinality(A) \in Nat /\ both \in Nat /\ Cardinality(A \cap S) = both
    BY <1>1, <2>3, FS_CardinalityType
  <2> HIDE DEF both
  <2>5. Cardinality(S \ A) = Cardinality(S) - both /\ Cardinality(A \ S) = Cardinality(A) - both
    BY <2>1, <2>2, <2>4 DEF both
  <2> QED
    BY <1>1, <2>4, <2>5
<1>4. \A a \in A \ S, b \in S \ A : w[b] <= w[a]
  BY <1>1, <1>2
<1>5. Volume(w, S \ A) <= Volume(w, A \ S)
  <2>1. IsFiniteSet(S \ A) /\ IsFiniteSet(A \ S) /\ \A x \in (A \ S) \cup (S \ A) : w[x] \in Nat
    BY <1>1, <1>2, FS_Difference
  <2> QED
    BY <1>3, <1>4, <2>1, VolumeExchange
<1>6. /\ Volume(w, S) = Volume(w, S \ A) + Volume(w, S \cap A)
      /\ Volume(w, A) = Volume(w, A \ S) + Volume(w, S \cap A)
      /\ {Volume(w, S \ A), Volume(w, A \ S), Volume(w, S \cap A)} \subseteq Nat
  <2> DEFINE B == S \ A
             C == A \ S
             D == S \cap A
  <2>1. /\ IsFiniteSet(B) /\ IsFiniteSet(C) /\ IsFiniteSet(D)
        /\ \A x \in B \cup D : w[x] \in Nat
        /\ \A x \in C \cup D : w[x] \in Nat
    BY <1>1, <1>2, FS_Difference, FS_Intersection
  <2>2. S = B \cup D /\ B \cap D = {} /\ A = C \cup D /\ C \cap D = {}
    OBVIOUS
  <2> HIDE DEF B, C, D, w
  <2>3. Volume(w, B \cup D) = Volume(w, B) + Volume(w, D)
        /\ Volume(w, B) \in Nat /\ Volume(w, D) \in Nat
    BY <2>1, <2>2, VolumeUnion
  <2>4. Volume(w, C \cup D) = Volume(w, C) + Volume(w, D) /\ Volume(w, C) \in Nat
    BY <2>1, <2>2, VolumeUnion
  <2>5. /\ Volume(w, S) = Volume(w, B) + Volume(w, D)
        /\ Volume(w, A) = Volume(w, C) + Volume(w, D)
    BY <2>2, <2>3, <2>4
  <2> QED
    BY <2>3, <2>4, <2>5 DEF B, C, D
<1>7. Volume(w, S) <= Volume(w, A)
  BY <1>5, <1>6
<1>8. Savings(c, S) = Volume(w, S) /\ Savings(c, A) = Volume(w, A)
       /\ Savings(c, S) \in Nat /\ Savings(c, A) \in Nat
  BY <1>1, SavingsVolume
<1> QED
  BY <1>7, <1>8

\* No fewer of them would do.
LEMMA TakenFewest ==
  ASSUME NEW c \in Seq(Contribution), NEW late \in SUBSET Groups(c), NEW n \in Nat,
         NEW O, O = {g \in late : Savings(c, Earlier(c, late, g)) < n},
         NEW S \in SUBSET late, Savings(c, S) >= n
  PROVE  Cardinality(S) >= Cardinality(O)
<1>1. /\ O \in SUBSET late /\ O \in SUBSET Groups(c) /\ S \in SUBSET Groups(c)
      /\ IsFiniteSet(O) /\ IsFiniteSet(S) /\ IsFiniteSet(late)
      /\ Cardinality(O) \in Nat /\ Cardinality(S) \in Nat
  BY FirstPositions, FS_CardinalityType
<1>2. ASSUME Cardinality(S) < Cardinality(O) PROVE FALSE
  <2> DEFINE T == {late \ Earlier(c, late, g) : g \in O}
  <2>1. O # {}
    BY <1>1, <1>2, FS_EmptySet
  <2>2. PICK s \in T : \A t \in T : t \subseteq s => t = s
    <3>1. T \subseteq SUBSET late /\ T # {}
      BY <2>1
    <3> HIDE DEF T
    <3> QED
      BY <1>1, <3>1, SmallestSet
  <2>3. PICK g \in O : s = late \ Earlier(c, late, g)
    BY <2>2
  <2> DEFINE A == Earlier(c, late, g)
  <2>4. A \in SUBSET late /\ A \in SUBSET Groups(c) /\ IsFiniteSet(A)
    BY <1>1, FirstPositions DEF Earlier
  <2>5. O \ {g} \subseteq A
    <3>1. ASSUME NEW h \in O, Before(c, g, h) PROVE FALSE
      <4>1. Earlier(c, late, g) \subseteq Earlier(c, late, h)
        BY <1>1, <3>1, BeforeOrder DEF Earlier
      <4>2. late \ Earlier(c, late, h) = late \ Earlier(c, late, g)
        <5>1. late \ Earlier(c, late, h) \in T
          BY <3>1
        <5>2. late \ Earlier(c, late, h) \subseteq s
          BY <2>3, <4>1
        <5> QED
          BY <2>2, <2>3, <5>1, <5>2
      <4>3. g \in Earlier(c, late, h) /\ g \in late
        BY <1>1, <3>1 DEF Earlier
      <4>4. g \notin Earlier(c, late, g)
        BY <1>1, BeforeOrder DEF Earlier
      <4> QED
        BY <4>2, <4>3, <4>4
    <3> QED
      BY <1>1, <3>1, BeforeOrder DEF Earlier
  <2> HIDE DEF A
  <2>6. Cardinality(S) <= Cardinality(A)
    <3>1. Cardinality(O \ {g}) = Cardinality(O) - 1
      BY <1>1, FS_RemoveElement
    <3>2. Cardinality(O \ {g}) <= Cardinality(A) /\ Cardinality(A) \in Nat
      BY <2>4, <2>5, FS_Subset, FS_CardinalityType
    <3> QED
      BY <1>1, <1>2, <3>1, <3>2
  <2>7. \A a \in A, b \in late \ A : Tokens(c, b) <= Tokens(c, a)
    <3> TAKE a \in A, b \in late \ A
    <3>1. Before(c, a, g) /\ ~Before(c, b, g) /\ {a, b, g} \subseteq Groups(c)
      BY <1>1, <2>4 DEF A, Earlier
    <3>2. Tokens(c, g) <= Tokens(c, a) /\ Tokens(c, b) <= Tokens(c, g)
      BY <3>1, BeforeOrder
    <3>3. {Tokens(c, a), Tokens(c, b), Tokens(c, g)} \subseteq Nat
      BY <3>1, GroupFacts, TokensVolume
    <3> QED
      BY <3>2, <3>3
  <2>8. Savings(c, S) <= Savings(c, A) /\ Savings(c, S) \in Nat /\ Savings(c, A) \in Nat
    BY <1>1, <2>4, <2>6, <2>7, LargestSaveMost, SavingsVolume
  <2>9. Savings(c, A) < n
    BY <1>1 DEF A
  <2> QED
    BY <2>8, <2>9
<1> QED
  BY <1>1, <1>2

\* As many others save no more.
LEMMA TakenMost ==
  ASSUME NEW c \in Seq(Contribution), NEW late \in SUBSET Groups(c), NEW n \in Nat,
         NEW O, O = {g \in late : Savings(c, Earlier(c, late, g)) < n},
         NEW S \in SUBSET late, Cardinality(S) = Cardinality(O)
  PROVE  Savings(c, S) <= Savings(c, O)
<1>1. O \in SUBSET late
  OBVIOUS
<1>2. Cardinality(S) <= Cardinality(O)
  BY FirstPositions, FS_CardinalityType
<1>3. ASSUME NEW a \in O, NEW b \in late \ O PROVE Tokens(c, b) <= Tokens(c, a)
  <2>1. ASSUME Before(c, b, a) PROVE FALSE
    <3>1. Earlier(c, late, b) \in SUBSET Earlier(c, late, a)
          /\ Earlier(c, late, a) \in SUBSET Groups(c) /\ Earlier(c, late, b) \in SUBSET Groups(c)
      BY <1>3, <2>1, BeforeOrder DEF Earlier
    <3>2. Savings(c, Earlier(c, late, b)) <= Savings(c, Earlier(c, late, a))
      BY <3>1, SavingsSubset
    <3>3. Savings(c, Earlier(c, late, b)) < n
      BY <1>3, <3>1, <3>2, SavingsVolume
    <3> QED
      BY <1>3, <3>3
  <2> QED
    BY <1>3, <2>1, BeforeOrder
<1> QED
  BY <1>1, <1>2, <1>3, LargestSaveMost

\* The first position of some groups is that of the first of them.
LEMMA FirstOfGroups ==
  ASSUME NEW c \in Seq(Contribution), NEW S \in SUBSET Groups(c), S # {}
  PROVE  \E g \in S : Min(UNION S) = Min(g) /\ \A f \in S : Min(g) <= Min(f)
<1> DEFINE U == UNION S
<1>1. U \subseteq Nat /\ U # {} /\ \A i \in U : \E g \in S : i \in g
  BY GroupFacts, PositionFacts
<1>2. Min(U) \in U /\ \A i \in U : Min(U) <= i
  <2> HIDE DEF U
  <2> QED
    BY <1>1, MinProperties
<1>3. PICK g \in S : Min(U) \in g
  BY <1>1, <1>2
<1>4. \A f \in S : Min(f) \in f /\ Min(f) \in Nat /\ \A i \in f : Min(f) <= i
  BY FirstPositions
<1>5. \A f \in S : Min(f) \in U
  BY <1>4
<1>6. Min(U) \in Nat /\ Min(U) <= Min(g) /\ Min(g) <= Min(U)
  BY <1>1, <1>2, <1>3, <1>4, <1>5
<1>7. Min(U) = Min(g)
  BY <1>4, <1>6
<1>8. \A f \in S : Min(g) <= Min(f)
  BY <1>2, <1>5, <1>7
<1> QED
  BY <1>7, <1>8

\* What _optimal_subset takes of groups that reach the target: a part of them that
\* reaches it and starts as late as one can, with no fewer from there, and no larger
\* ones as few.
LEMMA OptimalSubsetFacts ==
  ASSUME NEW c \in Seq(Contribution), NEW gs \in SUBSET Groups(c), NEW n \in Nat \ {0},
         Savings(c, gs) >= n
  PROVE  LET O == OptimalSubset(c, gs, n)
         IN  /\ O \subseteq gs /\ O # {} /\ Savings(c, O) >= n
             /\ \A S \in SUBSET gs : Savings(c, S) >= n =>
                  /\ Min(UNION S) <= Min(UNION O)
                  /\ Min(UNION S) = Min(UNION O) =>
                       \/ Cardinality(S) > Cardinality(O)
                       \/ Cardinality(S) = Cardinality(O) /\ Savings(c, S) <= Savings(c, O)
<1> DEFINE Mins   == {Min(g) : g \in gs}
           Starts == {i \in Mins : Reaches(c, From(gs, i), n)}
           start  == Max(Starts)
           late   == From(gs, start)
           O      == {g \in late : Savings(c, Earlier(c, late, g)) < n}
<1>1. OptimalSubset(c, gs, n) = O
  BY DEF OptimalSubset, Earlier
<1>2. \A g \in gs : g \in Groups(c) /\ Min(g) \in g /\ Min(g) \in Nat
  BY FirstPositions
<1>3. \A H \in SUBSET gs : Savings(c, H) \in Nat /\ (Savings(c, H) >= n => H # {})
  <2> TAKE H \in SUBSET gs
  <2>1. H \in SUBSET Groups(c)
    OBVIOUS
  <2>2. Savings(c, H) \in Nat
    BY <2>1, SavingsVolume
  <2>3. ASSUME H = {} PROVE Savings(c, H) = 0
    BY <2>3, TokensEmpty DEF Savings
  <2> QED
    BY <2>2, <2>3
<1>4. ASSUME NEW S \in SUBSET gs, Savings(c, S) >= n
      PROVE  /\ Min(UNION S) \in Starts /\ S \subseteq From(gs, Min(UNION S))
             /\ Min(UNION S) \in Nat
  <2>1. S # {} /\ S \in SUBSET Groups(c)
    BY <1>3, <1>4
  <2>2. PICK g \in S : Min(UNION S) = Min(g) /\ \A f \in S : Min(g) <= Min(f)
    BY <2>1, FirstOfGroups
  <2>3. Min(g) \in Nat /\ \A f \in S : Min(f) \in Nat
    BY <1>2
  <2> DEFINE later == From(gs, Min(g))
  <2>4. S \in SUBSET later /\ later \in SUBSET Groups(c) /\ later \in SUBSET gs
    BY <2>2, <2>3 DEF From
  <2>5. Savings(c, S) <= Savings(c, later)
    BY <2>4, SavingsSubset
  <2>6. Reaches(c, later, n)
    BY <1>3, <1>4, <2>4, <2>5 DEF Reaches
  <2> QED
    BY <2>2, <2>3, <2>4, <2>6
<1>5. Starts \subseteq Nat /\ Starts # {} /\ \A m \in Starts : m <= Len(c)
  <2>1. \A g \in gs : Min(g) \in 1 .. Len(c)
    BY <1>2, GroupFacts, PositionFacts
  <2>2. Starts # {}
    BY <1>4
  <2>3. \A m \in Starts : m \in 1 .. Len(c)
    BY <2>1
  <2> QED
    BY <2>2, <2>3
<1>6. start \in Starts /\ \A m \in Starts : m <= start
  <2>1. Len(c) \in Nat
    OBVIOUS
  <2> HIDE DEF Starts
  <2> QED
    BY <1>5, <2>1, MaxProperties
<1>7. start \in Nat /\ late \in SUBSET gs /\ late \in SUBSET Groups(c) /\ Savings(c, late) >= n
  BY <1>5, <1>6 DEF From, Reaches
<1>8. O \in SUBSET late /\ Savings(c, O) >= n
  <2>1. O \in SUBSET late
    OBVIOUS
  <2> HIDE DEF late
  <2> QED
    BY <1>7, <2>1, TakenReach
<1>9. O \in SUBSET gs /\ O # {}
  BY <1>3, <1>7, <1>8
<1>10. Min(UNION O) = start
  <2>1. Min(UNION O) <= start /\ Min(UNION O) \in Nat
    BY <1>4, <1>6, <1>8, <1>9
  <2>2. PICK g \in O : Min(UNION O) = Min(g)
    BY <1>9, FirstOfGroups
  <2>3. g \in late
    BY <1>8, <2>2
  <2>4. start <= Min(g)
    BY <2>3 DEF From
  <2> QED
    BY <1>7, <2>1, <2>2, <2>4
<1>11. ASSUME NEW S \in SUBSET gs, Savings(c, S) >= n
       PROVE  /\ Min(UNION S) <= Min(UNION O)
              /\ Min(UNION S) = Min(UNION O) =>
                   \/ Cardinality(S) > Cardinality(O)
                   \/ Cardinality(S) = Cardinality(O) /\ Savings(c, S) <= Savings(c, O)
  <2>1. Min(UNION S) <= start
    BY <1>4, <1>6, <1>11
  <2>2. ASSUME Min(UNION S) = start
        PROVE  /\ Cardinality(S) >= Cardinality(O)
               /\ Cardinality(S) \in Nat /\ Cardinality(O) \in Nat
               /\ Cardinality(S) = Cardinality(O) => Savings(c, S) <= Savings(c, O)
    <3>1. S \in SUBSET late
      BY <1>4, <1>11, <2>2
    <3>2. IsFiniteSet(S) /\ IsFiniteSet(O)
      BY <1>7, <1>8, <3>1, FirstPositions
    <3> HIDE DEF late
    <3>3. Cardinality(S) >= Cardinality(O)
      BY <1>7, <1>11, <3>1, TakenFewest
    <3>4. Cardinality(S) = Cardinality(O) => Savings(c, S) <= Savings(c, O)
      BY <1>7, <3>1, TakenMost
    <3> QED
      BY <3>2, <3>3, <3>4, FS_CardinalityType
  <2> QED
    BY <1>10, <2>1, <2>2
<1> QED
  BY <1>1, <1>8, <1>9, <1>11

-----------------------------------------------------------------------------
(* Figures *)

\* What every call the model considers is.
LEMMA CallFacts ==
  ASSUME call \in Calls
  PROVE  call \in Call /\ cs \in Seq(Contribution)
  BY PruningAssumption DEF Call, cs

\* The figures a call that goes on works with are numbers.
LEMMA FigureTypes ==
  ASSUME call \in Calls, Prepared
  PROVE  /\ Pressure \in Nat /\ Threshold \in Nat \ {0} /\ Target \in Nat
         /\ ToThreshold \in Nat /\ Required \in Nat
         /\ Required = 0 => ToThreshold = 0
<1>1. call \in Call /\ cs \in Seq(Contribution)
  BY CallFacts
<1>2. Pressure \in Nat
  <2> DEFINE sum == Tokens(cs, {i \in Positions(cs) : cs[i].kind # "tool_schema"}) + call.schema
  <2>1. sum \in Nat
    <3>1. {i \in Positions(cs) : cs[i].kind # "tool_schema"} \in SUBSET Positions(cs)
      OBVIOUS
    <3>2. call.schema \in Nat
      BY <1>1 DEF Call
    <3> QED
      BY <1>1, <3>1, <3>2, TokensVolume
  <2>2. call.pressure \in Int \cup {None} /\ Pressure # None
    BY <1>1 DEF Call, Prepared
  <2>3. Pressure = IF call.pressure # None THEN IF call.pressure >= 0 THEN call.pressure ELSE None
                   ELSE IF sum > 0 THEN sum ELSE None
    BY DEF Pressure
  <2> HIDE DEF sum
  <2> QED
    BY <2>1, <2>2, <2>3
<1>3. Threshold \in Nat \ {0}
  <2>1. call.threshold \in Nat \cup {None} /\ call.option \in Nat \cup {None}
    BY <1>1 DEF Call
  <2> QED
    BY <2>1 DEF Prepared, Config, OptionTokens, HostGives, Threshold
<1>4. \A k \in 0 .. 100 : (Threshold * k) \div 100 \in Nat
  <2> TAKE k \in 0 .. 100
  <2>1. Threshold * k \in Nat
    BY <1>3
  <2> QED
    BY <2>1
<1>5. {SoftTarget, HardTarget} \subseteq 0 .. 100
  BY PruningAssumption DEF SoftTarget, HardTarget, Ratio
<1>6. Target \in Nat
  <2>1. call.target \in Nat
    BY <1>1 DEF Call
  <2> QED
    BY <1>3, <1>4, <1>5, <2>1 DEF Target
<1> QED
  BY <1>2, <1>3, <1>6 DEF ToThreshold, Required, Over

\* What stays the same as long as the call does.
LEMMA SameCall ==
  ASSUME call' = call
  PROVE  /\ cs' = cs /\ now' = now /\ Route' = Route /\ Pressure' = Pressure
         /\ Threshold' = Threshold /\ ToThreshold' = ToThreshold /\ Required' = Required
         /\ Prepared' = Prepared
<1>1. cs' = cs
  BY DEF cs
<1>2. now' = now
  BY <1>1 DEF now
<1>3. Threshold' = Threshold
  BY DEF Threshold, HostGives
<1>4. Pressure' = Pressure
  BY <1>1 DEF Pressure
<1>5. Route' = Route
  BY <1>3, <1>4 DEF Route
<1>6. Trigger' = Trigger /\ Target' = Target
  BY <1>3, <1>5 DEF Trigger, Target, SoftTarget, HardTarget, Ratio
<1>7. ToThreshold' = ToThreshold /\ Required' = Required
  BY <1>3, <1>4, <1>6 DEF ToThreshold, Required, Over
<1>8. Prepared' = Prepared
  BY <1>4, <1>6 DEF Prepared, Config, OptionTokens, HostGives
<1> QED
  BY <1>1, <1>2, <1>3, <1>4, <1>5, <1>7, <1>8

\* What stays the same as long as the call and the groups applied do.
LEMMA SameGroups ==
  ASSUME call' = call, chosen' = chosen
  PROVE  /\ ToPut(chosen)' = ToPut(chosen) /\ Saved(chosen)' = Saved(chosen)
         /\ Applied(chosen)' = Applied(chosen)
<1>1. cs' = cs
  BY DEF cs
<1>2. ToPut(chosen)' = ToPut(chosen) /\ ToRescue(chosen)' = ToRescue(chosen)
  BY <1>1 DEF ToPut, ToRescue
<1>3. Removed(chosen)' = Removed(chosen) /\ Replaced(chosen)' = Replaced(chosen)
  BY <1>1, <1>2 DEF Removed, Replaced, Rescuing
<1>4. Saved(chosen)' = Saved(chosen)
  BY <1>1, <1>3 DEF Saved, Shrinks, Excerpt, MapThenSumSet, MapThenFoldSet
<1>5. Applied(chosen)' = Applied(chosen)
  BY <1>1, <1>3, <1>4 DEF Applied
<1> QED
  BY <1>2, <1>4, <1>5

-----------------------------------------------------------------------------
(* What is picked *)

\* The groups nothing protects.
SafeGroups(c) == {g \in Groups(c) : ~ClassProtected(c, g) /\ ~RecentlyUsed(c, g)}

\* Candidates are among them.
LEMMA CandidatesSafe ==
  ASSUME NEW c, NEW t, NEW r, NEW young
  PROVE  Candidates(c, t, r, young) \subseteq SafeGroups(c)
  BY DEF Candidates, SafeGroups

\* There is a latest group.
LEMMA LatestGroupFacts ==
  ASSUME NEW c \in Seq(Contribution), NEW gs \in SUBSET Groups(c), gs # {}
  PROVE  LatestGroup(gs) \subseteq gs /\ LatestGroup(gs) # {}
<1> DEFINE Mins == {Min(g) : g \in gs}
<1>1. Mins \subseteq Nat /\ Mins # {} /\ \A m \in Mins : m <= Len(c)
  <2>1. \A g \in gs : Min(g) \in 1 .. Len(c)
    BY FirstPositions, GroupFacts, PositionFacts
  <2> QED
    BY <2>1
<1>2. Max(Mins) \in Mins /\ \A m \in Mins : m <= Max(Mins)
  <2>1. Len(c) \in Nat
    OBVIOUS
  <2> HIDE DEF Mins
  <2> QED
    BY <1>1, <2>1, MaxProperties
<1>3. \E g \in gs : \A f \in gs : Min(f) <= Min(g)
  BY <1>2
<1> QED
  BY <1>3 DEF LatestGroup

\* Whatever is picked is safe, something is when something has to be saved, and
\* safe groups that reach what has to be saved are where it is picked from.
SelectionSound(c, t, r, m, n) ==
  LET sel  == SelectPrunedGroups(c, t, r, m, n)
      core == Candidates(c, t, r, FALSE)
  IN  /\ sel.groups \subseteq SafeGroups(c)
      /\ m > 0 /\ sel.found => sel.groups # {}
      /\ m > 0 /\ Savings(c, core) >= m => sel.groups = OptimalSubset(c, core, m)

LEMMA SelectionFacts ==
  ASSUME NEW c \in Seq(Contribution), NEW t, NEW r, NEW m \in Nat, NEW n \in Nat
  PROVE  SelectionSound(c, t, r, m, n)
<1> DEFINE core == Candidates(c, t, r, FALSE)
           wide == Candidates(c, t, r, TRUE)
           sel  == SelectPrunedGroups(c, t, r, m, n)
           Meets(gs, k) == gs # {} /\ k > 0 /\ Reaches(c, gs, k)
<1>1. core \in SUBSET SafeGroups(c) /\ wide \in SUBSET SafeGroups(c)
      /\ SafeGroups(c) \subseteq Groups(c)
  BY CandidatesSafe DEF SafeGroups
<1>2. ASSUME NEW gs \in {core, wide}, NEW k \in Nat, Meets(gs, k)
      PROVE  OptimalSubset(c, gs, k) \subseteq SafeGroups(c) /\ OptimalSubset(c, gs, k) # {}
  <2>1. k \in Nat \ {0} /\ gs \in SUBSET Groups(c) /\ Savings(c, gs) >= k
    <3>1. gs \in SUBSET SafeGroups(c)
      <4> HIDE DEF core, wide
      <4> QED
        BY <1>1
    <3>2. k > 0 /\ Savings(c, gs) >= k
      BY <1>2 DEF Reaches
    <3> QED
      BY <1>1, <3>1, <3>2
  <2>2. OptimalSubset(c, gs, k) \subseteq gs /\ OptimalSubset(c, gs, k) # {}
    BY <2>1, OptimalSubsetFacts
  <2> QED
    BY <1>1, <2>2
<1>3. ASSUME core # {} PROVE LatestGroup(core) \subseteq SafeGroups(c) /\ LatestGroup(core) # {}
  <2>1. core \in SUBSET Groups(c)
    BY <1>1
  <2>2. LatestGroup(core) \subseteq core /\ LatestGroup(core) # {}
    <3> HIDE DEF core
    <3> QED
      BY <1>3, <2>1, LatestGroupFacts
  <2> QED
    BY <1>1, <2>2
<1>4. ASSUME m > 0, Savings(c, core) >= m PROVE Meets(core, m)
  <2>1. core # {}
    <3>1. Savings(c, {}) = 0
      <4>1. UNION {} = {}
        OBVIOUS
      <4> QED
        BY <4>1, TokensEmpty DEF Savings
    <3>2. Savings(c, core) >= m /\ m > 0
      BY <1>4
    <3> HIDE DEF core
    <3>3. ASSUME core = {} PROVE FALSE
      <4>1. Savings(c, core) = 0
        BY <3>1, <3>3
      <4> QED
        BY <3>2, <4>1
    <3> QED
      BY <3>3
  <2> QED
    BY <1>4, <2>1 DEF Reaches
<1>5. sel = IF m <= 0 THEN Selection({})
            ELSE IF Meets(core, m) THEN Selection(OptimalSubset(c, core, m))
            ELSE IF r = "hard" /\ Meets(wide, m) THEN Selection(OptimalSubset(c, wide, m))
            ELSE IF r = "hard" /\ Meets(wide, n) THEN Selection(OptimalSubset(c, wide, n))
            ELSE IF Meets(core, n) THEN Selection(OptimalSubset(c, core, n))
            ELSE IF n <= 0 /\ core # {} THEN Selection(LatestGroup(core))
            ELSE NoSelection
  BY DEF SelectPrunedGroups
<1> HIDE DEF core, wide, Meets, sel
<1>6. sel.groups \subseteq SafeGroups(c) /\ (m > 0 /\ sel.found => sel.groups # {})
  BY <1>2, <1>3, <1>5 DEF Selection, NoSelection
<1>7. m > 0 /\ Savings(c, core) >= m => sel.groups = OptimalSubset(c, core, m)
  BY <1>4, <1>5 DEF Selection
<1> QED
  BY <1>6, <1>7 DEF sel, core, SelectionSound

\* The same of a selection that found something, and of one among the candidates.
LEMMA SelectionNotEmpty ==
  ASSUME NEW c \in Seq(Contribution), NEW t, NEW r, NEW m \in Nat, NEW n \in Nat,
         m > 0, SelectPrunedGroups(c, t, r, m, n).found
  PROVE  SelectPrunedGroups(c, t, r, m, n).groups # {}
<1>1. SelectionSound(c, t, r, m, n)
  BY SelectionFacts
<1> QED
  BY <1>1 DEF SelectionSound

LEMMA SelectionOfCore ==
  ASSUME NEW c \in Seq(Contribution), NEW t, NEW r, NEW m \in Nat, NEW n \in Nat,
         m > 0, Savings(c, Candidates(c, t, r, FALSE)) >= m
  PROVE  SelectPrunedGroups(c, t, r, m, n).groups
           = OptimalSubset(c, Candidates(c, t, r, FALSE), m)
<1>1. SelectionSound(c, t, r, m, n)
  BY SelectionFacts
<1> QED
  BY <1>1 DEF SelectionSound

-----------------------------------------------------------------------------
(* What is saved *)

\* What each position is shorter by, once replaced, and how long its excerpt is.
Shrinking  == [i \in Positions(cs) |-> Shrinks(i)]
ExcerptOf == [i \in Positions(cs) |-> Excerpt(i)]

\* An excerpt has tokens, and what it saves is not negative.
LEMMA ExcerptTypes ==
  ASSUME cs \in Seq(Contribution), NEW i \in Positions(cs)
  PROVE  Excerpt(i) \in Nat /\ Shrinks(i) \in Nat
<1>1. cs[i].tokens \in Nat /\ ExcerptTokens \in Nat
  BY PositionFacts, PruningAssumption
<1> QED
  BY <1>1 DEF Excerpt, Shrinks

\* What replacing saves is a volume.
LEMMA ShrinksVolume ==
  ASSUME cs \in Seq(Contribution), NEW S \in SUBSET Positions(cs)
  PROVE  /\ MapThenSumSet(Shrinks, S) = Volume(Shrinking, S)
         /\ MapThenSumSet(Shrinks, S) \in Nat
<1> DEFINE w == Shrinking
<1>1. IsFiniteSet(S) /\ \A x \in S : w[x] \in Nat /\ w[x] = Shrinks(x)
  BY PositionFacts, ExcerptTypes DEF Shrinking
<1>2. PICK g : SumsUp(w, S, g)
  BY <1>1, SumExists
<1>3. \A s \in SUBSET S : s # {} => w[First(s)] = Shrinks(First(s))
  BY <1>1 DEF First
<1>4. g = [s \in SUBSET S |->
             IF s = {} THEN 0
             ELSE Shrinks(First(s)) + g[s \ {First(s)}]]
  BY <1>2, <1>3 DEF SumsUp
<1>5. \E f : /\ f = [s \in SUBSET S |->
                       IF s = {} THEN 0
                       ELSE Shrinks(First(s)) + f[s \ {First(s)}]]
             /\ MapThenSumSet(Shrinks, S) = f[S]
  BY <1>4 DEF MapThenSumSet, MapThenFoldSet, First
<1>6. PICK f : /\ f = [s \in SUBSET S |->
                         IF s = {} THEN 0
                         ELSE Shrinks(First(s)) + f[s \ {First(s)}]]
               /\ MapThenSumSet(Shrinks, S) = f[S]
  BY <1>5
<1>7. SumsUp(w, S, f)
  BY <1>3, <1>6 DEF SumsUp
<1>8. f[S] = Volume(w, S) /\ Volume(w, S) \in Nat
  BY <1>1, <1>7, SumIsVolume, UnitsFinite
<1> QED
  BY <1>6, <1>8

\* So is the length of excerpts.
LEMMA ExcerptVolume ==
  ASSUME cs \in Seq(Contribution), NEW S \in SUBSET Positions(cs)
  PROVE  /\ MapThenSumSet(Excerpt, S) = Volume(ExcerptOf, S)
         /\ MapThenSumSet(Excerpt, S) \in Nat
<1> DEFINE w == ExcerptOf
<1>1. IsFiniteSet(S) /\ \A x \in S : w[x] \in Nat /\ w[x] = Excerpt(x)
  BY PositionFacts, ExcerptTypes DEF ExcerptOf
<1>2. PICK g : SumsUp(w, S, g)
  BY <1>1, SumExists
<1>3. \A s \in SUBSET S : s # {} => w[First(s)] = Excerpt(First(s))
  BY <1>1 DEF First
<1>4. g = [s \in SUBSET S |->
             IF s = {} THEN 0
             ELSE Excerpt(First(s)) + g[s \ {First(s)}]]
  BY <1>2, <1>3 DEF SumsUp
<1>5. \E f : /\ f = [s \in SUBSET S |->
                       IF s = {} THEN 0
                       ELSE Excerpt(First(s)) + f[s \ {First(s)}]]
             /\ MapThenSumSet(Excerpt, S) = f[S]
  BY <1>4 DEF MapThenSumSet, MapThenFoldSet, First
<1>6. PICK f : /\ f = [s \in SUBSET S |->
                         IF s = {} THEN 0
                         ELSE Excerpt(First(s)) + f[s \ {First(s)}]]
               /\ MapThenSumSet(Excerpt, S) = f[S]
  BY <1>5
<1>7. SumsUp(w, S, f)
  BY <1>3, <1>6 DEF SumsUp
<1>8. f[S] = Volume(w, S) /\ Volume(w, S) \in Nat
  BY <1>1, <1>7, SumIsVolume, UnitsFinite
<1> QED
  BY <1>6, <1>8

\* What is removed and what is replaced are different parts of the prompt, and the
\* savings are a number.
LEMMA SavedFacts ==
  ASSUME cs \in Seq(Contribution), NEW gs \in SUBSET Groups(cs)
  PROVE  /\ Removed(gs) \in SUBSET Positions(cs) /\ Replaced(gs) \in SUBSET Positions(cs)
         /\ Removed(gs) \cap Replaced(gs) = {}
         /\ Saved(gs) \in Nat
<1>1. Removed(gs) \in SUBSET Positions(cs) /\ Replaced(gs) \in SUBSET Positions(cs)
  BY GroupFacts DEF Removed, Replaced, ToRescue
<1>2. Removed(gs) \cap Replaced(gs) = {}
  BY DEF Removed, Replaced, Rescuing
<1>3. Saved(gs) \in Nat
  BY <1>1, TokensVolume, ShrinksVolume DEF Saved
<1> QED
  BY <1>1, <1>2, <1>3

-----------------------------------------------------------------------------
(* The inductive invariant *)

\* What the call gets from the groups.
Selected == SelectPrunedGroups(cs, now, Route, Required, ToThreshold)

\* The call is one of those considered and its state is made of its prompt; groups
\* that something protects are never applied.
OfTheCall ==
  /\ call \in Calls
  /\ pc \in {"prepare", "rescue", "done"} /\ route \in {"soft", "hard"}
  /\ chosen \subseteq SafeGroups(cs) /\ first \subseteq SafeGroups(cs)
  /\ queue \subseteq Positions(cs) /\ stored \subseteq Positions(cs)
  /\ pc = "prepare" => first = {} /\ result = None

\* While groups are applied, each content they need is stored or queued, and the
\* first time round the groups are those the selection gave.
UnderWay == pc = "rescue" =>
  /\ Prepared /\ route = Route /\ result = None
  /\ ToPut(chosen) \subseteq queue \cup stored
  /\ first = {} => Selected.found /\ chosen = Selected.groups

\* An answer is what the groups leave, everything it replaced is stored, and it
\* saves enough.
Answered == result # None =>
  /\ Prepared /\ result = Applied(chosen)
  /\ ToPut(chosen) \subseteq stored
  /\ ToThreshold = 0 \/ Saved(chosen) >= ToThreshold

PruneInv == OfTheCall /\ UnderWay /\ Answered

\* What stays the same of the invariant's parts as long as the call does.
LEMMA SameSelection ==
  ASSUME call' = call
  PROVE  Selected' = Selected /\ SafeGroups(cs)' = SafeGroups(cs)
         /\ Positions(cs)' = Positions(cs)
  BY SameCall DEF Selected

\* It holds at the start.
LEMMA PruneInvInit == Init => PruneInv
  BY DEF Init, PruneInv, OfTheCall, UnderWay, Answered

\* Giving up leaves everything as it is.
LEMMA GiveUpKeeps ==
  ASSUME PruneInv, GiveUp
  PROVE  PruneInv'
<1>1. call' = call /\ chosen' = chosen /\ pc' = "done"
      /\ UNCHANGED <<route, first, queue, stored, result>>
  BY DEF GiveUp
<1>2. OfTheCall'
  BY <1>1, SameSelection DEF PruneInv, OfTheCall
<1>3. UnderWay'
  BY <1>1 DEF UnderWay
<1>4. Answered'
  BY <1>1, SameCall, SameGroups DEF PruneInv, Answered
<1> QED
  BY <1>2, <1>3, <1>4 DEF PruneInv

\* What the selection gives is safe.
LEMMA SelectKeeps ==
  ASSUME PruneInv, Select
  PROVE  PruneInv'
<1> DEFINE gs == Selected.groups
<1>1. /\ pc = "prepare" /\ Prepared /\ Selected.found /\ route' = Route
      /\ chosen' = gs /\ queue' = ToPut(gs) /\ pc' = "rescue"
      /\ UNCHANGED <<call, first, stored, result>>
  BY DEF Select, Apply, Selected
<1>2. cs \in Seq(Contribution) /\ Required \in Nat /\ ToThreshold \in Nat /\ call \in Calls
  BY <1>1, CallFacts, FigureTypes DEF PruneInv, OfTheCall
<1>3. gs \subseteq SafeGroups(cs)
  <2>1. SelectionSound(cs, now, Route, Required, ToThreshold)
    BY <1>2, SelectionFacts
  <2> QED
    BY <2>1 DEF SelectionSound, Selected
<1> HIDE DEF gs
<1>4. ToPut(gs) \subseteq Positions(cs)
  BY <1>2, <1>3, GroupFacts DEF ToPut, ToRescue, SafeGroups
<1>5. OfTheCall'
  <2>1. Route \in {"soft", "hard"}
    BY DEF Route
  <2> QED
    BY <1>1, <1>3, <1>4, <2>1, SameSelection DEF PruneInv, OfTheCall
<1>6. UnderWay'
  <2>1. ToPut(chosen)' \subseteq queue'
    BY <1>1 DEF ToPut, ToRescue, cs
  <2>2. Prepared' /\ route' = Route' /\ result' = None
    BY <1>1, SameCall DEF PruneInv, OfTheCall
  <2>3. Selected'.found /\ chosen' = Selected'.groups
    BY <1>1, SameSelection DEF gs
  <2> QED
    BY <2>1, <2>2, <2>3 DEF UnderWay
<1>7. Answered'
  BY <1>1 DEF PruneInv, OfTheCall, Answered
<1> QED
  BY <1>5, <1>6, <1>7 DEF PruneInv

\* What is put moves from the queue to the store.
LEMMA RescuePutKeeps ==
  ASSUME PruneInv, NEW i \in Positions(cs), RescuePut(i)
  PROVE  PruneInv'
<1>1. /\ pc = "rescue" /\ i \in queue /\ stored' = stored \cup {i} /\ queue' = queue \ {i}
      /\ UNCHANGED <<call, pc, route, chosen, first, result>>
  BY DEF RescuePut
<1>2. OfTheCall'
  BY <1>1, SameSelection DEF PruneInv, OfTheCall
<1>3. UnderWay'
  BY <1>1, SameCall, SameGroups, SameSelection DEF PruneInv, UnderWay
<1>4. Answered'
  BY <1>1 DEF PruneInv, UnderWay, Answered
<1> QED
  BY <1>2, <1>3, <1>4 DEF PruneInv

\* The call returns with what it has applied.
LEMMA FinishKeeps ==
  ASSUME PruneInv, Finish
  PROVE  PruneInv'
<1>1. /\ pc = "rescue" /\ queue = {} /\ (ToThreshold = 0 \/ Saved(chosen) >= ToThreshold)
      /\ result' = Applied(chosen) /\ pc' = "done"
      /\ UNCHANGED <<call, route, chosen, first, queue, stored>>
  BY DEF Finish, Done
<1>2. OfTheCall'
  BY <1>1, SameSelection DEF PruneInv, OfTheCall
<1>3. UnderWay'
  BY <1>1 DEF UnderWay
<1>4. Answered'
  <2>1. Prepared /\ ToPut(chosen) \subseteq stored
    BY <1>1 DEF PruneInv, UnderWay
  <2> QED
    BY <1>1, <2>1, SameCall, SameGroups DEF Answered
<1> QED
  BY <1>2, <1>3, <1>4 DEF PruneInv

\* The second time it is the candidates that are applied, which are safe.
LEMMA RetryKeeps ==
  ASSUME PruneInv, Retry
  PROVE  PruneInv' /\ first' # {}
<1>1. /\ pc = "rescue" /\ Saved(chosen) < ToThreshold /\ first = {} /\ first' = chosen
      /\ chosen' = Wider /\ queue' = ToPut(Wider) /\ pc' = "rescue"
      /\ UNCHANGED <<call, route, stored, result>>
  BY DEF Retry, Apply, Done
<1>2. /\ cs \in Seq(Contribution) /\ Required \in Nat /\ ToThreshold \in Nat
      /\ call \in Calls /\ Prepared /\ (Required = 0 => ToThreshold = 0)
  BY <1>1, CallFacts, FigureTypes DEF PruneInv, OfTheCall, UnderWay
<1>3. Wider \subseteq SafeGroups(cs)
  BY CandidatesSafe DEF Wider
<1>4. ToPut(Wider) \subseteq Positions(cs)
  BY <1>2, <1>3, GroupFacts DEF ToPut, ToRescue, SafeGroups
<1>5. chosen # {}
  <2>1. Selected.found /\ chosen = Selected.groups
    BY <1>1 DEF PruneInv, UnderWay
  <2>2. ToThreshold > 0
    <3>1. chosen \subseteq Groups(cs)
      BY DEF PruneInv, OfTheCall, SafeGroups
    <3>2. Saved(chosen) \in Nat
      BY <1>2, <3>1, SavedFacts
    <3> QED
      BY <1>1, <1>2, <3>2
  <2>3. Required > 0
    BY <1>2, <2>2
  <2>4. Selected.groups # {}
    BY <1>2, <2>1, <2>3, SelectionNotEmpty DEF Selected
  <2> QED
    BY <2>1, <2>4
<1>6. OfTheCall'
  BY <1>1, <1>3, <1>4, SameSelection DEF PruneInv, OfTheCall
<1>7. UnderWay'
  <2>1. ToPut(chosen)' \subseteq queue'
    BY <1>1 DEF ToPut, ToRescue, cs
  <2>2. Prepared' /\ route' = Route' /\ result' = None
    BY <1>1, SameCall DEF PruneInv, UnderWay
  <2> QED
    BY <1>1, <1>5, <2>1, <2>2 DEF UnderWay
<1>8. Answered'
  BY <1>1 DEF PruneInv, UnderWay, Answered
<1> QED
  BY <1>1, <1>5, <1>6, <1>7, <1>8 DEF PruneInv

\* Every step keeps it.
LEMMA PruneInvNext == PruneInv /\ [Next]_vars => PruneInv'
<1> SUFFICES ASSUME PruneInv, [Next]_vars
             PROVE  PruneInv'
  OBVIOUS
<1>1. CASE Decline \/ NothingToSelect \/ RescueFails \/ RescueUnavailable \/ Insufficient
  BY <1>1, GiveUpKeeps DEF Decline, NothingToSelect, RescueFails, RescueUnavailable, Insufficient
<1>2. CASE Select
  BY <1>2, SelectKeeps
<1>3. ASSUME NEW i \in Positions(cs), RescuePut(i) PROVE PruneInv'
  BY <1>3, RescuePutKeeps
<1>4. CASE Finish
  BY <1>4, FinishKeeps
<1>5. CASE Retry
  BY <1>5, RetryKeeps
<1>6. CASE UNCHANGED vars
  <2>1. call' = call /\ chosen' = chosen
        /\ UNCHANGED <<pc, route, first, queue, stored, result>>
    BY <1>6 DEF vars
  <2>2. OfTheCall'
    BY <2>1, SameSelection DEF PruneInv, OfTheCall
  <2>3. UnderWay'
    BY <2>1, SameCall, SameGroups, SameSelection DEF PruneInv, UnderWay
  <2>4. Answered'
    BY <2>1, SameCall, SameGroups DEF PruneInv, Answered
  <2> QED
    BY <2>2, <2>3, <2>4 DEF PruneInv
<1> QED
  BY <1>1, <1>2, <1>3, <1>4, <1>5, <1>6 DEF Next, Returned

\* It always holds.
THEOREM AlwaysPruneInv == Spec => []PruneInv
<1>1. Init => PruneInv
  BY PruneInvInit
<1>2. PruneInv /\ [Next]_vars => PruneInv'
  BY PruneInvNext
<1> QED
  BY <1>1, <1>2, PTL DEF Spec

-----------------------------------------------------------------------------
(* What follows of the answer *)

\* The parts of an answer, and what is known of the groups it is made of.
LEMMA AnswerFacts ==
  ASSUME PruneInv, result # None
  PROVE  /\ cs \in Seq(Contribution) /\ call \in Calls /\ Prepared
         /\ chosen \in SUBSET Groups(cs) /\ chosen \subseteq SafeGroups(cs)
         /\ result.kept = Positions(cs) \ (Removed(chosen) \cup Replaced(chosen))
         /\ result.excerpts = Replaced(chosen) /\ result.saved = Saved(chosen)
         /\ Removed(chosen) \subseteq Positions(cs) /\ Replaced(chosen) \subseteq Positions(cs)
         /\ Removed(chosen) \cap Replaced(chosen) = {}
         /\ Saved(chosen) \in Nat
<1>1. call \in Calls /\ Prepared /\ chosen \subseteq SafeGroups(cs)
  BY DEF PruneInv, OfTheCall, Answered
<1>2. cs \in Seq(Contribution) /\ chosen \in SUBSET Groups(cs)
  BY <1>1, CallFacts DEF SafeGroups
<1>3. /\ result.kept = Positions(cs) \ (Removed(chosen) \cup Replaced(chosen))
      /\ result.excerpts = Replaced(chosen) /\ result.saved = Saved(chosen)
  BY DEF PruneInv, Answered, Applied
<1> QED
  BY <1>1, <1>2, <1>3, SavedFacts

\* Every variable keeps to its type: the figures of an answer are sets of
\* positions and a number (PruningApplicationResult of structured_pruning_apply.py).
THEOREM TypeCorrect == Spec => []TypeOK
<1>1. PruneInv => TypeOK
  <2> SUFFICES ASSUME PruneInv PROVE TypeOK
    OBVIOUS
  <2>1. call \in Call
    BY CallFacts DEF PruneInv, OfTheCall
  <2>2. /\ pc \in {"prepare", "rescue", "done"} /\ route \in {"soft", "hard"}
        /\ chosen \subseteq Groups(cs) /\ first \subseteq Groups(cs)
        /\ queue \subseteq Positions(cs) /\ stored \subseteq Positions(cs)
    BY DEF PruneInv, OfTheCall, SafeGroups
  <2>3. ASSUME result # None
        PROVE  /\ result.kept \subseteq Positions(cs)
               /\ result.excerpts \subseteq Positions(cs) \ result.kept
               /\ result.saved \in Nat
    BY <2>3, AnswerFacts
  <2> QED
    BY <2>1, <2>2, <2>3 DEF TypeOK
<1> QED
  BY <1>1, AlwaysPruneInv, PTL

\* What is protected, recent, or in a group with it, is in the view as it was, for
\* any prompt, windows and route (candidate_groups of structured_pruning_selection.py).
THEOREM ProtectedAreKept == Spec => []ProtectedKept
<1>1. PruneInv => ProtectedKept
  <2> SUFFICES ASSUME PruneInv, result # None, NEW i \in Positions(cs),
                      \/ cs[i].class \in Protected
                      \/ i \in RecentMessages(cs)
                      \/ cs[i].kind = "tool_interaction" /\ Min(GroupOf(cs, i)) \in RecentTools(cs)
               PROVE  GroupOf(cs, i) \subseteq result.kept
    BY DEF ProtectedKept
  <2> DEFINE g == GroupOf(cs, i)
  <2>1. i \in g /\ g \in Groups(cs) /\ g \subseteq Positions(cs)
    BY AnswerFacts, GroupFacts
  <2>2. g \notin SafeGroups(cs)
    BY <2>1 DEF SafeGroups, ClassProtected, RecentlyUsed
  <2>3. g \notin chosen
    BY <2>2, AnswerFacts
  <2>4. \A f \in chosen : f \cap g = {}
    <3>1. \A f \in chosen : f \in Groups(cs) /\ f # g
      BY <2>3, AnswerFacts
    <3> HIDE DEF g
    <3> QED
      BY <2>1, <3>1, AnswerFacts, GroupFacts
  <2>5. (Removed(chosen) \cup Replaced(chosen)) \subseteq UNION chosen
    BY DEF Removed, Replaced, ToRescue
  <2>6. g \cap (Removed(chosen) \cup Replaced(chosen)) = {}
    <3> HIDE DEF g
    <3> QED
      BY <2>4, <2>5
  <2> HIDE DEF g
  <2>7. g \subseteq result.kept
    BY <2>1, <2>6, AnswerFacts
  <2> QED
    BY <2>7 DEF g
<1> QED
  BY <1>1, AlwaysPruneInv, PTL

\* The members of an atomic group leave together or stay together, replaced or not
\* (apply_pruned_groups of structured_pruning_rescue.py).
THEOREM GroupsAreAtomic == Spec => []AtomicGroups
<1>1. PruneInv => AtomicGroups
  <2> SUFFICES ASSUME PruneInv, result # None, NEW i \in Positions(cs), NEW j \in Positions(cs),
                      cs[i].group # None, cs[i].group = cs[j].group
               PROVE  i \in result.kept \cup result.excerpts <=>
                        j \in result.kept \cup result.excerpts
    BY DEF AtomicGroups
  <2>1. GroupOf(cs, i) = GroupOf(cs, j)
    BY AnswerFacts, GroupFacts
  <2>2. \A k \in Positions(cs) : k \in result.kept \cup result.excerpts <=> k \notin Removed(chosen)
    BY AnswerFacts
  <2>3. \A k \in Positions(cs) :
          k \in Removed(chosen) <=> GroupOf(cs, k) \in chosen \ Rescuing(chosen)
    <3> TAKE k \in Positions(cs)
    <3>1. \A f \in chosen : k \in f => f = GroupOf(cs, k)
      BY AnswerFacts, GroupFacts
    <3>2. k \in GroupOf(cs, k)
      BY AnswerFacts, GroupFacts
    <3> QED
      BY <3>1, <3>2 DEF Removed
  <2> QED
    BY <2>1, <2>2, <2>3
<1> QED
  BY <1>1, AlwaysPruneInv, PTL

\* Every excerpt of an answer names content that is stored or was an excerpt
\* already (_rescue_replacements), after any failed put and retry.
THEOREM ExcerptsAreStored == Spec => []ExcerptsStored
<1>1. PruneInv => ExcerptsStored
  BY AnswerFacts DEF PruneInv, Answered, ExcerptsStored, Replaced, ToPut
<1> QED
  BY <1>1, AlwaysPruneInv, PTL

\* An answer frees the tokens it says it does when no excerpt is longer than what
\* it stands for.
LEMMA FreedIsSaved ==
  ASSUME PruneInv, result # None, \A i \in result.excerpts : Excerpt(i) <= cs[i].tokens
  PROVE  Freed(result) = Saved(chosen)
<1> DEFINE R == Replaced(chosen)
           D == Removed(chosen)
<1>1. /\ cs \in Seq(Contribution) /\ R \in SUBSET Positions(cs) /\ D \in SUBSET Positions(cs)
      /\ D \cap R = {} /\ result.excerpts = R /\ Positions(cs) \ result.kept = D \cup R
  BY AnswerFacts
<1> HIDE DEF R, D
<1>2. Tokens(cs, D \cup R) = Tokens(cs, D) + Tokens(cs, R)
      /\ Tokens(cs, D) \in Nat /\ Tokens(cs, R) \in Nat
  BY <1>1, TokensUnion, TokensVolume
<1>3. \A x \in R : /\ Shrinking[x] \in Nat /\ ExcerptOf[x] \in Nat
                   /\ Weights(cs)[x] = Shrinking[x] + ExcerptOf[x]
  <2> TAKE x \in R
  <2>1. Shrinking[x] = Shrinks(x) /\ ExcerptOf[x] = Excerpt(x) /\ Weights(cs)[x] = cs[x].tokens
    BY <1>1 DEF Shrinking, ExcerptOf, Weights
  <2>2. Excerpt(x) \in Nat /\ Shrinks(x) \in Nat /\ cs[x].tokens \in Nat
        /\ Excerpt(x) <= cs[x].tokens
    BY <1>1, ExcerptTypes, PositionFacts
  <2>3. cs[x].tokens = Shrinks(x) + Excerpt(x)
    BY <2>2 DEF Shrinks
  <2> QED
    BY <2>1, <2>2, <2>3
<1>4. Volume(Weights(cs), R) = Volume(Shrinking, R) + Volume(ExcerptOf, R)
  <2>1. IsFiniteSet(R)
    BY <1>1, PositionFacts
  <2> DEFINE u == Weights(cs)
             v == Shrinking
             w == ExcerptOf
  <2>2. \A x \in R : v[x] \in Nat /\ w[x] \in Nat /\ u[x] = v[x] + w[x]
    BY <1>3
  <2> HIDE DEF u, v, w
  <2>3. Volume(u, R) = Volume(v, R) + Volume(w, R)
    BY <2>1, <2>2, VolumeSum
  <2> QED
    BY <2>3 DEF u, v, w
<1>5. /\ Tokens(cs, R) = Volume(Weights(cs), R)
      /\ MapThenSumSet(Shrinks, R) = Volume(Shrinking, R) /\ Volume(Shrinking, R) \in Nat
      /\ MapThenSumSet(Excerpt, R) = Volume(ExcerptOf, R) /\ Volume(ExcerptOf, R) \in Nat
  BY <1>1, TokensVolume, ShrinksVolume, ExcerptVolume
<1>6. Saved(chosen) = Tokens(cs, D) + Volume(Shrinking, R)
  BY <1>5 DEF Saved, R, D
<1>7. Freed(result) = Tokens(cs, D \cup R) - Volume(ExcerptOf, R)
  BY <1>1, <1>5 DEF Freed
<1> QED
  BY <1>2, <1>4, <1>5, <1>6, <1>7

\* A view that is returned for a prompt over the threshold is not over it, as long
\* as no excerpt is longer than the original (apply_threshold_pruning).
THEOREM AnswerFits == Spec => []FitsThreshold
<1>1. PruneInv => FitsThreshold
  <2> SUFFICES ASSUME PruneInv, result # None,
                      \A i \in result.excerpts : Excerpt(i) <= cs[i].tokens
               PROVE  Pressure - Freed(result) <= Threshold \/ Pressure <= Threshold
    BY DEF FitsThreshold
  <2>1. Freed(result) = Saved(chosen) /\ Saved(chosen) \in Nat
    BY FreedIsSaved, AnswerFacts
  <2>2. ToThreshold = 0 \/ Saved(chosen) >= ToThreshold
    BY DEF PruneInv, Answered
  <2>3. Pressure \in Nat /\ Threshold \in Nat
    BY AnswerFacts, FigureTypes
  <2> QED
    BY <2>1, <2>2, <2>3 DEF ToThreshold, Over
<1> QED
  BY <1>1, AlwaysPruneInv, PTL

\* When safe candidates reach the target, the groups applied are of those, reach
\* it, start as late as any that do, are as few as any that start there and save no
\* less than as few others (_optimal_subset), for any prompt.
THEOREM PrefixIsLatest == Spec => []LatestPrefix
<1>1. PruneInv => LatestPrefix
  <2> DEFINE core == Candidates(cs, now, route, FALSE)
  <2> SUFFICES ASSUME PruneInv, pc = "rescue", first = {}, Required > 0,
                      Savings(cs, core) >= Required
               PROVE  /\ chosen \subseteq core /\ Savings(cs, chosen) >= Required
                      /\ \A S \in SUBSET core : Savings(cs, S) >= Required =>
                           /\ Min(UNION S) <= Min(UNION chosen)
                           /\ Min(UNION S) = Min(UNION chosen) =>
                                \/ Cardinality(S) > Cardinality(chosen)
                                \/ /\ Cardinality(S) = Cardinality(chosen)
                                   /\ Savings(cs, S) <= Savings(cs, chosen)
    BY DEF LatestPrefix
  <2>1. call \in Calls /\ Prepared /\ route = Route /\ chosen = Selected.groups
    BY DEF PruneInv, OfTheCall, UnderWay
  <2>2. cs \in Seq(Contribution) /\ Required \in Nat \ {0} /\ ToThreshold \in Nat
    BY <2>1, CallFacts, FigureTypes
  <2>3. chosen = OptimalSubset(cs, core, Required)
    <3>1. core = Candidates(cs, now, Route, FALSE)
      BY <2>1
    <3>2. Savings(cs, Candidates(cs, now, Route, FALSE)) >= Required /\ Required > 0
      BY <3>1
    <3>3. Selected.groups = OptimalSubset(cs, Candidates(cs, now, Route, FALSE), Required)
      BY <2>2, <3>2, SelectionOfCore DEF Selected
    <3> QED
      BY <2>1, <3>1, <3>3
  <2>4. core \in SUBSET Groups(cs)
    BY CandidatesSafe DEF SafeGroups
  <2> HIDE DEF core
  <2> QED
    BY <2>2, <2>3, <2>4, OptimalSubsetFacts
<1> QED
  BY <1>1, AlwaysPruneInv, PTL

\* Every step leaves fewer steps to take, so that a call comes to its end after at
\* most two rounds of puts, whichever of them fail (apply_threshold_pruning).
THEOREM StepsRunOut == Spec => CallEnds
<1>1. PruneInv /\ [Next]_vars => [StepsLeft' < StepsLeft]_vars
  <2> SUFFICES ASSUME PruneInv, Next
               PROVE  StepsLeft' < StepsLeft \/ UNCHANGED vars
    OBVIOUS
  <2> DEFINE n == Cardinality(Positions(cs))
             q == Cardinality(queue)
  <2>1. /\ call \in Calls /\ cs \in Seq(Contribution) /\ IsFiniteSet(Positions(cs))
        /\ n \in Nat /\ IsFiniteSet(queue) /\ q \in Nat
    BY CallFacts, PositionFacts, FS_CardinalityType DEF PruneInv, OfTheCall
  <2>2. /\ pc = "prepare" => StepsLeft = 2 * (n + 2)
        /\ pc = "rescue" => StepsLeft = q + 1 + (IF first = {} THEN n + 2 ELSE 0)
        /\ pc = "done" => StepsLeft = 0
    BY DEF StepsLeft
  <2>3. /\ pc' = "rescue" /\ call' = call =>
             StepsLeft' = Cardinality(queue') + 1 + (IF first' = {} THEN n + 2 ELSE 0)
        /\ pc' = "done" => StepsLeft' = 0
    BY SameSelection DEF StepsLeft
  <2> HIDE DEF n, q
  <2>4. CASE Decline \/ NothingToSelect \/ RescueFails \/ RescueUnavailable \/ Insufficient \/ Finish
    <3>1. pc \in {"prepare", "rescue"} /\ pc' = "done"
      BY <2>4 DEF Decline, NothingToSelect, RescueFails, RescueUnavailable, Insufficient,
                  GiveUp, Finish, Done
    <3> QED
      BY <2>1, <2>2, <2>3, <3>1
  <2>5. ASSUME queue' \in SUBSET Positions(cs)
        PROVE  Cardinality(queue') \in Nat /\ Cardinality(queue') <= n
    BY <2>1, <2>5, FS_Subset, FS_CardinalityType DEF n
  <2>6. CASE Select
    <3>1. pc = "prepare" /\ pc' = "rescue" /\ call' = call
      BY <2>6 DEF Select, Apply
    <3>2. queue' \in SUBSET Positions(cs)
      BY <2>6, <3>1, SelectKeeps, SameSelection DEF PruneInv, OfTheCall
    <3> QED
      BY <2>1, <2>2, <2>3, <2>5, <3>1, <3>2
  <2>7. ASSUME NEW i \in Positions(cs), RescuePut(i) PROVE StepsLeft' < StepsLeft
    <3>1. /\ pc = "rescue" /\ pc' = "rescue" /\ call' = call /\ first' = first
          /\ i \in queue /\ queue' = queue \ {i}
      BY <2>7 DEF RescuePut
    <3>2. Cardinality(queue') = q - 1
      BY <2>1, <3>1, FS_RemoveElement DEF q
    <3> QED
      BY <2>1, <2>2, <2>3, <3>1, <3>2
  <2>8. CASE Retry
    <3>1. pc = "rescue" /\ pc' = "rescue" /\ call' = call /\ first = {} /\ first' # {}
      BY <2>8, RetryKeeps DEF Retry, Apply, Done
    <3>2. queue' \in SUBSET Positions(cs)
      BY <2>8, <3>1, RetryKeeps, SameSelection DEF PruneInv, OfTheCall
    <3> QED
      BY <2>1, <2>2, <2>3, <2>5, <3>1, <3>2
  <2> QED
    BY <2>4, <2>6, <2>7, <2>8 DEF Next, Returned
<1> QED
  BY <1>1, AlwaysPruneInv, PTL DEF Spec, CallEnds
=============================================================================
