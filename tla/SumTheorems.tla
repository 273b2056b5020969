----------------------------- MODULE SumTheorems -----------------------------
(***************************************************************************)
(* What MapThenSumSet computes on a finite set of natural numbers.         *)
(*                                                                         *)
(* The fold is a recursive function over the subsets of its argument, so   *)
(* nothing follows from its definition until that recursion is known to    *)
(* have a solution.  Weight is a solution that needs no recursion: the     *)
(* number of tokens when every element x holds f[x] of them.  From there   *)
(* the laws of sums are laws of cardinality.                               *)
(***************************************************************************)
EXTENDS Integers, FiniteSetsExt, FiniteSetTheorems, NaturalsInduction,
        WellFoundedInduction, TLAPS

\* f[x] tokens for every element x.
Tokens(f, S) == UNION {{x} \X (1..f[x]) : x \in S}
Weight(f, S) == Cardinality(Tokens(f, S))

\* The recursion of MapThenSumSet, for the summand f[x].
IsSumFold(fold, f, S) ==
    fold = [s \in SUBSET S |->
              IF s = {} THEN 0
              ELSE f[CHOOSE x \in s : TRUE] + fold[s \ {CHOOSE x \in s : TRUE}]]

\* Weights are natural numbers.
Weighs(f, S) == IsFiniteSet(S) /\ \A x \in S : f[x] \in Nat

-----------------------------------------------------------------------------
\* A token is an element with a number.
LEMMA TokenOf ==
    ASSUME NEW f, NEW S, NEW t
    PROVE  t \in Tokens(f, S) <=> \E x \in S : t \in {x} \X (1..f[x])
BY DEF Tokens

\* A set of weights has finitely many tokens.
LEMMA TokensFinite ==
    ASSUME NEW f, NEW S, Weighs(f, S)
    PROVE  IsFiniteSet(Tokens(f, S)) /\ Weight(f, S) \in Nat
<1> DEFINE stacks == {{x} \X (1..f[x]) : x \in S}
           stack == [x \in S |-> {x} \X (1..f[x])]
<1>1. stack \in Surjection(S, stacks)
  BY DEF Surjection
<1>2. IsFiniteSet(stacks)
  BY <1>1, FS_Surjection DEF Weighs
<1>3. \A T \in stacks : IsFiniteSet(T)
  <2> SUFFICES ASSUME NEW x \in S PROVE IsFiniteSet({x} \X (1..f[x]))
    OBVIOUS
  <2>1. IsFiniteSet(1..f[x])
    BY FS_Interval DEF Weighs
  <2>2. QED
    BY <2>1, FS_Singleton, FS_Product
<1>4. IsFiniteSet(UNION stacks)
  BY <1>2, <1>3, FS_UNION
<1>5. QED
  BY <1>4, FS_CardinalityType DEF Tokens, Weight

\* The empty set weighs nothing.
LEMMA WeightEmpty ==
    ASSUME NEW f
    PROVE  Weight(f, {}) = 0
BY FS_EmptySet DEF Weight, Tokens

\* An element weighs what f says.
LEMMA WeightSingle ==
    ASSUME NEW f, NEW x, f[x] \in Nat
    PROVE  Weight(f, {x}) = f[x]
<1>1. Tokens(f, {x}) = {x} \X (1..f[x])
  BY DEF Tokens
<1>2. IsFiniteSet(1..f[x]) /\ Cardinality(1..f[x]) = f[x]
  BY FS_Interval
<1>3. IsFiniteSet({x}) /\ Cardinality({x}) = 1
  BY FS_Singleton
<1>4. Cardinality({x} \X (1..f[x])) = 1 * f[x]
  BY <1>2, <1>3, FS_Product, ZenonT(30)
<1>5. 1 * f[x] = f[x]
  OBVIOUS
<1>6. QED
  BY <1>1, <1>4, <1>5 DEF Weight

\* Disjoint sets add up.
LEMMA WeightUnion ==
    ASSUME NEW f, NEW A, NEW B, Weighs(f, A), Weighs(f, B), A \cap B = {}
    PROVE  Weight(f, A \cup B) = Weight(f, A) + Weight(f, B)
<1>1. Tokens(f, A \cup B) = Tokens(f, A) \cup Tokens(f, B)
  BY TokenOf
<1>2. Tokens(f, A) \cap Tokens(f, B) = {}
  <2> SUFFICES ASSUME NEW t \in Tokens(f, A), t \in Tokens(f, B) PROVE FALSE
    OBVIOUS
  <2>1. PICK x \in A : t \in {x} \X (1..f[x])
    BY TokenOf
  <2>2. PICK y \in B : t \in {y} \X (1..f[y])
    BY TokenOf
  <2>3. t[1] = x /\ t[1] = y
    BY <2>1, <2>2
  <2>4. QED
    BY <2>3
<1>3. /\ IsFiniteSet(Tokens(f, A)) /\ Weight(f, A) \in Nat
      /\ IsFiniteSet(Tokens(f, B)) /\ Weight(f, B) \in Nat
  BY TokensFinite
<1>4. Cardinality(Tokens(f, A) \cup Tokens(f, B))
        = Weight(f, A) + Weight(f, B) - Cardinality(Tokens(f, A) \cap Tokens(f, B))
  BY <1>3, FS_Union DEF Weight
<1>5. Cardinality(Tokens(f, A) \cap Tokens(f, B)) = 0
  BY <1>2, FS_EmptySet
<1>6. Weight(f, A \cup B) = Cardinality(Tokens(f, A) \cup Tokens(f, B))
  BY <1>1 DEF Weight
<1>7. QED
  BY <1>3, <1>4, <1>5, <1>6

\* A set that outweighs another, but for elements that weigh nothing.
LEMMA WeightBounded ==
    ASSUME NEW f, NEW g, NEW A, NEW B, Weighs(f, A), Weighs(g, B),
           \A x \in A : f[x] = 0 \/ (x \in B /\ f[x] <= g[x])
    PROVE  Weight(f, A) <= Weight(g, B)
<1>1. Tokens(f, A) \subseteq Tokens(g, B)
  <2> SUFFICES ASSUME NEW t \in Tokens(f, A) PROVE t \in Tokens(g, B)
    OBVIOUS
  <2>1. PICK x \in A : t \in {x} \X (1..f[x])
    BY TokenOf
  <2>2. x \in B /\ f[x] <= g[x]
    <3>1. f[x] # 0
      BY <2>1
    <3>2. QED
      BY <3>1
  <2>3. f[x] \in Nat /\ g[x] \in Nat
    BY <2>2 DEF Weighs
  <2>4. t \in {x} \X (1..g[x])
    BY <2>1, <2>2, <2>3
  <2>5. QED
    BY <2>2, <2>4, TokenOf
<1>2. IsFiniteSet(Tokens(f, A)) /\ IsFiniteSet(Tokens(g, B))
  BY TokensFinite
<1>3. QED
  BY <1>1, <1>2, FS_Subset DEF Weight

\* A larger set with larger weights weighs more.
LEMMA WeightMonotone ==
    ASSUME NEW f, NEW g, NEW A, NEW B, Weighs(f, A), Weighs(g, B), A \subseteq B,
           \A x \in A : f[x] <= g[x]
    PROVE  Weight(f, A) <= Weight(g, B)
BY WeightBounded

\* Only the weights of the elements matter.
LEMMA WeightSame ==
    ASSUME NEW f, NEW g, NEW S, Weighs(f, S), \A x \in S : g[x] = f[x]
    PROVE  Weight(g, S) = Weight(f, S)
<1>1. ASSUME NEW t PROVE t \in Tokens(f, S) <=> t \in Tokens(g, S)
  <2>1. t \in Tokens(f, S) <=> \E x \in S : t \in {x} \X (1..f[x])
    BY TokenOf
  <2>2. t \in Tokens(g, S) <=> \E x \in S : t \in {x} \X (1..g[x])
    BY TokenOf
  <2>3. \A x \in S : {x} \X (1..f[x]) = {x} \X (1..g[x])
    OBVIOUS
  <2>4. QED
    BY <2>1, <2>2, <2>3, Zenon
<1>2. QED
  BY <1>1 DEF Weight

\* Taking an element out takes its weight.
LEMMA WeightRemove ==
    ASSUME NEW f, NEW S, Weighs(f, S), NEW x \in S
    PROVE  Weighs(f, S \ {x}) /\ Weight(f, S) = f[x] + Weight(f, S \ {x})
<1>1. Weighs(f, S \ {x}) /\ Weighs(f, {x})
  BY FS_RemoveElement, FS_Singleton DEF Weighs
<1>2. Weight(f, {x} \cup (S \ {x})) = Weight(f, {x}) + Weight(f, S \ {x})
  BY <1>1, WeightUnion
<1>3. {x} \cup (S \ {x}) = S /\ Weight(f, {x}) = f[x]
  BY <1>1, WeightSingle DEF Weighs
<1>4. QED
  BY <1>1, <1>2, <1>3

-----------------------------------------------------------------------------
\* The recursion has a solution.
LEMMA SumFoldExists ==
    ASSUME NEW f, NEW S, Weighs(f, S)
    PROVE  IsSumFold([s \in SUBSET S |-> Weight(f, s)], f, S)
<1> DEFINE w == [s \in SUBSET S |-> Weight(f, s)]
<1>1. ASSUME NEW s \in SUBSET S, s # {}
      PROVE  w[s] = f[CHOOSE x \in s : TRUE] + w[s \ {CHOOSE x \in s : TRUE}]
  <2>1. PICK y : y = (CHOOSE x \in s : TRUE) /\ y \in s
    BY <1>1
  <2>2. Weighs(f, s)
    BY FS_Subset DEF Weighs
  <2>3. Weight(f, s) = f[y] + Weight(f, s \ {y})
    <3>1. y \in s
      BY <2>1
    <3>2. QED
      BY ONLY <2>2, <3>1, WeightRemove
  <2>4. s \ {y} \in SUBSET S
    OBVIOUS
  <2>5. QED
    BY <2>1, <2>3, <2>4
<1>2. w[{}] = 0
  BY WeightEmpty
<1>3. QED
  BY <1>1, <1>2 DEF IsSumFold

\* A non-empty set of naturals has a least element.
LEMMA LeastNatural ==
    ASSUME NEW S, S \subseteq Nat, S # {}
    PROVE  \E x \in S : \A y \in S : x <= y
<1>1. \E x \in S : \A y \in S : ~(<<y, x>> \in OpToRel(<, Nat))
  BY NatLessThanWellFounded, WFMin
<1>2. \A x, y \in Nat : y < x => <<y, x>> \in OpToRel(<, Nat)
  BY DEF OpToRel
<1>3. PICK x \in S : \A y \in S : ~(<<y, x>> \in OpToRel(<, Nat))
  BY <1>1
<1>4. \A y \in S : ~(y < x)
  BY <1>2, <1>3, Zenon
<1>5. \A y \in S : x <= y
  BY <1>4
<1>6. QED
  BY <1>5

\* And no other: a smallest subset on which two solutions differ would leave
\* a smaller one when its chosen element is taken out.
LEMMA SumFoldIsWeight ==
    ASSUME NEW f, NEW S, Weighs(f, S), NEW fold, IsSumFold(fold, f, S)
    PROVE  fold[S] = Weight(f, S)
<1> DEFINE bad == {s \in SUBSET S : fold[s] # Weight(f, s)}
           sizes == {Cardinality(s) : s \in bad}
<1> SUFFICES ASSUME bad # {} PROVE FALSE
  OBVIOUS
<1>1. \A s \in SUBSET S : IsFiniteSet(s) /\ Cardinality(s) \in Nat /\ Weighs(f, s)
  BY FS_Subset, FS_CardinalityType DEF Weighs
<1>2. PICK n \in sizes : \A m \in sizes : n <= m
  <2>1. sizes \subseteq Nat /\ sizes # {}
    BY <1>1
  <2>2. QED
    BY <2>1, LeastNatural
<1>3. PICK s \in bad : Cardinality(s) = n
  OBVIOUS
<1>4. s \in SUBSET S /\ fold[s] # Weight(f, s)
  OBVIOUS
<1>5. fold[s] = IF s = {} THEN 0
                ELSE f[CHOOSE x \in s : TRUE] + fold[s \ {CHOOSE x \in s : TRUE}]
  BY <1>4 DEF IsSumFold
<1>6. s # {}
  BY <1>4, <1>5, WeightEmpty
<1>7. PICK y : y = (CHOOSE x \in s : TRUE) /\ y \in s
  BY <1>6
<1>8. fold[s] = f[y] + fold[s \ {y}]
  BY <1>5, <1>6, <1>7
<1>9. s \ {y} \in SUBSET S /\ Cardinality(s \ {y}) = Cardinality(s) - 1
  BY <1>1, <1>4, <1>7, FS_RemoveElement
<1>10. s \ {y} \notin bad
  <2>1. Cardinality(s \ {y}) < n /\ n \in Nat
    BY <1>1, <1>3, <1>4, <1>9
  <2>2. Cardinality(s \ {y}) \notin sizes
    BY <1>2, <1>1, <1>9, <2>1
  <2>3. QED
    BY <2>2
<1>11. fold[s \ {y}] = Weight(f, s \ {y})
  BY <1>9, <1>10
<1>12. Weight(f, s) = f[y] + Weight(f, s \ {y})
  <2>1. Weighs(f, s) /\ y \in s
    BY <1>1, <1>4, <1>7
  <2>2. QED
    BY ONLY <2>1, WeightRemove
<1>13. QED
  BY <1>4, <1>8, <1>11, <1>12

\* So a CHOOSE of a solution, which is how the recursion is defined, is the weight.
LEMMA SumIsWeight ==
    ASSUME NEW f, NEW S, Weighs(f, S), NEW fold,
           (\E w : IsSumFold(w, f, S)) => IsSumFold(fold, f, S)
    PROVE  fold[S] = Weight(f, S)
BY SumFoldExists, SumFoldIsWeight

\* A sum of which one summand grows by at most n and no other grows.
LEMMA WeightGrows ==
    ASSUME NEW f, NEW g, NEW S, Weighs(f, S), Weighs(g, S), NEW s, NEW n \in Nat,
           \A x \in S \ {s} : g[x] <= f[x], s \in S => g[s] <= f[s] + n
    PROVE  Weight(g, S) <= Weight(f, S) + n
<1>1. Weight(f, S) \in Nat /\ Weight(g, S) \in Nat
  BY TokensFinite
<1>2. CASE s \in S
  <2>1. /\ Weighs(f, S \ {s}) /\ Weight(f, S) = f[s] + Weight(f, S \ {s})
        /\ Weighs(g, S \ {s}) /\ Weight(g, S) = g[s] + Weight(g, S \ {s})
    BY <1>2, WeightRemove
  <2>2. Weight(g, S \ {s}) <= Weight(f, S \ {s})
    BY <2>1, WeightMonotone
  <2>3. Weight(g, S \ {s}) \in Nat /\ Weight(f, S \ {s}) \in Nat
    BY <2>1, TokensFinite
  <2>4. f[s] \in Nat /\ g[s] \in Nat
    BY <1>2 DEF Weighs
  <2>5. QED
    BY <1>2, <2>1, <2>2, <2>3, <2>4
<1>3. CASE s \notin S
  <2>1. Weight(g, S) <= Weight(f, S)
    BY <1>3, WeightMonotone
  <2>2. QED
    BY <1>1, <2>1
<1>4. QED
  BY <1>2, <1>3

\* The parts part[a], for the a of G, are a partition of R.
Splits(part, G, R) ==
    /\ \A a \in G : part[a] \subseteq R
    /\ \A a, b \in G : a # b => part[a] \cap part[b] = {}
    /\ \A r \in R : \E a \in G : r \in part[a]

\* A sum over the parts of two sets: when every a of G weighs what part[a] of R
\* and share[a] of Q weigh together, G weighs what R and Q do.
LEMMA WeightParts ==
    ASSUME NEW f, NEW G, NEW h, NEW R, NEW k, NEW Q, NEW part, NEW share,
           IsFiniteSet(G), Weighs(h, R), Weighs(k, Q),
           Splits(part, G, R), Splits(share, G, Q),
           \A a \in G : f[a] = Weight(h, part[a]) + Weight(k, share[a])
    PROVE  Weight(f, G) = Weight(h, R) + Weight(k, Q)
<1> DEFINE InR(A) == UNION {part[a] : a \in A}
           InQ(A) == UNION {share[a] : a \in A}
           bad == {A \in SUBSET G : Weight(f, A) # Weight(h, InR(A)) + Weight(k, InQ(A))}
           sizes == {Cardinality(A) : A \in bad}
<1>0. InR(G) = R /\ InQ(G) = Q
  BY DEF Splits
<1> SUFFICES ASSUME bad # {} PROVE FALSE
  BY <1>0
<1>1. \A T \in SUBSET R : Weighs(h, T) /\ Weight(h, T) \in Nat
  BY FS_Subset, TokensFinite DEF Weighs
<1>2. \A T \in SUBSET Q : Weighs(k, T) /\ Weight(k, T) \in Nat
  BY FS_Subset, TokensFinite DEF Weighs
<1>3. \A A \in SUBSET G : /\ InR(A) \in SUBSET R /\ InQ(A) \in SUBSET Q
                          /\ IsFiniteSet(A) /\ Cardinality(A) \in Nat
  BY FS_Subset, FS_CardinalityType DEF Splits
<1>4. \A a \in G : part[a] \in SUBSET R /\ share[a] \in SUBSET Q /\ f[a] \in Nat
  BY <1>1, <1>2 DEF Splits
<1>5. \A A \in SUBSET G : Weighs(f, A) /\ Weight(f, A) \in Nat
  BY <1>3, <1>4, TokensFinite DEF Weighs
<1>6. PICK n \in sizes : \A m \in sizes : n <= m
  <2>1. bad \subseteq SUBSET G
    OBVIOUS
  <2> HIDE DEF bad
  <2>2. sizes \subseteq Nat /\ sizes # {}
    BY <1>3, <2>1
  <2> HIDE DEF sizes
  <2>3. QED
    BY <2>2, LeastNatural
<1>7. PICK A \in bad : Cardinality(A) = n
  OBVIOUS
<1>8. A \in SUBSET G /\ Weight(f, A) # Weight(h, InR(A)) + Weight(k, InQ(A))
  OBVIOUS
<1>9. A # {}
  <2> SUFFICES ASSUME A = {} PROVE FALSE
    OBVIOUS
  <2>1. InR(A) = {} /\ InQ(A) = {}
    OBVIOUS
  <2>2. Weight(f, A) = 0 /\ Weight(h, InR(A)) = 0 /\ Weight(k, InQ(A)) = 0
    BY <2>1, WeightEmpty
  <2>3. QED
    BY <1>8, <2>2
<1>10. PICK a \in A : TRUE
  BY <1>9
<1> DEFINE B == A \ {a}
<1>11. B \in SUBSET G /\ a \in G
  BY <1>8, <1>10
<1>12. Weight(f, B) = Weight(h, InR(B)) + Weight(k, InQ(B))
  <2>1. Cardinality(B) = Cardinality(A) - 1 /\ Cardinality(B) \in Nat
    BY <1>3, <1>8, <1>10, <1>11, FS_RemoveElement
  <2>2. ~ (n <= Cardinality(B))
    BY <1>3, <1>7, <1>8, <2>1
  <2>3. B \notin bad
    <3> HIDE DEF bad
    <3>1. QED
      BY <1>6, <2>2
  <2>4. QED
    BY <1>11, <2>3
<1>13. /\ InR(A) = part[a] \cup InR(B) /\ part[a] \cap InR(B) = {}
       /\ InQ(A) = share[a] \cup InQ(B) /\ share[a] \cap InQ(B) = {}
  BY <1>8, <1>10 DEF Splits
<1> HIDE DEF InR, InQ, B
<1>14. Weight(h, InR(A)) = Weight(h, part[a]) + Weight(h, InR(B))
  <2>1. Weighs(h, part[a]) /\ Weighs(h, InR(B))
    BY <1>1, <1>3, <1>4, <1>11
  <2>2. QED
    BY <1>13, <2>1, WeightUnion
<1>15. Weight(k, InQ(A)) = Weight(k, share[a]) + Weight(k, InQ(B))
  <2>1. Weighs(k, share[a]) /\ Weighs(k, InQ(B))
    BY <1>2, <1>3, <1>4, <1>11
  <2>2. QED
    BY <1>13, <2>1, WeightUnion
<1>16. Weight(f, A) = f[a] + Weight(f, B)
  BY <1>5, <1>8, <1>10, WeightRemove DEF B
<1>17. /\ Weight(h, part[a]) \in Nat /\ Weight(h, InR(B)) \in Nat
       /\ Weight(k, share[a]) \in Nat /\ Weight(k, InQ(B)) \in Nat
  BY <1>1, <1>2, <1>3, <1>4, <1>11
<1>18. f[a] = Weight(h, part[a]) + Weight(k, share[a])
  BY <1>11
<1>19. QED
  BY ONLY <1>8, <1>12, <1>14, <1>15, <1>16, <1>17, <1>18

-----------------------------------------------------------------------------
(* The bytes of a set of records *)

Bytes(S) == MapThenSumSet(LAMBDA k : k.bytes, S)
HasBytes(S) == IsFiniteSet(S) /\ \A k \in S : k.bytes \in Nat

\* They are a weight.
LEMMA ByteSum ==
    ASSUME NEW S, HasBytes(S)
    PROVE  /\ Weighs([k \in S |-> k.bytes], S)
           /\ Bytes(S) = Weight([k \in S |-> k.bytes], S)
<1> DEFINE f == [k \in S |-> k.bytes]
           Step(fold) == [s \in SUBSET S |->
                             IF s = {} THEN 0
                             ELSE (CHOOSE x \in s : TRUE).bytes
                                  + fold[s \ {CHOOSE x \in s : TRUE}]]
           sum == CHOOSE fold : fold = Step(fold)
<1>1. Weighs(f, S)
  BY DEF Weighs, HasBytes
<1>2. Bytes(S) = sum[S]
  BY DEF Bytes, MapThenSumSet, MapThenFoldSet
<1>3. ASSUME NEW fold PROVE IsSumFold(fold, f, S) <=> fold = Step(fold)
  <2>1. \A s \in SUBSET S : s # {} => f[CHOOSE x \in s : TRUE] = (CHOOSE x \in s : TRUE).bytes
    OBVIOUS
  <2>2. QED
    BY <2>1 DEF IsSumFold
<1>4. (\E w : w = Step(w)) => sum = Step(sum)
  <2> HIDE DEF Step
  <2>1. QED
    BY Zenon
<1> HIDE DEF sum, Step, f
<1>5. sum[S] = Weight(f, S)
  BY <1>1, <1>3, <1>4, SumIsWeight
<1>6. QED
  BY <1>1, <1>2, <1>5 DEF f

\* The bytes of a set are a number, and those of a subset are no more.
LEMMA BytesSubset ==
    ASSUME NEW S, HasBytes(S), NEW T \in SUBSET S
    PROVE  /\ HasBytes(T) /\ Bytes(T) \in Nat /\ Bytes(S) \in Nat
           /\ Bytes(T) <= Bytes(S)
           /\ Bytes(T) = Weight([k \in S |-> k.bytes], T)
<1> DEFINE f == [k \in S |-> k.bytes]
           g == [k \in T |-> k.bytes]
<1>1. HasBytes(T)
  BY FS_Subset DEF HasBytes
<1>2. /\ Weighs(f, S) /\ Bytes(S) = Weight(f, S)
      /\ Weighs(g, T) /\ Bytes(T) = Weight(g, T)
  BY <1>1, ByteSum
<1>3. \A x \in T : f[x] = g[x] /\ g[x] <= f[x]
  BY <1>1 DEF HasBytes
<1> HIDE DEF f, g
<1>4. Weight(f, T) = Weight(g, T)
  BY <1>2, <1>3, WeightSame
<1>5. Weight(g, T) <= Weight(f, S)
  BY <1>2, <1>3, WeightMonotone
<1>6. QED
  BY <1>1, <1>2, <1>4, <1>5, TokensFinite DEF f

\* A new record adds its bytes.
LEMMA BytesAdd ==
    ASSUME NEW S, HasBytes(S), NEW x, x \notin S, x.bytes \in Nat
    PROVE  HasBytes(S \cup {x}) /\ Bytes(S \cup {x}) = Bytes(S) + x.bytes
<1> DEFINE T == S \cup {x}
           f == [k \in T |-> k.bytes]
<1>1. HasBytes(T)
  BY FS_AddElement DEF HasBytes
<1>2. Weighs(f, T) /\ Bytes(T) = Weight(f, T)
  BY <1>1, ByteSum
<1>3. Bytes(S) = Weight(f, S) /\ Bytes(S) \in Nat
  BY <1>1, BytesSubset
<1>4. T \ {x} = S /\ x \in T /\ f[x] = x.bytes
  OBVIOUS
<1> HIDE DEF f, T
<1>5. Weight(f, T) = f[x] + Weight(f, T \ {x})
  BY <1>2, <1>4, WeightRemove
<1>6. Bytes(T) = Bytes(S) + x.bytes
  <2>1. Bytes(T) = x.bytes + Bytes(S)
    BY <1>2, <1>3, <1>4, <1>5, Zenon
  <2>2. QED
    BY <1>3, <2>1
<1>7. QED
  BY <1>1, <1>6 DEF T

\* No records have no bytes.
LEMMA BytesNone == HasBytes({}) /\ Bytes({}) = 0
<1>1. HasBytes({})
  BY FS_EmptySet DEF HasBytes
<1>2. QED
  BY <1>1, ByteSum, WeightEmpty

=============================================================================
