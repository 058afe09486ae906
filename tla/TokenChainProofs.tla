-------------------------- MODULE TokenChainProofs --------------------------
(***************************************************************************)
(* For every chain and every set of accounts: sums of balances and how one *)
(* update changes them, the rows that the queries of the token services    *)
(* select, and what an account owns after a block, event by event.  The    *)
(* proofs about CW-20 and ERC-20 tokens rest on these facts.  Induction is *)
(* stated for sets of numbers (NatInd).                                    *)
(***************************************************************************)
EXTENDS TokenChain, FiniteSetTheorems, WellFoundedInduction, TLAPS

(* The provers that try a leaf, one after the other, and their time in     *)
(* seconds.                                                                *)
USE SMTT(40), ZenonT(40)

(* The natural numbers are well-founded.                                   *)
LEMMA NatOrder == IsWellFoundedOn({ss \in Nat \X Nat : ss[1] < ss[2]}, Nat)
<1>1. OpToRel(<, Nat) = {ss \in Nat \X Nat : ss[1] < ss[2]}
  BY Zenon DEF OpToRel
<1> QED
  BY <1>1, NatLessThanWellFounded, Zenon

(* Induction for sets: a set with 0 and with every successor holds every   *)
(* natural number.                                                         *)
LEMMA NatInd ==
  ASSUME NEW S, 0 \in S, \A n \in Nat : n \in S => n + 1 \in S
  PROVE  Nat \subseteq S
<1> DEFINE T == Nat \ S
           R == {ss \in Nat \X Nat : ss[1] < ss[2]}
<1> SUFFICES ASSUME T # {} PROVE FALSE
  BY Zenon
<1>1. PICK x \in T : \A y \in T : ~ (<<y, x>> \in R)
  <2>1. T \subseteq Nat
    BY Zenon
  <2>2. IsWellFoundedOn(R, Nat)
    BY NatOrder, Zenon
  <2> HIDE DEF R, T
  <2> QED
    BY <2>1, <2>2, WFMin, Zenon
<1>2. x # 0 /\ x - 1 \in Nat
  OBVIOUS
<1>3. <<x - 1, x>> \in R
  BY <1>2
<1>4. x - 1 \in S
  BY <1>1, <1>2, <1>3, Zenon
<1>5. x = (x - 1) + 1
  OBVIOUS
<1> QED
  BY <1>2, <1>4, <1>5, Zenon

(* The element of T that a sum over T takes next.                          *)
One(T) == CHOOSE x \in T : TRUE

(* The sum of p[x] over S, as MapThenSumSet defines it.                    *)
Total(p, S) ==
    (CHOOSE g : g = [T \in SUBSET S |->
                       IF T = {} THEN 0 ELSE g[T \ {One(T)}] + p[One(T)]])[S]

(* The subsets of S with at most n elements, and a solution of the         *)
(* recursion of Total on them.                                             *)
UpTo(S, n) == {T \in SUBSET S : Cardinality(T) <= n}

SumsUpTo(g, p, S, n) ==
    g = [T \in UpTo(S, n) |-> IF T = {} THEN 0 ELSE g[T \ {One(T)}] + p[One(T)]]

(* CHOOSE takes an element of a set that has one.                          *)
LEMMA OneOf == \A T : T # {} => One(T) \in T
  BY Zenon DEF One

(* A finite set without one of its elements is smaller by one.             *)
LEMMA SmallerBy ==
  ASSUME NEW S, IsFiniteSet(S), NEW T \in SUBSET S, NEW y \in T
  PROVE  /\ IsFiniteSet(T) /\ Cardinality(T) \in Nat /\ Cardinality(T) > 0
         /\ T \ {y} \in SUBSET S /\ IsFiniteSet(T \ {y})
         /\ Cardinality(T \ {y}) = Cardinality(T) - 1
<1>1. IsFiniteSet(T)
  BY FS_Subset, Zenon
<1>2. Cardinality(T) \in Nat
  BY <1>1, FS_CardinalityType, Zenon
<1>3. Cardinality(T) # 0
  BY <1>1, FS_EmptySet, Zenon
<1>4. IsFiniteSet(T \ {y}) /\ Cardinality(T \ {y}) = Cardinality(T) - 1
  BY <1>1, FS_RemoveElement, Zenon
<1> QED
  BY <1>1, <1>2, <1>3, <1>4

(* The recursion over sets of at most n elements has a solution.           *)
LEMMA SumUpToExists ==
  ASSUME NEW p, NEW S, IsFiniteSet(S), NEW n \in Nat
  PROVE  \E g : SumsUpTo(g, p, S, n)
<1> DEFINE G == {m \in Nat : \E g : SumsUpTo(g, p, S, m)}
<1>1. 0 \in G
  <2> DEFINE g == [T \in UpTo(S, 0) |-> 0]
  <2>1. ASSUME NEW T \in UpTo(S, 0) PROVE T = {}
    <3>1. T \in SUBSET S /\ Cardinality(T) <= 0
      BY Zenon DEF UpTo
    <3>2. SUFFICES ASSUME NEW y \in T PROVE FALSE
      BY Zenon
    <3>3. Cardinality(T) \in Nat /\ Cardinality(T) > 0
      BY <3>1, <3>2, SmallerBy, Zenon
    <3> QED
      BY <3>1, <3>3
  <2>2. SumsUpTo(g, p, S, 0)
    BY <2>1, Zenon DEF SumsUpTo
  <2> QED
    BY <2>2, Zenon
<1>2. ASSUME NEW m \in Nat, m \in G
      PROVE  m + 1 \in G
  <2>1. PICK g : SumsUpTo(g, p, S, m)
    BY <1>2, Zenon
  <2> DEFINE h == [T \in UpTo(S, m + 1) |->
                     IF T = {} THEN 0 ELSE g[T \ {One(T)}] + p[One(T)]]
  <2>2. UpTo(S, m) \subseteq UpTo(S, m + 1)
    <3> SUFFICES ASSUME NEW T \in UpTo(S, m) PROVE T \in UpTo(S, m + 1)
      BY Zenon
    <3>1. T \in SUBSET S /\ Cardinality(T) <= m
      BY Zenon DEF UpTo
    <3>2. Cardinality(T) \in Nat
      BY <3>1, FS_Subset, FS_CardinalityType, Zenon
    <3>3. Cardinality(T) <= m + 1
      BY <3>1, <3>2
    <3> QED
      BY <3>1, <3>3, Zenon DEF UpTo
  <2>3. ASSUME NEW T \in UpTo(S, m)
        PROVE  h[T] = g[T]
    <3>1. g[T] = IF T = {} THEN 0 ELSE g[T \ {One(T)}] + p[One(T)]
      BY <2>1, Zenon DEF SumsUpTo
    <3> QED
      BY <2>2, <3>1, Zenon
  <2>4. ASSUME NEW T \in UpTo(S, m + 1), T # {}
        PROVE  T \ {One(T)} \in UpTo(S, m)
    <3>1. T \in SUBSET S /\ Cardinality(T) <= m + 1 /\ One(T) \in T
      BY <2>4, OneOf, Zenon DEF UpTo
    <3>2. PICK y \in T : y = One(T)
      BY <3>1, Zenon
    <3>3. Cardinality(T \ {y}) = Cardinality(T) - 1 /\ Cardinality(T) \in Nat
      BY <3>1, SmallerBy, Zenon
    <3>4. Cardinality(T \ {y}) <= m
      BY <3>1, <3>3
    <3>5. T \ {y} \in SUBSET S
      BY <3>1, Zenon
    <3> QED
      BY <3>2, <3>4, <3>5, Zenon DEF UpTo
  <2>5. ASSUME NEW T \in UpTo(S, m + 1)
        PROVE  h[T] = IF T = {} THEN 0 ELSE h[T \ {One(T)}] + p[One(T)]
    <3>1. h[T] = IF T = {} THEN 0 ELSE g[T \ {One(T)}] + p[One(T)]
      BY Zenon
    <3> HIDE DEF h
    <3> QED
      BY <2>3, <2>4, <3>1, Zenon
  <2>6. h = [T \in UpTo(S, m + 1) |-> h[T]]
    BY Zenon
  <2> HIDE DEF h
  <2>7. SumsUpTo(h, p, S, m + 1)
    BY <2>5, <2>6, Zenon DEF SumsUpTo
  <2> QED
    BY <2>7
<1> HIDE DEF G
<1>3. Nat \subseteq G
  BY <1>1, <1>2, NatInd, Zenon
<1> QED
  BY <1>3, Zenon DEF G

(* t adds the values up, in whatever order.                                *)
Adds(t, p, S) ==
    /\ t[{}] = 0
    /\ \A T \in SUBSET S : t[T] \in Int
    /\ \A T \in SUBSET S : \A y \in T : t[T] = t[T \ {y}] + p[y]

(* A Total is the last value of such a solution.                           *)
LEMMA TotalAdds ==
  ASSUME NEW p, NEW S, IsFiniteSet(S), \A x \in S : p[x] \in Int
  PROVE  \E t : Adds(t, p, S) /\ Total(p, S) = t[S]
<1> DEFINE it == CHOOSE g : g = [T \in SUBSET S |->
                    IF T = {} THEN 0 ELSE g[T \ {One(T)}] + p[One(T)]]
<1>1. \E g : g = [T \in SUBSET S |->
                    IF T = {} THEN 0 ELSE g[T \ {One(T)}] + p[One(T)]]
  <2>1. Cardinality(S) \in Nat
    BY FS_CardinalityType, Zenon
  <2>2. PICK g : SumsUpTo(g, p, S, Cardinality(S))
    BY <2>1, SumUpToExists, Zenon
  <2>3. UpTo(S, Cardinality(S)) = SUBSET S
    BY FS_Subset, Zenon DEF UpTo
  <2> QED
    BY <2>2, <2>3, Zenon DEF SumsUpTo
<1>2. it = [T \in SUBSET S |-> IF T = {} THEN 0 ELSE it[T \ {One(T)}] + p[One(T)]]
  BY <1>1, Zenon
<1>3. Total(p, S) = it[S]
  BY Zenon DEF Total
<1> HIDE DEF it
<1>4. it[{}] = 0
  BY <1>2, Zenon
<1>5. ASSUME NEW T \in SUBSET S, T # {}
      PROVE  it[T] = it[T \ {One(T)}] + p[One(T)]
  BY <1>2, <1>5, Zenon
<1> DEFINE Ok(T) == it[T] \in Int /\ \A y \in T : it[T] = it[T \ {y}] + p[y]
           G == {m \in Nat : \A T \in SUBSET S : Cardinality(T) <= m => Ok(T)}
<1>6. 0 \in G
  <2> SUFFICES ASSUME NEW T \in SUBSET S, Cardinality(T) <= 0 PROVE Ok(T)
    BY Zenon
  <2>1. T = {}
    <3> SUFFICES ASSUME NEW y \in T PROVE FALSE
      BY Zenon
    <3>1. Cardinality(T) \in Nat /\ Cardinality(T) > 0
      BY SmallerBy, Zenon
    <3> QED
      BY <3>1
  <2> QED
    BY <2>1, <1>4
<1>7. ASSUME NEW m \in Nat, m \in G
      PROVE  m + 1 \in G
  <2>a. m + 1 \in Nat
    OBVIOUS
  <2> SUFFICES ASSUME NEW T \in SUBSET S, Cardinality(T) <= m + 1 PROVE Ok(T)
    BY <2>a, Zenon
  <2>1. CASE T = {}
    BY <2>1, <1>4
  <2>2. CASE T # {}
    <3>1. PICK c \in T : c = One(T)
      BY <2>2, OneOf, Zenon
    <3>2. it[T] = it[T \ {c}] + p[c]
      BY <1>5, <2>2, <3>1, Zenon
    <3>3. ASSUME NEW y \in T
          PROVE  T \ {y} \in SUBSET S /\ Ok(T \ {y})
      <4>1. Cardinality(T) \in Nat /\ T \ {y} \in SUBSET S /\ Cardinality(T \ {y}) = Cardinality(T) - 1
        BY SmallerBy, Zenon
      <4>2. Cardinality(T \ {y}) <= m
        BY <4>1
      <4> QED
        BY <1>7, <4>1, <4>2, Zenon
    <3>4. it[T] \in Int
      <4>1. it[T \ {c}] \in Int /\ p[c] \in Int
        BY <3>3, Zenon
      <4> QED
        BY <3>2, <4>1
    <3>5. ASSUME NEW y \in T, y # c
          PROVE  it[T] = it[T \ {y}] + p[y]
      <4>1. it[T \ {c}] = it[(T \ {c}) \ {y}] + p[y]
        BY <3>3, <3>5, Zenon
      <4>2. it[T \ {y}] = it[(T \ {y}) \ {c}] + p[c]
        BY <3>3, <3>5, Zenon
      <4>3. (T \ {c}) \ {y} = (T \ {y}) \ {c}
        BY Zenon
      <4>4. (T \ {y}) \ {c} \in SUBSET S
        BY Zenon
      <4>5. it[(T \ {y}) \ {c}] \in Int
        <5>1. IsFiniteSet(T \ {y}) /\ Cardinality(T \ {y}) \in Nat /\ Cardinality(T) \in Nat
               /\ T \ {y} \in SUBSET S /\ Cardinality(T \ {y}) = Cardinality(T) - 1
          BY SmallerBy, FS_CardinalityType, Zenon
        <5>2. PICK U \in SUBSET S : U = T \ {y}
          BY <5>1, Zenon
        <5>3. Cardinality(U \ {c}) = Cardinality(U) - 1
          BY <3>5, <5>2, SmallerBy, Zenon
        <5>4. Cardinality((T \ {y}) \ {c}) <= m
          BY <5>1, <5>2, <5>3
        <5> QED
          BY <1>7, <4>4, <5>4, Zenon
      <4>6. p[y] \in Int /\ p[c] \in Int
        BY Zenon
      <4>7. PICK i \in Int : i = it[(T \ {y}) \ {c}]
        BY <4>5, Zenon
      <4>8. it[T \ {c}] = i + p[y] /\ it[T \ {y}] = i + p[c]
        BY <4>1, <4>2, <4>3, <4>7, Zenon
      <4>9. (i + p[y]) + p[c] = (i + p[c]) + p[y]
        BY <4>6
      <4> QED
        BY <3>2, <4>8, <4>9, Zenon
    <3> QED
      BY <3>2, <3>4, <3>5, Zenon
  <2> QED
    BY <2>1, <2>2, Zenon
<1> HIDE DEF G
<1>8. Nat \subseteq G
  BY <1>6, <1>7, NatInd, Zenon
<1>9. ASSUME NEW T \in SUBSET S
      PROVE  Ok(T)
  <2>1. Cardinality(T) \in Nat /\ Cardinality(T) <= Cardinality(T)
    BY FS_Subset, FS_CardinalityType, Zenon
  <2> QED
    BY <1>8, <2>1, Zenon DEF G
<1>10. Adds(it, p, S)
  BY <1>4, <1>9, Zenon DEF Adds
<1> QED
  BY <1>3, <1>10, Zenon

(* Two sums over the same finite set agree when the summands do.           *)
LEMMA AddsAgree ==
  ASSUME NEW p, NEW q, NEW S, NEW R, NEW t, NEW u, Adds(t, p, S), Adds(u, q, R),
         NEW T, IsFiniteSet(T), T \subseteq S, T \subseteq R,
         \A x \in T : p[x] = q[x]
  PROVE  t[T] = u[T]
<1> DEFINE G == {m \in Nat : \A U \in SUBSET T : Cardinality(U) <= m => t[U] = u[U]}
<1>1. 0 \in G
  <2> SUFFICES ASSUME NEW U \in SUBSET T, Cardinality(U) <= 0 PROVE t[U] = u[U]
    BY Zenon
  <2>1. U = {}
    <3> SUFFICES ASSUME NEW y \in U PROVE FALSE
      BY Zenon
    <3>1. Cardinality(U) \in Nat /\ Cardinality(U) > 0
      BY SmallerBy, Zenon
    <3> QED
      BY <3>1
  <2> QED
    BY <2>1, Zenon DEF Adds
<1>2. ASSUME NEW m \in Nat, m \in G
      PROVE  m + 1 \in G
  <2>1. m + 1 \in Nat
    OBVIOUS
  <2> SUFFICES ASSUME NEW U \in SUBSET T, Cardinality(U) <= m + 1 PROVE t[U] = u[U]
    BY <2>1, Zenon
  <2>2. CASE U = {}
    BY <2>2, Zenon DEF Adds
  <2>3. CASE U # {}
    <3>1. PICK y \in U : TRUE
      BY <2>3, Zenon
    <3>2. Cardinality(U \ {y}) = Cardinality(U) - 1 /\ Cardinality(U) \in Nat
      BY SmallerBy, Zenon
    <3>3. Cardinality(U \ {y}) <= m
      BY <3>2
    <3>4. t[U \ {y}] = u[U \ {y}]
      BY <1>2, <3>3, Zenon
    <3>5. U \in SUBSET S /\ U \in SUBSET R /\ p[y] = q[y]
      BY Zenon
    <3>6. t[U] = t[U \ {y}] + p[y] /\ u[U] = u[U \ {y}] + q[y]
      BY <3>5, Zenon DEF Adds
    <3> QED
      BY <3>4, <3>5, <3>6, Zenon
  <2> QED
    BY <2>2, <2>3, Zenon
<1> HIDE DEF G
<1>3. Nat \subseteq G
  BY <1>1, <1>2, NatInd, Zenon
<1>4. Cardinality(T) \in G /\ T \in SUBSET T /\ Cardinality(T) <= Cardinality(T)
  BY <1>3, FS_CardinalityType
<1> QED
  BY <1>4, Zenon DEF G

(* The sum over the empty set is 0.                                        *)
THEOREM TotalOfNone == ASSUME NEW p PROVE Total(p, {}) = 0
<1>1. PICK t : Adds(t, p, {}) /\ Total(p, {}) = t[{}]
  BY TotalAdds, FS_EmptySet, Zenon
<1> QED
  BY <1>1, Zenon DEF Adds

(* A sum of integers is an integer.                                        *)
THEOREM TotalType ==
  ASSUME NEW p, NEW S, IsFiniteSet(S), \A x \in S : p[x] \in Int
  PROVE  Total(p, S) \in Int
<1>1. PICK t : Adds(t, p, S) /\ Total(p, S) = t[S]
  BY TotalAdds, Zenon
<1> QED
  BY <1>1, Zenon DEF Adds

(* The sum depends on the summands only, not on the function they are      *)
(* taken from.                                                             *)
THEOREM TotalSame ==
  ASSUME NEW p, NEW q, NEW S, IsFiniteSet(S), \A x \in S : p[x] \in Int,
         \A x \in S : q[x] = p[x]
  PROVE  Total(q, S) = Total(p, S)
<1>1. PICK t : Adds(t, p, S) /\ Total(p, S) = t[S]
  BY TotalAdds, Zenon
<1>2. \A x \in S : q[x] \in Int
  BY Zenon
<1>3. PICK u : Adds(u, q, S) /\ Total(q, S) = u[S]
  BY <1>2, TotalAdds, Zenon
<1>4. t[S] = u[S]
  BY <1>1, <1>3, AddsAgree
<1> QED
  BY <1>1, <1>3, <1>4, Zenon

(* Writing one balance, a new one or a new value of an old one, changes    *)
(* the sum of the balances by the difference.                              *)
THEOREM TotalPut ==
  ASSUME NEW p, NEW q, NEW S, IsFiniteSet(S), \A y \in S : p[y] \in Int,
         NEW x, q[x] \in Int, \A y \in S : y # x => q[y] = p[y],
         NEW R, R = S \cup {x}
  PROVE  Total(q, R) = Total(p, S) + q[x] - (IF x \in S THEN p[x] ELSE 0)
<1>1. PICK t : Adds(t, p, S) /\ Total(p, S) = t[S]
  BY TotalAdds, Zenon
<1>2. \A y \in R : q[y] \in Int
  BY Zenon
<1>3. IsFiniteSet(R) /\ IsFiniteSet(S \ {x})
  <2>1. IsFiniteSet(S \cup {x})
    BY FS_AddElement, Zenon
  <2> QED
    BY <2>1, FS_RemoveElement, Zenon
<1>4. PICK u : Adds(u, q, R) /\ Total(q, R) = u[R]
  BY <1>2, <1>3, TotalAdds, Zenon
<1>5. t[S \ {x}] = u[S \ {x}] /\ t[S \ {x}] \in Int
  <2>1. PICK T : T = S \ {x}
    BY Zenon
  <2>2. IsFiniteSet(T) /\ T \subseteq S /\ T \subseteq R /\ \A y \in T : p[y] = q[y]
    BY <1>3, <2>1, Zenon
  <2>3. t[T] = u[T]
    BY <1>1, <1>4, <2>2, AddsAgree
  <2> QED
    BY <1>1, <2>1, <2>2, <2>3, Zenon DEF Adds
<1>6. u[R] = u[S \ {x}] + q[x]
  <2>1. R \ {x} = S \ {x} /\ x \in R
    BY Zenon
  <2> QED
    BY <1>4, <2>1 DEF Adds
<1>7. CASE x \in S
  <2>1. t[S] = t[S \ {x}] + p[x] /\ p[x] \in Int
    BY <1>1, <1>7, Zenon DEF Adds
  <2> QED
    BY <1>1, <1>4, <1>5, <1>6, <1>7, <2>1
<1>8. CASE x \notin S
  <2>1. S \ {x} = S
    BY <1>8, Zenon
  <2>2. t[S \ {x}] = t[S]
    BY <2>1, Zenon
  <2>3. Total(q, R) = Total(p, S) + q[x] /\ Total(p, S) \in Int
    BY <1>1, <1>4, <1>5, <1>6, <2>2, Zenon
  <2> QED
    BY <1>8, <2>3
<1> QED
  BY <1>7, <1>8, Zenon

(* s is strictly increasing on the elements in ids.                        *)
IncreasingOn(s, ids) ==
    \A j, k \in DOMAIN s : j < k /\ s[j] \in ids /\ s[k] \in ids => s[j] < s[k]

(* The elements of a concatenation.                                        *)
LEMMA Concatenated ==
  ASSUME NEW D, NEW s \in Seq(D), NEW t \in Seq(D)
  PROVE  /\ s \o t \in Seq(D)
         /\ Len(s \o t) = Len(s) + Len(t)
         /\ \A i \in 1 .. Len(s) + Len(t) :
               (s \o t)[i] = IF i <= Len(s) THEN s[i] ELSE t[i - Len(s)]
  OBVIOUS

(* Those, element by element.                                              *)
LEMMA ThoseTrace ==
  ASSUME NEW s, NEW n \in Nat, n = Len(s), NEW ids
  PROVE  \E f : /\ f[0] = <<>>
                /\ \A k \in 1 .. n : f[k] = IF s[k] \in ids THEN Append(f[k - 1], s[k]) ELSE f[k - 1]
                /\ Those(s, ids) = f[n]
<1> DEFINE Step(t, i) == IF i \in ids THEN Append(t, i) ELSE t
           Trace(f, m) == f = [k \in 0 .. m |-> IF k = 0 THEN <<>> ELSE Step(f[k - 1], s[k])]
           G == {m \in Nat : \E f : Trace(f, m)}
           after == CHOOSE f : Trace(f, n)
<1>1. Those(s, ids) = after[n]
  BY Zenon DEF Those, Fold
<1> HIDE DEF Step
<1>2. 0 \in G
  <2>1. Trace([k \in 0 .. 0 |-> <<>>], 0)
    OBVIOUS
  <2> QED
    BY <2>1, Zenon
<1>3. ASSUME NEW m \in Nat, m \in G
      PROVE  m + 1 \in G
  <2>1. PICK f : Trace(f, m)
    BY <1>3, Zenon
  <2> DEFINE g == [k \in 0 .. m + 1 |-> IF k <= m THEN f[k] ELSE Step(f[m], s[m + 1])]
  <2>2. ASSUME NEW k \in 0 .. m + 1
        PROVE  g[k] = IF k = 0 THEN <<>> ELSE Step(g[k - 1], s[k])
    BY <2>1
  <2>3. Trace(g, m + 1)
    BY <2>2, Zenon
  <2> HIDE DEF g, Trace
  <2> QED
    BY <2>3
<1> HIDE DEF G, Trace
<1>4. Nat \subseteq G
  BY <1>2, <1>3, NatInd, Zenon
<1>5. Trace(after, n)
  BY <1>4, Zenon DEF G
<1> HIDE DEF after
<1>6. /\ after[0] = <<>>
      /\ \A k \in 1 .. n : after[k] = Step(after[k - 1], s[k])
  BY <1>5 DEF Trace
<1> QED
  BY <1>1, <1>6, Zenon DEF Step

(* The elements that Those keeps, and that it keeps their order.           *)
LEMMA ThoseFacts ==
  ASSUME NEW D, NEW s \in Seq(D), NEW ids
  PROVE  /\ Those(s, ids) \in Seq(D)
         /\ Range(Those(s, ids)) = Range(s) \cap ids
         /\ D \subseteq Int /\ IncreasingOn(s, ids) => IncreasingOn(Those(s, ids), ids)
<1>1. PICK n \in Nat : n = Len(s) /\ DOMAIN s = 1 .. n
  OBVIOUS
<1>2. PICK f : /\ f[0] = <<>>
               /\ \A k \in 1 .. n : f[k] = IF s[k] \in ids THEN Append(f[k - 1], s[k]) ELSE f[k - 1]
               /\ Those(s, ids) = f[n]
  BY <1>1, ThoseTrace
<1>3. f[0] = <<>> /\ \A k \in 1 .. n : f[k] = IF s[k] \in ids THEN Append(f[k - 1], s[k]) ELSE f[k - 1]
  BY <1>2, Zenon
<1> DEFINE Ok(k) ==
             /\ f[k] \in Seq(D)
             /\ \A x : x \in Range(f[k]) <=> x \in ids /\ \E j \in 1 .. k : s[j] = x
             /\ D \subseteq Int /\ IncreasingOn(s, ids) => IncreasingOn(f[k], ids)
           G == {k \in Nat : k <= n => Ok(k)}
<1>4. 0 \in G
  <2>1. f[0] \in Seq(D) /\ DOMAIN f[0] = {} /\ 1 .. 0 = {}
    BY <1>3
  <2> QED
    BY <2>1, Zenon DEF Range, IncreasingOn
<1>5. ASSUME NEW m \in Nat, m \in G
      PROVE  m + 1 \in G
  <2>1. m + 1 \in Nat
    OBVIOUS
  <2> SUFFICES ASSUME m + 1 <= n PROVE Ok(m + 1)
    BY <2>1, Zenon
  <2>2. Ok(m) /\ m + 1 \in 1 .. n
    BY <1>5
  <2>3. f[m + 1] = IF s[m + 1] \in ids THEN Append(f[m], s[m + 1]) ELSE f[m]
    BY <1>3, <2>2
  <2>4. s[m + 1] \in D
    BY <1>1, <2>2
  <2>5. CASE s[m + 1] \notin ids
    <3>1. f[m + 1] = f[m]
      BY <2>3, <2>5, Zenon
    <3>2. \A x \in ids : (\E j \in 1 .. m : s[j] = x) <=> (\E j \in 1 .. m + 1 : s[j] = x)
      BY <2>5
    <3> QED
      BY <2>2, <3>1, <3>2, Zenon
  <2>6. CASE s[m + 1] \in ids
    <3>1. PICK g \in Seq(D) : g = f[m]
      BY <2>2, Zenon
    <3>2. PICK x \in D : x = s[m + 1]
      BY <2>4, Zenon
    <3>3. PICK l \in Nat : l = Len(g) /\ DOMAIN g = 1 .. l
      OBVIOUS
    <3>4. f[m + 1] = Append(g, x)
      BY <2>3, <2>6, <3>1, <3>2, Zenon
    <3>5. /\ Append(g, x) \in Seq(D) /\ DOMAIN Append(g, x) = 1 .. l + 1
          /\ \A k \in 1 .. l : Append(g, x)[k] = g[k]
          /\ Append(g, x)[l + 1] = x
      BY <3>3
    <3>6. Range(Append(g, x)) = Range(g) \cup {x}
      BY <3>3, <3>5 DEF Range
    <3>7. \A y : y \in Range(f[m + 1]) <=> y \in ids /\ \E j \in 1 .. m + 1 : s[j] = y
      <4>1. \A y : y \in Range(g) <=> y \in ids /\ \E j \in 1 .. m : s[j] = y
        BY <2>2, <3>1, Zenon
      <4>2. \A y : (\E j \in 1 .. m + 1 : s[j] = y) <=> (y = x \/ \E j \in 1 .. m : s[j] = y)
        BY <3>2
      <4> QED
        BY <2>6, <3>2, <3>4, <3>6, <4>1, <4>2, Zenon
    <3>8. ASSUME D \subseteq Int, IncreasingOn(s, ids)
          PROVE  IncreasingOn(f[m + 1], ids)
      <4>1. IncreasingOn(g, ids)
        BY <2>2, <3>1, <3>8, Zenon
      <4>2. ASSUME NEW j \in 1 .. l
            PROVE  g[j] < x
        <5>1. PICK i \in 1 .. m : s[i] = g[j] /\ g[j] \in ids
          BY <2>2, <3>1, <3>3, Zenon DEF Range
        <5>2. i \in 1 .. n /\ m + 1 \in 1 .. n /\ i < m + 1
          BY <2>2
        <5> QED
          BY <1>1, <2>6, <3>2, <3>8, <5>1, <5>2, Zenon DEF IncreasingOn
      <4> QED
        BY <3>3, <3>4, <3>5, <4>1, <4>2 DEF IncreasingOn
    <3> QED
      BY <3>4, <3>5, <3>7, <3>8, Zenon
  <2> QED
    BY <2>5, <2>6, Zenon
<1> HIDE DEF G
<1>6. Nat \subseteq G
  BY <1>4, <1>5, NatInd, Zenon
<1>7. Ok(n)
  <2>1. n \in G /\ n <= n
    BY <1>6
  <2> HIDE DEF Ok
  <2> QED
    BY <2>1, Zenon DEF G
<1>8. Those(s, ids) = f[n]
  BY <1>2, Zenon
<1>9. \A x : x \in Range(s) <=> \E j \in 1 .. n : s[j] = x
  BY <1>1, Zenon DEF Range
<1>10. Range(f[n]) = Range(s) \cap ids
  BY <1>7, <1>9, Zenon
<1> QED
  BY <1>7, <1>8, <1>10, Zenon

(* The events of a set, each once and in the order of their ids: the ORDER *)
(* BY of the queries that read events.                                     *)
LEMMA InOrderFacts ==
  ASSUME NEW n \in Nat, DOMAIN events = 1 .. n, NEW ids
  PROVE  /\ InOrder(ids) \in Seq(1 .. n)
         /\ Range(InOrder(ids)) = ids \cap 1 .. n
         /\ IncreasingOn(InOrder(ids), ids)
<1> DEFINE s == [i \in DOMAIN events |-> i]
<1>1. s \in Seq(1 .. n) /\ DOMAIN s = 1 .. n /\ \A i \in 1 .. n : s[i] = i
  OBVIOUS
<1>2. InOrder(ids) = Those(s, ids)
  BY Zenon DEF InOrder
<1> HIDE DEF s
<1>3. Range(s) = 1 .. n
  BY <1>1, Zenon DEF Range
<1>4. IncreasingOn(s, ids) /\ 1 .. n \subseteq Int
  BY <1>1 DEF IncreasingOn
<1> QED
  BY <1>1, <1>2, <1>3, <1>4, ThoseFacts

(* An increasing sequence of all the numbers above a up to b.              *)
LEMMA Consecutive ==
  ASSUME NEW a \in Int, NEW b \in Int, a <= b, NEW s \in Seq(Int), NEW ids,
         IncreasingOn(s, ids), Range(s) = a + 1 .. b, Range(s) \subseteq ids
  PROVE  Len(s) = b - a /\ \A k \in 1 .. Len(s) : s[k] = a + k
<1>1. PICK l \in Nat : l = Len(s) /\ DOMAIN s = 1 .. l
  OBVIOUS
<1>2. /\ \A k \in 1 .. l : s[k] \in a + 1 .. b
      /\ \A x \in a + 1 .. b : \E k \in 1 .. l : s[k] = x
  BY <1>1, Zenon DEF Range
<1>3. \A j, k \in 1 .. l : j < k => s[j] < s[k]
  BY <1>1, <1>2, Zenon DEF IncreasingOn
<1> DEFINE G == {k \in Nat : k <= b - a => k <= l /\ \A j \in 1 .. k : s[j] = a + j}
<1>4. 0 \in G
  OBVIOUS
<1>5. ASSUME NEW m \in Nat, m \in G
      PROVE  m + 1 \in G
  <2> SUFFICES ASSUME m + 1 <= b - a
               PROVE  m + 1 <= l /\ \A j \in 1 .. m + 1 : s[j] = a + j
    OBVIOUS
  <2>1. m <= l /\ \A j \in 1 .. m : s[j] = a + j
    BY <1>5
  <2>2. PICK i \in 1 .. l : s[i] = a + m + 1
    <3>1. a + m + 1 \in a + 1 .. b
      OBVIOUS
    <3> QED
      BY <1>2, <3>1, Zenon
  <2>3. i > m
    BY <2>1, <2>2
  <2>4. m + 1 \in 1 .. l
    BY <2>3
  <2>5. s[m + 1] \in Int /\ s[m + 1] <= a + m + 1
    <3>1. s[m + 1] \in Int
      BY <1>1, <2>4
    <3>2. CASE i = m + 1
      BY <2>2, <3>2
    <3>3. CASE i # m + 1
      <4>1. m + 1 < i
        BY <2>3, <3>3
      <4>2. s[m + 1] < s[i]
        BY <1>3, <2>4, <4>1, Zenon
      <4> QED
        BY <2>2, <3>1, <4>2
    <3> QED
      BY <3>1, <3>2, <3>3, Zenon
  <2>6. s[m + 1] > a + m
    <3>1. CASE m = 0
      BY <1>2, <2>4, <3>1
    <3>2. CASE m > 0
      <4>1. s[m] = a + m /\ m \in 1 .. l
        BY <2>1, <3>2
      <4> QED
        BY <1>3, <2>4, <4>1
    <3> QED
      BY <3>1, <3>2
  <2>7. s[m + 1] = a + (m + 1)
    BY <2>5, <2>6
  <2>8. \A j \in 1 .. m + 1 : j \in 1 .. m \/ j = m + 1
    OBVIOUS
  <2>9. ASSUME NEW j \in 1 .. m + 1 PROVE s[j] = a + j
    BY <2>1, <2>7, <2>8, Zenon
  <2>10. m + 1 <= l
    BY <2>4
  <2> QED
    BY <2>9, <2>10, Zenon
<1> HIDE DEF G
<1>6. Nat \subseteq G
  BY <1>4, <1>5, NatInd, Zenon
<1>7. b - a \in Nat /\ b - a \in G
  BY <1>6
<1>8. b - a <= l /\ \A j \in 1 .. b - a : s[j] = a + j
  BY <1>7 DEF G
<1>9. l <= b - a
  <2> SUFFICES ASSUME l > b - a PROVE FALSE
    BY <1>7
  <2>1. l \in 1 .. l /\ s[l] \in a + 1 .. b
    BY <1>2, <1>7
  <2>2. PICK i \in 1 .. b - a : s[l] = a + i
    <3>1. s[l] - a \in 1 .. b - a /\ s[l] = a + (s[l] - a)
      BY <2>1
    <3> QED
      BY <3>1, Zenon
  <2>3. s[i] = s[l] /\ i < l /\ i \in 1 .. l
    BY <1>8, <2>2
  <2> QED
    BY <1>3, <2>1, <2>3
<1> QED
  BY <1>1, <1>7, <1>8, <1>9
-----------------------------------------------------------------------------
(* What an account owns that owned base before the moves of s.             *)
OwnedSum(a, base, s) == Fold(LAMBDA sum, e : sum + Credit(e, a) - Debit(e, a), base, s)

(* A move of tokens, and an event of the chain.                            *)
Move == [from : Addr \cup {None}, to : Addr \cup {None}]
Event == [height : Int, from : Addr \cup {None}, to : Addr \cup {None}]

(* What a owns after the first k events.                                   *)
Worth(a, k) == OwnedSum(a, Initial[a], SubSeq(events, 1, k))

(* The chain: blocks one after the other, and nobody in debt.              *)
Heights ==
    /\ head \in Int /\ StartBlock <= head
    /\ events \in Seq(Event)
    /\ \A i \in DOMAIN events : StartBlock < events[i].height /\ events[i].height <= head
    /\ \A i, j \in DOMAIN events : i <= j => events[i].height <= events[j].height

(* ... and nobody ever owns less than nothing.                             *)
Chain ==
    /\ Heights
    /\ \A a \in Addr : \A k \in 0 .. Len(events) : Worth(a, k) >= 0

(* What an event gives and takes is a number.                              *)
LEMMA CreditType ==
  ASSUME NEW e, NEW a
  PROVE  Credit(e, a) \in Int /\ Debit(e, a) \in Int
  BY DEF Credit, Debit

(* SubSeq from the first position is a prefix.                             *)
LEMMA SubSeqPrefix ==
  ASSUME NEW D, NEW s \in Seq(D), NEW k \in 0 .. Len(s)
  PROVE  /\ SubSeq(s, 1, k) = [i \in 1 .. k |-> s[i]]
         /\ Len(SubSeq(s, 1, k)) = k
  OBVIOUS

(* What an account owns, move by move.                                     *)
OwnedTraced(f, a, base, s, n) ==
    /\ f[0] = base
    /\ \A k \in 1 .. n : f[k] = f[k - 1] + Credit(s[k], a) - Debit(s[k], a)
    /\ OwnedSum(a, base, s) = f[n]

(* OwnedSum has such a trace.                                              *)
LEMMA OwnedTrace ==
  ASSUME NEW s, NEW n \in Nat, n = Len(s), NEW a, NEW base
  PROVE  \E f : OwnedTraced(f, a, base, s, n)
<1> DEFINE Step(sum, e) == sum + Credit(e, a) - Debit(e, a)
           Trace(f, m) == f = [k \in 0 .. m |-> IF k = 0 THEN base ELSE Step(f[k - 1], s[k])]
           G == {m \in Nat : \E f : Trace(f, m)}
           after == CHOOSE f : Trace(f, n)
<1>1. OwnedSum(a, base, s) = after[n]
  BY Zenon DEF OwnedSum, Fold
<1> HIDE DEF Step
<1>2. 0 \in G
  <2>1. Trace([k \in 0 .. 0 |-> base], 0)
    OBVIOUS
  <2> QED
    BY <2>1, Zenon
<1>3. ASSUME NEW m \in Nat, m \in G
      PROVE  m + 1 \in G
  <2>1. PICK f : Trace(f, m)
    BY <1>3, Zenon
  <2> DEFINE g == [k \in 0 .. m + 1 |-> IF k <= m THEN f[k] ELSE Step(f[m], s[m + 1])]
  <2>2. ASSUME NEW k \in 0 .. m + 1
        PROVE  g[k] = IF k = 0 THEN base ELSE Step(g[k - 1], s[k])
    BY <2>1
  <2>3. Trace(g, m + 1)
    BY <2>2, Zenon
  <2> HIDE DEF g, Trace
  <2> QED
    BY <2>3
<1> HIDE DEF G, Trace
<1>4. Nat \subseteq G
  BY <1>2, <1>3, NatInd
<1>5. Trace(after, n)
  BY <1>4 DEF G
<1> HIDE DEF after
<1>6. /\ after[0] = base
      /\ \A k \in 1 .. n : after[k] = Step(after[k - 1], s[k])
  BY <1>5 DEF Trace
<1> QED
  BY <1>1, <1>6, Zenon DEF Step, OwnedTraced

(* A fold of moves, prefix by prefix.                                      *)
LEMMA OwnedSteps ==
  ASSUME NEW D, NEW s \in Seq(D), NEW a, NEW base \in Int
  PROVE  /\ OwnedSum(a, base, SubSeq(s, 1, 0)) = base
         /\ \A k \in 1 .. Len(s) :
              OwnedSum(a, base, SubSeq(s, 1, k)) =
                OwnedSum(a, base, SubSeq(s, 1, k - 1)) + Credit(s[k], a) - Debit(s[k], a)
         /\ \A k \in 0 .. Len(s) : OwnedSum(a, base, SubSeq(s, 1, k)) \in Int
<1> DEFINE W(k) == OwnedSum(a, base, SubSeq(s, 1, k))
<1>1. PICK n \in Nat : n = Len(s)
  OBVIOUS
<1>a. PICK f : OwnedTraced(f, a, base, s, n)
  BY <1>1, OwnedTrace, Zenon
<1>2. /\ f[0] = base
      /\ \A k \in 1 .. n : f[k] = f[k - 1] + Credit(s[k], a) - Debit(s[k], a)
  BY <1>a, Zenon DEF OwnedTraced
<1>3. ASSUME NEW k \in 0 .. n
      PROVE  W(k) = f[k]
  <2>1. PICK r : r = SubSeq(s, 1, k)
    BY Zenon
  <2>2. Len(r) = k /\ k \in Nat /\ \A i \in 1 .. k : r[i] = s[i]
    BY <1>1, <2>1, SubSeqPrefix
  <2>a. PICK g : OwnedTraced(g, a, base, r, k)
    BY <2>2, OwnedTrace, Zenon
  <2>3. /\ g[0] = base
        /\ \A i \in 1 .. k : g[i] = g[i - 1] + Credit(r[i], a) - Debit(r[i], a)
        /\ OwnedSum(a, base, r) = g[k]
    BY <2>a, Zenon DEF OwnedTraced
  <2> DEFINE H == {j \in Nat : j <= k => g[j] = f[j]}
  <2>4. 0 \in H
    BY <1>2, <2>3, Zenon
  <2>5. ASSUME NEW j \in Nat, j \in H
        PROVE  j + 1 \in H
    <3> SUFFICES ASSUME j + 1 <= k PROVE g[j + 1] = f[j + 1]
      OBVIOUS
    <3>1. j + 1 \in 1 .. k /\ j + 1 \in 1 .. n /\ (j + 1) - 1 = j /\ g[j] = f[j]
      BY <2>5
    <3>2. r[j + 1] = s[j + 1]
      BY <2>2, <3>1, Zenon
    <3>3. g[j + 1] = g[j] + Credit(s[j + 1], a) - Debit(s[j + 1], a)
      BY <2>3, <3>1, <3>2, Zenon
    <3>4. f[j + 1] = f[j] + Credit(s[j + 1], a) - Debit(s[j + 1], a)
      BY <1>2, <3>1, Zenon
    <3> QED
      BY <3>1, <3>3, <3>4, Zenon
  <2> HIDE DEF H
  <2>6. Nat \subseteq H
    BY <2>4, <2>5, NatInd, Zenon
  <2>7. g[k] = f[k]
    BY <2>2, <2>6 DEF H
  <2> QED
    BY <2>1, <2>3, <2>7, Zenon
<1> HIDE DEF W
<1>4. /\ W(0) = base
      /\ \A k \in 1 .. n : W(k) = W(k - 1) + Credit(s[k], a) - Debit(s[k], a)
  <2>1. 0 \in 0 .. n /\ \A k \in 1 .. n : k \in 0 .. n /\ k - 1 \in 0 .. n
    OBVIOUS
  <2> QED
    BY <1>2, <1>3, <2>1, Zenon
<1> DEFINE G == {k \in Nat : k <= n => W(k) \in Int}
<1>5. 0 \in G
  BY <1>4, Zenon
<1>6. ASSUME NEW k \in Nat, k \in G
      PROVE  k + 1 \in G
  <2> SUFFICES ASSUME k + 1 <= n PROVE W(k + 1) \in Int
    OBVIOUS
  <2>1. W(k) \in Int /\ k + 1 \in 1 .. n /\ (k + 1) - 1 = k
    BY <1>6
  <2>2. W(k + 1) = W(k) + Credit(s[k + 1], a) - Debit(s[k + 1], a)
    BY <1>4, <2>1, Zenon
  <2> QED
    BY <2>1, <2>2, CreditType
<1> HIDE DEF G
<1>7. Nat \subseteq G
  BY <1>5, <1>6, NatInd, Zenon
<1>8. \A k \in 0 .. n : W(k) \in Int
  BY <1>7 DEF G
<1> QED
  BY <1>1, <1>4, <1>8, Zenon DEF W

(* What an account owns changes event by event.                            *)
LEMMA WorthSteps ==
  ASSUME Heights, NEW a \in Addr
  PROVE  /\ Worth(a, 0) = Initial[a]
         /\ \A k \in 1 .. Len(events) :
              Worth(a, k) = Worth(a, k - 1) + Credit(events[k], a) - Debit(events[k], a)
         /\ \A k \in 0 .. Len(events) : Worth(a, k) \in Int
<1>1. events \in Seq(Event) /\ Initial[a] \in Int
  BY TokenAssumption DEF Heights
<1> DEFINE W(k) == OwnedSum(a, Initial[a], SubSeq(events, 1, k))
<1>2. /\ W(0) = Initial[a]
      /\ \A k \in 1 .. Len(events) : W(k) = W(k - 1) + Credit(events[k], a) - Debit(events[k], a)
      /\ \A k \in 0 .. Len(events) : W(k) \in Int
  BY <1>1, OwnedSteps, Zenon
<1>3. \A k : Worth(a, k) = W(k)
  BY Zenon DEF Worth
<1> HIDE DEF W
<1> QED
  BY <1>2, <1>3, Zenon

(* The events up to a block are the first ones.                            *)
LEMMA UpToBlock ==
  ASSUME Heights, NEW h \in Int
  PROVE  \E m \in 0 .. Len(events) : \A i \in DOMAIN events : events[i].height <= h <=> i <= m
<1>1. PICK n \in Nat : n = Len(events) /\ DOMAIN events = 1 .. n
  BY DEF Heights
<1> DEFINE Ht(i) == events[i].height
<1>2. /\ \A i \in 1 .. n : Ht(i) \in Int
      /\ \A i, j \in 1 .. n : i <= j => Ht(i) <= Ht(j)
  <2>1. \A i \in 1 .. n : events[i] \in Event
    BY <1>1 DEF Heights
  <2>2. \A i \in 1 .. n : events[i].height \in Int
    BY <2>1, Zenon DEF Event
  <2>3. \A i, j \in 1 .. n : i <= j => events[i].height <= events[j].height
    BY <1>1, Zenon DEF Heights
  <2> QED
    BY <2>2, <2>3, Zenon
<1> HIDE DEF Ht
<1> DEFINE G == {k \in Nat : k <= n => \E m \in 0 .. k : \A i \in 1 .. k : Ht(i) <= h <=> i <= m}
<1>3. 0 \in G
  OBVIOUS
<1>4. ASSUME NEW k \in Nat, k \in G
      PROVE  k + 1 \in G
  <2> SUFFICES ASSUME k + 1 <= n
               PROVE  \E m \in 0 .. k + 1 : \A i \in 1 .. k + 1 : Ht(i) <= h <=> i <= m
    OBVIOUS
  <2>1. PICK m \in 0 .. k : \A i \in 1 .. k : Ht(i) <= h <=> i <= m
    BY <1>4
  <2>2. CASE Ht(k + 1) <= h
    <3>1. \A i \in 1 .. k + 1 : Ht(i) <= h /\ i <= k + 1
      BY <1>2, <2>2
    <3> QED
      BY <3>1
  <2>3. CASE ~ (Ht(k + 1) <= h)
    <3>1. \A i \in 1 .. k + 1 : i \in 1 .. k \/ (i = k + 1 /\ ~ (i <= m))
      OBVIOUS
    <3>2. m \in 0 .. k + 1
      OBVIOUS
    <3> QED
      BY <2>1, <2>3, <3>1, <3>2, Zenon
  <2> QED
    BY <2>2, <2>3, Zenon
<1> HIDE DEF G
<1>5. Nat \subseteq G
  BY <1>3, <1>4, NatInd, Zenon
<1>6. PICK m \in 0 .. n : \A i \in 1 .. n : Ht(i) <= h <=> i <= m
  BY <1>5 DEF G
<1>7. \A i \in DOMAIN events : events[i].height <= h <=> i <= m
  BY <1>1, <1>6, Zenon DEF Ht
<1> QED
  BY <1>1, <1>7, Zenon

(* The number of events in the blocks up to h.                             *)
EventsTo(h) == CHOOSE m \in 0 .. Len(events) : \A i \in DOMAIN events : events[i].height <= h <=> i <= m

(* EventsTo counts the events up to a block.                               *)
LEMMA EventsToFacts ==
  ASSUME Heights, NEW h \in Int
  PROVE  /\ EventsTo(h) \in 0 .. Len(events)
         /\ \A i \in DOMAIN events : events[i].height <= h <=> i <= EventsTo(h)
  BY UpToBlock, Zenon DEF EventsTo

(* The types of events and their ids.                                      *)
LEMMA EventTyped ==
  ASSUME Heights
  PROVE  /\ Len(events) \in Nat /\ DOMAIN events = 1 .. Len(events)
         /\ \A i \in DOMAIN events : events[i] \in Event /\ events[i].height \in Int
<1>1. events \in Seq(Event)
  BY Zenon DEF Heights
<1>2. \A i \in DOMAIN events : events[i] \in Event
  BY <1>1
<1> QED
  BY <1>1, <1>2 DEF Event

(* The count is determined by its events.                                  *)
LEMMA EventsToIs ==
  ASSUME Heights, NEW h \in Int, NEW m \in 0 .. Len(events),
         \A i \in DOMAIN events : events[i].height <= h <=> i <= m
  PROVE  EventsTo(h) = m
<1>0. PICK n \in Nat : n = Len(events) /\ DOMAIN events = 1 .. n
  BY EventTyped, Zenon
<1>1. PICK k \in 0 .. n : k = EventsTo(h)
  BY <1>0, EventsToFacts, Zenon
<1>2. \A i \in 1 .. n : i <= k <=> i <= m
  BY <1>0, <1>1, EventsToFacts, Zenon
<1>3. k = m
  <2>1. m \in 0 .. n
    BY <1>0, <1>1, Zenon
  <2>2. CASE k < m
    <3>1. m \in 1 .. n /\ m <= m /\ ~ (m <= k)
      BY <2>1, <2>2
    <3> QED
      BY <1>2, <3>1, Zenon
  <2>3. CASE m < k
    <3>1. k \in 1 .. n /\ k <= k /\ ~ (k <= m)
      BY <2>1, <2>3
    <3> QED
      BY <1>2, <3>1, Zenon
  <2> QED
    BY <2>1, <2>2, <2>3
<1> QED
  BY <1>0, <1>1, <1>3, Zenon

(* It grows with the height, from 0 at the start of the chain to all       *)
(* events at its head.                                                     *)
LEMMA EventsToOrder ==
  ASSUME Heights, NEW g \in Int, NEW h \in Int
  PROVE  /\ g <= h => EventsTo(g) <= EventsTo(h)
         /\ g <= StartBlock => EventsTo(g) = 0
         /\ head <= h => EventsTo(h) = Len(events)
<1>1. Len(events) \in Nat /\ DOMAIN events = 1 .. Len(events) /\ \A i \in DOMAIN events : events[i].height \in Int
  BY EventTyped, Zenon
<1>2. ASSUME g <= h
      PROVE  EventsTo(g) <= EventsTo(h)
  <2>1. PICK k \in 0 .. Len(events), m \in 0 .. Len(events) : k = EventsTo(g) /\ m = EventsTo(h)
    BY EventsToFacts, Zenon
  <2>2. SUFFICES ASSUME m < k PROVE FALSE
    BY <1>1, <2>1
  <2>3. k \in DOMAIN events /\ k <= k
    BY <1>1, <2>2
  <2>4. events[k].height <= g
    BY <2>1, <2>3, EventsToFacts, Zenon
  <2>5. events[k].height <= h
    BY <1>1, <1>2, <2>3, <2>4
  <2>6. k <= m
    BY <2>1, <2>3, <2>5, EventsToFacts, Zenon
  <2> QED
    BY <1>1, <2>2, <2>6
<1>3. ASSUME g <= StartBlock
      PROVE  EventsTo(g) = 0
  <2>1. ASSUME NEW i \in DOMAIN events PROVE events[i].height <= g <=> i <= 0
    <3>1. StartBlock < events[i].height /\ events[i].height \in Int /\ StartBlock \in Int /\ i \in 1 .. Len(events)
      BY <1>1, StartBlockAssumption DEF Heights
    <3> QED
      BY <1>1, <1>3, <3>1
  <2>2. 0 \in 0 .. Len(events)
    BY <1>1
  <2> QED
    BY <2>1, <2>2, EventsToIs, Zenon
<1>4. ASSUME head <= h
      PROVE  EventsTo(h) = Len(events)
  <2>1. ASSUME NEW i \in DOMAIN events PROVE events[i].height <= h <=> i <= Len(events)
    <3>1. events[i].height <= head /\ events[i].height \in Int /\ head \in Int /\ i \in 1 .. Len(events)
      BY <1>1, Zenon DEF Heights
    <3> QED
      BY <1>1, <1>4, <3>1
  <2>2. Len(events) \in 0 .. Len(events)
    BY <1>1
  <2> QED
    BY <2>1, <2>2, EventsToIs, Zenon
<1> QED
  BY <1>2, <1>3, <1>4, Zenon

(* The events of a range of blocks are an interval of ids.                 *)
LEMMA InBlocksInterval ==
  ASSUME Heights, NEW lo \in Int, NEW hi \in Int
  PROVE  InBlocks(lo, hi) = EventsTo(lo) + 1 .. EventsTo(hi)
<1>0. PICK n \in Nat : n = Len(events) /\ DOMAIN events = 1 .. n
  BY EventTyped, Zenon
<1>1. PICK k \in 0 .. n, m \in 0 .. n : k = EventsTo(lo) /\ m = EventsTo(hi)
  BY <1>0, EventsToFacts, Zenon
<1>2. \A i \in 1 .. n : events[i].height <= lo <=> i <= k
  BY <1>0, <1>1, EventsToFacts, Zenon
<1>3. \A i \in 1 .. n : events[i].height <= hi <=> i <= m
  BY <1>0, <1>1, EventsToFacts, Zenon
<1>4. \A i \in 1 .. n : events[i].height \in Int
  BY <1>0, <1>1, EventTyped, Zenon
<1>5. \A i \in 1 .. n : i \in InBlocks(lo, hi) <=> i \in k + 1 .. m
  BY <1>0, <1>1, <1>2, <1>3, <1>4 DEF InBlocks
<1>6. InBlocks(lo, hi) \subseteq 1 .. n /\ k + 1 .. m \subseteq 1 .. n
  BY <1>0, <1>1 DEF InBlocks
<1> QED
  BY <1>0, <1>1, <1>5, <1>6, Zenon

(* Balance, event by event.                                                *)
LEMMA BalanceTrace ==
  ASSUME NEW s, s = events, NEW n \in Nat, n = Len(s), NEW a, NEW h
  PROVE  \E f : /\ f[0] = Initial[a]
                /\ \A k \in 1 .. n : f[k] = IF s[k].height <= h
                                            THEN f[k - 1] + Credit(s[k], a) - Debit(s[k], a) ELSE f[k - 1]
                /\ Balance(a, h) = f[n]
<1> DEFINE Step(sum, e) == IF e.height <= h THEN sum + Credit(e, a) - Debit(e, a) ELSE sum
           Trace(f, m) == f = [k \in 0 .. m |-> IF k = 0 THEN Initial[a] ELSE Step(f[k - 1], s[k])]
           G == {m \in Nat : \E f : Trace(f, m)}
           after == CHOOSE f : Trace(f, n)
<1>1. Balance(a, h) = after[n]
  BY Zenon DEF Balance, Fold
<1> HIDE DEF Step
<1>2. 0 \in G
  <2>1. Trace([k \in 0 .. 0 |-> Initial[a]], 0)
    OBVIOUS
  <2> QED
    BY <2>1, Zenon
<1>3. ASSUME NEW m \in Nat, m \in G
      PROVE  m + 1 \in G
  <2>1. PICK f : Trace(f, m)
    BY <1>3, Zenon
  <2> DEFINE g == [k \in 0 .. m + 1 |-> IF k <= m THEN f[k] ELSE Step(f[m], s[m + 1])]
  <2>2. ASSUME NEW k \in 0 .. m + 1
        PROVE  g[k] = IF k = 0 THEN Initial[a] ELSE Step(g[k - 1], s[k])
    BY <2>1
  <2>3. Trace(g, m + 1)
    BY <2>2, Zenon
  <2> HIDE DEF g, Trace
  <2> QED
    BY <2>3
<1> HIDE DEF G, Trace
<1>4. Nat \subseteq G
  BY <1>2, <1>3, NatInd, Zenon
<1>5. Trace(after, n)
  BY <1>4, Zenon DEF G
<1> HIDE DEF after
<1>6. /\ after[0] = Initial[a]
      /\ \A k \in 1 .. n : after[k] = Step(after[k - 1], s[k])
  BY <1>5 DEF Trace
<1> QED
  BY <1>1, <1>6, Zenon DEF Step

(* What an account owns after a block is what the events up to it give.    *)
LEMMA BalanceIsWorth ==
  ASSUME Heights, NEW a \in Addr, NEW h \in Int
  PROVE  Balance(a, h) = Worth(a, EventsTo(h)) /\ Balance(a, h) \in Int
<1>0. PICK n \in Nat : n = Len(events) /\ DOMAIN events = 1 .. n
  BY EventTyped, Zenon
<1>1. PICK m \in 0 .. n : m = EventsTo(h)
  BY <1>0, EventsToFacts, Zenon
<1>2. PICK f : /\ f[0] = Initial[a]
               /\ \A k \in 1 .. n : f[k] = IF events[k].height <= h
                                           THEN f[k - 1] + Credit(events[k], a) - Debit(events[k], a) ELSE f[k - 1]
               /\ Balance(a, h) = f[n]
  BY <1>0, BalanceTrace
<1>3. /\ f[0] = Initial[a]
      /\ \A k \in 1 .. n : f[k] = IF events[k].height <= h
                                  THEN f[k - 1] + Credit(events[k], a) - Debit(events[k], a) ELSE f[k - 1]
  BY <1>2, Zenon
<1>4. \A k \in 1 .. n : events[k].height <= h <=> k <= m
  BY <1>0, <1>1, EventsToFacts, Zenon
<1>5. /\ Worth(a, 0) = Initial[a]
      /\ \A k \in 1 .. n : Worth(a, k) = Worth(a, k - 1) + Credit(events[k], a) - Debit(events[k], a)
      /\ \A k \in 0 .. n : Worth(a, k) \in Int
  BY <1>0, <1>1, WorthSteps, Zenon
<1> DEFINE G == {k \in Nat : k <= n => f[k] = Worth(a, IF k <= m THEN k ELSE m)}
<1>6. 0 \in G
  BY <1>3, <1>5
<1>7. ASSUME NEW k \in Nat, k \in G
      PROVE  k + 1 \in G
  <2> SUFFICES ASSUME k + 1 <= n PROVE f[k + 1] = Worth(a, IF k + 1 <= m THEN k + 1 ELSE m)
    OBVIOUS
  <2>1. f[k] = Worth(a, IF k <= m THEN k ELSE m) /\ k + 1 \in 1 .. n /\ (k + 1) - 1 = k
    BY <1>7
  <2>2. CASE k + 1 <= m
    <3>1. f[k + 1] = f[k] + Credit(events[k + 1], a) - Debit(events[k + 1], a)
      BY <1>3, <1>4, <2>1, <2>2, Zenon
    <3>2. Worth(a, k + 1) = Worth(a, k) + Credit(events[k + 1], a) - Debit(events[k + 1], a)
      BY <1>5, <2>1, Zenon
    <3>3. f[k] = Worth(a, k)
      BY <2>1, <2>2
    <3> QED
      BY <2>2, <3>1, <3>2, <3>3, Zenon
  <2>3. CASE ~ (k + 1 <= m)
    <3>1. f[k + 1] = f[k]
      BY <1>3, <1>4, <2>1, <2>3, Zenon
    <3>2. (IF k <= m THEN k ELSE m) = m
      BY <2>3
    <3> QED
      BY <2>1, <2>3, <3>1, <3>2, Zenon
  <2> QED
    BY <2>2, <2>3, Zenon
<1> HIDE DEF G
<1>8. Nat \subseteq G
  BY <1>6, <1>7, NatInd, Zenon
<1>9. f[n] = Worth(a, IF n <= m THEN n ELSE m)
  BY <1>8 DEF G
<1>10. (IF n <= m THEN n ELSE m) = m
  OBVIOUS
<1>11. f[n] = Worth(a, m)
  BY <1>9, <1>10, Zenon
<1> QED
  BY <1>0, <1>1, <1>2, <1>5, <1>11, Zenon
-----------------------------------------------------------------------------
(* The facts about one state, for use in the next one.                     *)
ChainFacts ==
    /\ \A h \in Int : \A m \in 0 .. Len(events) :
          (\A i \in DOMAIN events : events[i].height <= h <=> i <= m) => EventsTo(h) = m
    /\ \A h \in Int, a \in Addr : Balance(a, h) = Worth(a, EventsTo(h))
    /\ \A a \in Addr : \A k \in 1 .. Len(events) :
          Worth(a, k) = Worth(a, k - 1) + Credit(events[k], a) - Debit(events[k], a)

(* The facts above in one formula, to prime them together.                 *)
LEMMA HeightsFacts == Heights => ChainFacts
<1> SUFFICES ASSUME Heights PROVE ChainFacts
  BY Zenon
<1>1. \A h \in Int : \A m \in 0 .. Len(events) :
          (\A i \in DOMAIN events : events[i].height <= h <=> i <= m) => EventsTo(h) = m
  BY EventsToIs, Zenon
<1>2. \A h \in Int, a \in Addr : Balance(a, h) = Worth(a, EventsTo(h))
  BY BalanceIsWorth, Zenon
<1>3. \A a \in Addr : \A k \in 1 .. Len(events) :
          Worth(a, k) = Worth(a, k - 1) + Credit(events[k], a) - Debit(events[k], a)
  BY WorthSteps, Zenon
<1> QED
  BY <1>1, <1>2, <1>3, Zenon DEF ChainFacts

(* They hold in the next state, too.                                       *)
LEMMA HeightsFactsNext == (Heights => ChainFacts)'
  BY HeightsFacts, PTL

(* events' continues events with events of the next block.                 *)
Continues ==
    /\ head' = head + 1 /\ Heights'
    /\ \E n, m \in Nat :
          /\ n <= m /\ n = Len(events) /\ DOMAIN events = 1 .. n /\ DOMAIN events' = 1 .. m /\ m = Len(events')
          /\ \A i \in 1 .. n : events'[i] = events[i]
          /\ \A i \in n + 1 .. m : events'[i].height = head + 1

(* The moves of the next block.                                            *)
LEMMA GrowMoves ==
  ASSUME Heights, NEW first \in Seq(Move), Grow(first)
  PROVE  \E moves \in Seq(Move) :
            /\ \A k \in DOMAIN moves, a \in Addr :
                  OwnedSum(a, Balance(a, head), SubSeq(moves, 1, k)) >= 0
            /\ events' = events \o [k \in DOMAIN moves |->
                  [height |-> head + 1, from |-> moves[k].from, to |-> moves[k].to]]
            /\ head = StartBlock /\ first # <<>> => moves # <<>>
<1>1. PICK b \in Blocks :
        LET moves == IF head = StartBlock THEN first \o b ELSE b
            owned(k, a) == Fold(LAMBDA sum, e : sum + Credit(e, a) - Debit(e, a),
                                    Balance(a, head), SubSeq(moves, 1, k))
        IN  /\ \A k \in DOMAIN moves, a \in Addr : owned(k, a) >= 0
            /\ events' = events \o [k \in DOMAIN moves |->
                  [height |-> head + 1, from |-> moves[k].from, to |-> moves[k].to]]
  BY Zenon DEF Grow
<1> DEFINE moves == IF head = StartBlock THEN first \o b ELSE b
<1>2. ASSUME NEW k \in DOMAIN moves, NEW a \in Addr
      PROVE  OwnedSum(a, Balance(a, head), SubSeq(moves, 1, k)) >= 0
  BY <1>1, Zenon DEF OwnedSum
<1>3. events' = events \o [k \in DOMAIN moves |->
                  [height |-> head + 1, from |-> moves[k].from, to |-> moves[k].to]]
  BY <1>1, Zenon
<1>4. b \in Seq(Move)
  BY TokenAssumption, Zenon DEF Move
<1>5. moves \in Seq(Move) /\ (head = StartBlock /\ first # <<>> => moves # <<>>)
  BY <1>4
<1> HIDE DEF moves
<1> QED
  BY <1>2, <1>3, <1>5, Zenon

(* A new block adds events of its height and changes none.                 *)
LEMMA GrowContinues ==
  ASSUME Heights, NEW first \in Seq(Move), Grow(first)
  PROVE  Continues
<1>1. PICK moves \in Seq(Move) :
           events' = events \o [k \in DOMAIN moves |->
                  [height |-> head + 1, from |-> moves[k].from, to |-> moves[k].to]]
  BY GrowMoves, Zenon
<1> DEFINE new == [k \in DOMAIN moves |->
                  [height |-> head + 1, from |-> moves[k].from, to |-> moves[k].to]]
<1>2. head' = head + 1 /\ head \in Int /\ StartBlock \in Int /\ StartBlock <= head
  <2>1. head' = head + 1
    BY Zenon DEF Grow
  <2> QED
    BY <2>1, StartBlockAssumption DEF Heights
<1>3. PICK l \in Nat : l = Len(moves) /\ DOMAIN moves = 1 .. l
  OBVIOUS
<1>4. \A k \in 1 .. l : moves[k] \in Move
  BY <1>3
<1>5. \A k \in 1 .. l : new[k] \in Event /\ new[k].height = head + 1
  BY <1>2, <1>3, <1>4 DEF Move, Event
<1>6. DOMAIN new = 1 .. l
  BY <1>3, Zenon
<1> HIDE DEF new
<1>7. new \in Seq(Event) /\ Len(new) = l
  <2>1. new = [k \in 1 .. l |-> new[k]]
    BY <1>3, Zenon DEF new
  <2> QED
    BY <1>5, <1>6, <2>1
<1>8. events' = events \o new
  BY <1>1, Zenon DEF new
<1>9. events \in Seq(Event)
  BY Zenon DEF Heights
<1>10. PICK n \in Nat : n = Len(events) /\ DOMAIN events = 1 .. n
  BY <1>9
<1>11. events' \in Seq(Event) /\ Len(events') = n + l /\ DOMAIN events' = 1 .. n + l
  <2>1. events \o new \in Seq(Event) /\ Len(events \o new) = Len(events) + Len(new)
    BY <1>7, <1>9, Concatenated, Zenon
  <2>2. events' \in Seq(Event) /\ Len(events') = n + l
    BY <1>7, <1>8, <1>10, <2>1, Zenon
  <2> QED
    BY <2>2
<1>12. \A i \in 1 .. n : events'[i] = events[i]
  BY <1>7, <1>8, <1>9, <1>10
<1>13. \A i \in n + 1 .. n + l : events'[i].height = head + 1
  <2>1. \A i \in n + 1 .. n + l : events'[i] = new[i - n] /\ i - n \in 1 .. l
    BY <1>7, <1>8, <1>9, <1>10
  <2> QED
    BY <1>5, <2>1, Zenon
<1>14. \A i \in 1 .. n : events[i].height \in Int /\ StartBlock < events[i].height /\ events[i].height <= head
  BY <1>10, EventTyped, Zenon DEF Heights
<1>15. \A i \in 1 .. n + l : i \in 1 .. n \/ i \in n + 1 .. n + l
  OBVIOUS
<1>16. \A i \in 1 .. n + l : StartBlock < events'[i].height /\ events'[i].height <= head + 1
  BY <1>2, <1>12, <1>13, <1>14, <1>15
<1>17. ASSUME NEW i \in 1 .. n + l, NEW j \in 1 .. n + l, i <= j
       PROVE  events'[i].height <= events'[j].height
  <2>1. CASE j \in 1 .. n
    <3>1. i \in 1 .. n
      BY <1>17, <2>1
    <3>2. events[i].height <= events[j].height
      BY <1>10, <1>17, <2>1, <3>1, Zenon DEF Heights
    <3> QED
      BY <1>12, <2>1, <3>1, <3>2, Zenon
  <2>2. CASE j \in n + 1 .. n + l
    <3>1. events'[j].height = head + 1
      BY <1>13, <2>2, Zenon
    <3> QED
      BY <1>16, <3>1, Zenon
  <2> QED
    BY <1>15, <2>1, <2>2, Zenon
<1>18. Heights'
  BY <1>2, <1>11, <1>16, <1>17 DEF Heights, Event
<1>19. PICK m \in Nat : m = n + l /\ n <= m
  OBVIOUS
<1>20. /\ n <= m /\ n = Len(events) /\ DOMAIN events = 1 .. n /\ DOMAIN events' = 1 .. m /\ m = Len(events')
       /\ \A i \in 1 .. n : events'[i] = events[i]
       /\ \A i \in n + 1 .. m : events'[i].height = head + 1
  BY <1>10, <1>11, <1>12, <1>13, <1>19, Zenon
<1> QED
  BY <1>2, <1>18, <1>20, Zenon DEF Continues

(* What the chain says of old blocks stays so when it grows.               *)
LEMMA ContinuesFacts ==
  ASSUME Heights, Continues
  PROVE  /\ Len(events) <= Len(events')
         /\ \A i \in DOMAIN events : i \in DOMAIN events' /\ events'[i] = events[i]
         /\ \A a \in Addr, k \in 0 .. Len(events) : Worth(a, k)' = Worth(a, k)
         /\ \A h \in Int : h <= head => EventsTo(h)' = EventsTo(h)
         /\ \A h \in Int, a \in Addr : h <= head => Balance(a, h)' = Balance(a, h)
         /\ \A lo, hi \in Int : hi <= head => InBlocks(lo, hi)' = InBlocks(lo, hi)
<1>1. PICK n, m \in Nat :
          /\ n <= m /\ n = Len(events) /\ DOMAIN events = 1 .. n /\ DOMAIN events' = 1 .. m /\ m = Len(events')
          /\ \A i \in 1 .. n : events'[i] = events[i]
          /\ \A i \in n + 1 .. m : events'[i].height = head + 1
  BY Zenon DEF Continues
<1>2. Heights' /\ head' = head + 1 /\ head \in Int /\ events \in Seq(Event) /\ events' \in Seq(Event)
  BY Zenon DEF Heights, Continues
<1>3. \A i \in 1 .. n : i \in 1 .. m
  BY <1>1
<1>4. ASSUME NEW k \in 0 .. n
      PROVE  SubSeq(events', 1, k) = SubSeq(events, 1, k)
  <2>1. SubSeq(events, 1, k) = [i \in 1 .. k |-> events[i]]
    BY <1>1, <1>2, SubSeqPrefix, Zenon
  <2>2. k \in 0 .. Len(events')
    BY <1>1
  <2>3. SubSeq(events', 1, k) = [i \in 1 .. k |-> events'[i]]
    BY <1>2, <2>2, SubSeqPrefix, Zenon
  <2>4. \A i \in 1 .. k : events'[i] = events[i]
    BY <1>1
  <2> QED
    BY <2>1, <2>3, <2>4, Zenon
<1>5. ASSUME NEW a \in Addr, NEW k \in 0 .. n
      PROVE  Worth(a, k)' = Worth(a, k)
  <2>1. Worth(a, k) = OwnedSum(a, Initial[a], SubSeq(events, 1, k))
    BY Zenon DEF Worth
  <2>2. Worth(a, k)' = OwnedSum(a, Initial[a], SubSeq(events', 1, k))
    BY Zenon DEF Worth, OwnedSum, Fold, Credit, Debit
  <2> QED
    BY <1>4, <2>1, <2>2, Zenon
<1>6. ASSUME NEW h \in Int, h <= head
      PROVE  EventsTo(h)' = EventsTo(h)
  <2>1. PICK k \in 0 .. n : k = EventsTo(h)
    BY <1>1, EventsToFacts, Zenon
  <2>2. ASSUME NEW i \in 1 .. m PROVE events'[i].height <= h <=> i <= k
    <3>1. CASE i \in 1 .. n
      BY <1>1, <2>1, <3>1, EventsToFacts, Zenon
    <3>2. CASE i \in n + 1 .. m
      <4>1. events'[i].height = head + 1
        BY <1>1, <3>2, Zenon
      <4> QED
        BY <1>2, <1>6, <3>2, <4>1
    <3> QED
      BY <3>1, <3>2
  <2>3. k \in 0 .. Len(events')
    BY <1>1
  <2>4. ASSUME NEW i \in DOMAIN events' PROVE events'[i].height <= h <=> i <= k
    BY <1>1, <2>2, Zenon
  <2>5. EventsTo(h)' = k
    BY <1>2, <2>3, <2>4, HeightsFactsNext, Zenon DEF ChainFacts
  <2> QED
    BY <2>1, <2>5, Zenon
<1>7. ASSUME NEW h \in Int, NEW a \in Addr, h <= head
      PROVE  Balance(a, h)' = Balance(a, h)
  <2>1. PICK k \in 0 .. n : k = EventsTo(h) /\ k = EventsTo(h)'
    BY <1>1, <1>6, <1>7, EventsToFacts, Zenon
  <2>2. Balance(a, h) = Worth(a, k)
    BY <2>1, BalanceIsWorth, Zenon
  <2>3. Balance(a, h)' = Worth(a, k)'
    BY <1>2, <2>1, HeightsFactsNext, Zenon DEF ChainFacts
  <2> QED
    BY <1>5, <2>2, <2>3, Zenon
<1>8. ASSUME NEW lo \in Int, NEW hi \in Int, hi <= head
      PROVE  InBlocks(lo, hi)' = InBlocks(lo, hi)
  <2>1. ASSUME NEW i \in n + 1 .. m PROVE ~ (events'[i].height <= hi)
    BY <1>1, <1>2, <1>8
  <2>2. \A i \in 1 .. m : i \in 1 .. n \/ i \in n + 1 .. m
    OBVIOUS
  <2>3. \A i \in 1 .. m : i \in InBlocks(lo, hi)' <=> i \in InBlocks(lo, hi)
    BY <1>1, <2>1, <2>2, Zenon DEF InBlocks
  <2>4. InBlocks(lo, hi)' \subseteq 1 .. m /\ InBlocks(lo, hi) \subseteq 1 .. m
    BY <1>1, <1>3, Zenon DEF InBlocks
  <2> QED
    BY <2>3, <2>4, Zenon
<1> QED
  BY <1>1, <1>3, <1>5, <1>6, <1>7, <1>8, Zenon

(* A new block leaves nobody in debt.                                      *)
LEMMA GrowChain ==
  ASSUME Chain, NEW first \in Seq(Move), Grow(first)
  PROVE  Chain' /\ Continues
<1>1. Heights /\ Continues /\ Heights'
  BY GrowContinues, Zenon DEF Chain, Continues
<1>2. PICK moves \in Seq(Move) :
        /\ \A k \in DOMAIN moves, a \in Addr :
              OwnedSum(a, Balance(a, head), SubSeq(moves, 1, k)) >= 0
        /\ events' = events \o [k \in DOMAIN moves |->
              [height |-> head + 1, from |-> moves[k].from, to |-> moves[k].to]]
  BY <1>1, GrowMoves, Zenon
<1>3. PICK n, m \in Nat :
        n <= m /\ n = Len(events) /\ DOMAIN events = 1 .. n /\ DOMAIN events' = 1 .. m /\ m = Len(events')
  BY <1>1, Zenon DEF Continues
<1>4. PICK l \in Nat : l = Len(moves) /\ DOMAIN moves = 1 .. l
  OBVIOUS
<1> DEFINE new == [k \in DOMAIN moves |->
              [height |-> head + 1, from |-> moves[k].from, to |-> moves[k].to]]
<1>5. /\ new \in Seq(Event) /\ Len(new) = l
      /\ \A k \in 1 .. l : new[k].from = moves[k].from /\ new[k].to = moves[k].to
  <2>1. head \in Int /\ \A k \in 1 .. l : moves[k] \in Move
    BY <1>1, <1>4 DEF Heights
  <2>2. \A k \in 1 .. l : /\ new[k] \in Event
                          /\ new[k].from = moves[k].from /\ new[k].to = moves[k].to
    BY <1>4, <2>1 DEF Move, Event
  <2>3. new = [k \in 1 .. l |-> new[k]]
    BY <1>4, Zenon
  <2> HIDE DEF new
  <2>4. new \in [1 .. l -> Event]
    BY <2>2, <2>3, Zenon
  <2>5. new \in Seq(Event) /\ Len(new) = l
    BY <2>4
  <2> QED
    BY <2>2, <2>5, Zenon
<1>6. events' = events \o new
  BY <1>2, Zenon
<1> HIDE DEF new
<1>7. m = n + l /\ \A k \in 1 .. l : events'[n + k] = new[k]
  <2>1. events \in Seq(Event)
    BY <1>1, Zenon DEF Heights
  <2>2. /\ Len(events \o new) = n + l
        /\ \A i \in 1 .. n + l : (events \o new)[i] = IF i <= n THEN events[i] ELSE new[i - n]
    BY <1>3, <1>5, <2>1, Concatenated, Zenon
  <2>3. \A k \in 1 .. l : n + k \in 1 .. n + l /\ ~ (n + k <= n) /\ (n + k) - n = k
    OBVIOUS
  <2> QED
    BY <1>3, <1>6, <2>2, <2>3, Zenon
<1>8. ASSUME NEW a \in Addr, NEW k \in 0 .. m
      PROVE  Worth(a, k)' >= 0
  <2>1. CASE k <= n
    <3>1. Worth(a, k)' = Worth(a, k)
      BY <1>1, <1>3, <2>1, ContinuesFacts
    <3> QED
      BY <1>3, <2>1, <3>1 DEF Chain
  <2>2. CASE k > n
    <3> DEFINE W(j) == OwnedSum(a, Balance(a, head), SubSeq(moves, 1, j))
    <3>1. Balance(a, head) = Worth(a, n) /\ Balance(a, head) \in Int
      <4>1. head \in Int /\ EventsTo(head) = n
        BY <1>1, <1>3, EventsToOrder DEF Heights
      <4> QED
        BY <1>1, <4>1, BalanceIsWorth, Zenon
    <3>2. /\ W(0) = Balance(a, head)
          /\ \A j \in 1 .. l : W(j) = W(j - 1) + Credit(moves[j], a) - Debit(moves[j], a)
      BY <1>4, <3>1, OwnedSteps
    <3>3. \A j \in 1 .. l : W(j) >= 0
      BY <1>2, <1>4, Zenon
    <3> HIDE DEF W
    <3>4. Worth(a, n)' = Worth(a, n)
      BY <1>1, <1>3, ContinuesFacts
    <3>5. ASSUME NEW j \in 1 .. l
          PROVE  Worth(a, n + j)' = Worth(a, n + (j - 1))' + Credit(moves[j], a) - Debit(moves[j], a)
      <4>1. n + j \in 1 .. m /\ (n + j) - 1 = n + (j - 1)
        BY <1>7
      <4>2. \A i \in 1 .. Len(events') : Worth(a, i)' = Worth(a, i - 1)' + Credit(events'[i], a) - Debit(events'[i], a)
        BY <1>1, HeightsFactsNext, Zenon DEF ChainFacts, Credit, Debit
      <4>3. Credit(events'[n + j], a) = Credit(moves[j], a) /\ Debit(events'[n + j], a) = Debit(moves[j], a)
        BY <1>5, <1>7, Zenon DEF Credit, Debit
      <4> QED
        BY <1>3, <4>1, <4>2, <4>3, Zenon
    <3> DEFINE G == {j \in Nat : j <= l => Worth(a, n + j)' = W(j)}
    <3>6. 0 \in G
      BY <3>1, <3>2, <3>4
    <3>7. ASSUME NEW j \in Nat, j \in G
          PROVE  j + 1 \in G
      <4> SUFFICES ASSUME j + 1 <= l PROVE Worth(a, n + (j + 1))' = W(j + 1)
        OBVIOUS
      <4>1. Worth(a, n + j)' = W(j) /\ j + 1 \in 1 .. l /\ (j + 1) - 1 = j
        BY <3>7
      <4> QED
        BY <3>2, <3>5, <4>1, Zenon
    <3> HIDE DEF G
    <3>8. Nat \subseteq G
      BY <3>6, <3>7, NatInd, Zenon
    <3>9. PICK j \in 1 .. l : k = n + j
      <4>1. k - n \in 1 .. l /\ k = n + (k - n)
        BY <1>7, <2>2
      <4> QED
        BY <4>1, Zenon
    <3>10. Worth(a, n + j)' = W(j)
      BY <3>8 DEF G
    <3> QED
      BY <3>3, <3>9, <3>10, Zenon
  <2> QED
    BY <2>1, <2>2
<1> QED
  BY <1>1, <1>3, <1>8, Zenon DEF Chain
-----------------------------------------------------------------------------
(* An event that moves something.                                          *)
Moving(i) == events[i].from # None \/ events[i].to # None

(* Events that move nothing leave everybody what they own.                 *)
LEMMA WorthFlat ==
  ASSUME Heights, NEW a \in Addr, NEW x \in 0 .. Len(events), NEW y \in 0 .. Len(events), x <= y,
         \A i \in x + 1 .. y : ~ Moving(i)
  PROVE  Worth(a, y) = Worth(a, x)
<1>1. PICK n \in Nat : n = Len(events) /\ DOMAIN events = 1 .. n
  BY EventTyped, Zenon
<1> DEFINE G == {k \in Nat : x + k <= y => Worth(a, x + k) = Worth(a, x)}
<1>2. 0 \in G
  OBVIOUS
<1>3. ASSUME NEW k \in Nat, k \in G
      PROVE  k + 1 \in G
  <2> SUFFICES ASSUME x + (k + 1) <= y PROVE Worth(a, x + (k + 1)) = Worth(a, x)
    OBVIOUS
  <2>1. PICK i \in 1 .. n : i = x + (k + 1) /\ i - 1 = x + k /\ i \in x + 1 .. y
    BY <1>1
  <2>2. Credit(events[i], a) = 0 /\ Debit(events[i], a) = 0
    BY <2>1, TokenAssumption, Zenon DEF Moving, Credit, Debit
  <2>3. Worth(a, i) = Worth(a, i - 1) + Credit(events[i], a) - Debit(events[i], a)
    BY <1>1, WorthSteps, Zenon
  <2>4. Worth(a, i - 1) \in Int
    <3>1. i - 1 \in 0 .. Len(events)
      BY <1>1, <2>1
    <3> QED
      BY <3>1, WorthSteps, Zenon
  <2>5. Worth(a, i) = Worth(a, i - 1)
    BY <2>2, <2>3, <2>4
  <2>6. Worth(a, x + k) = Worth(a, x)
    BY <1>3, <2>1
  <2> QED
    BY <2>1, <2>5, <2>6, Zenon
<1> HIDE DEF G
<1>4. Nat \subseteq G
  BY <1>2, <1>3, NatInd, Zenon
<1>5. y - x \in G /\ x + (y - x) = y
  BY <1>4
<1> QED
  BY <1>5 DEF G

(* How many rows of s are of event i.                                      *)
Occurrences(s, i) == Cardinality({k \in DOMAIN s : s[k] = i})

(* How often an id occurs is a number, positive when it occurs.            *)
LEMMA OccurrencesType ==
  ASSUME NEW D, NEW s \in Seq(D), NEW i
  PROVE  /\ IsFiniteSet({k \in DOMAIN s : s[k] = i})
         /\ Occurrences(s, i) \in Nat
         /\ Occurrences(s, i) > 0 <=> i \in Range(s)
<1> DEFINE A == {k \in DOMAIN s : s[k] = i}
<1>1. DOMAIN s = 1 .. Len(s) /\ Len(s) \in Nat
  OBVIOUS
<1>2. IsFiniteSet(DOMAIN s)
  BY <1>1, FS_Interval
<1>3. IsFiniteSet(A)
  BY <1>2, FS_Subset, Zenon
<1>4. Cardinality(A) \in Nat
  BY <1>3, FS_CardinalityType, Zenon
<1>5. Cardinality(A) = 0 <=> A = {}
  BY <1>3, FS_EmptySet, Zenon
<1>6. A = {} <=> i \notin Range(s)
  BY Zenon DEF Range
<1> HIDE DEF A
<1>7. Cardinality(A) > 0 <=> i \in Range(s)
  BY <1>4, <1>5, <1>6
<1> QED
  BY <1>3, <1>4, <1>7, Zenon DEF A, Occurrences

(* Adding rows in increasing order adds each id once.                      *)
LEMMA OccurrencesConcat ==
  ASSUME NEW D, NEW s \in Seq(D), NEW t \in Seq(D), NEW ids, NEW i, D \subseteq Int,
         IncreasingOn(t, ids), Range(t) \subseteq ids
  PROVE  Occurrences(s \o t, i) = Occurrences(s, i) + (IF i \in Range(t) THEN 1 ELSE 0)
<1>1. PICK n \in Nat, m \in Nat :
        n = Len(s) /\ DOMAIN s = 1 .. n /\ m = Len(t) /\ DOMAIN t = 1 .. m
  OBVIOUS
<1>2. PICK r : r = s \o t /\ DOMAIN r = 1 .. n + m
        /\ \A k \in 1 .. n + m : r[k] = IF k <= n THEN s[k] ELSE t[k - n]
  <2>1. s \o t \in Seq(D) /\ Len(s \o t) = n + m
        /\ \A k \in 1 .. n + m : (s \o t)[k] = IF k <= n THEN s[k] ELSE t[k - n]
    BY <1>1, Concatenated, Zenon
  <2>2. DOMAIN (s \o t) = 1 .. n + m
    BY <2>1
  <2> QED
    BY <2>1, <2>2, Zenon
<1> DEFINE A == {k \in DOMAIN s : s[k] = i}
           B == {k \in DOMAIN r : r[k] = i}
<1>3. IsFiniteSet(A)
  BY OccurrencesType, Zenon
<1>4. CASE i \notin Range(t)
  <2>1. \A k \in 1 .. m : t[k] # i
    BY <1>1, <1>4, Zenon DEF Range
  <2>2. \A k \in 1 .. n + m : k <= n \/ k - n \in 1 .. m
    OBVIOUS
  <2>3. B = A
    <3>1. \A k \in 1 .. n + m : k \in B <=> k \in A
      BY <1>1, <1>2, <2>1, <2>2
    <3>2. B \subseteq 1 .. n + m /\ A \subseteq 1 .. n + m
      BY <1>1, <1>2
    <3> QED
      BY <3>1, <3>2, Zenon
  <2>4. Cardinality(B) = Cardinality(A) /\ Cardinality(A) \in Nat
    BY <1>3, <2>3, FS_CardinalityType, Zenon
  <2>5. Occurrences(s \o t, i) = Cardinality(B) /\ Occurrences(s, i) = Cardinality(A)
    BY <1>2, Zenon DEF Occurrences
  <2> HIDE DEF A, B
  <2> QED
    BY <1>4, <2>4, <2>5
<1>5. CASE i \in Range(t)
  <2>1. PICK j \in 1 .. m : t[j] = i
    BY <1>1, <1>5, Zenon DEF Range
  <2>2. \A k \in 1 .. m : t[k] = i => k = j
    <3>1. \A k \in 1 .. m : t[k] \in ids /\ t[k] \in Int
      <4>1. \A k \in 1 .. m : t[k] \in D /\ t[k] \in Range(t)
        BY <1>1 DEF Range
      <4> QED
        BY <4>1, Zenon
    <3>2. \A k, l \in 1 .. m : k < l => t[k] < t[l]
      BY <1>1, <3>1, Zenon DEF IncreasingOn
    <3>3. ASSUME NEW k \in 1 .. m, t[k] = i, k # j PROVE FALSE
      <4>1. k < j \/ j < k
        BY <3>3
      <4>2. t[k] < t[j] \/ t[j] < t[k]
        BY <3>2, <4>1, Zenon
      <4> QED
        BY <2>1, <3>1, <3>3, <4>2
    <3> QED
      BY <3>3, Zenon
  <2>3. B = A \cup {n + j}
    <3>1. \A k \in 1 .. n + m : k \in B <=> k \in A \cup {n + j}
      <4>1. \A k \in 1 .. n + m : k <= n \/ (k - n \in 1 .. m /\ k = n + (k - n))
        OBVIOUS
      <4>2. ~ (n + j <= n) /\ (n + j) - n = j
        OBVIOUS
      <4>3. ASSUME NEW k \in 1 .. n + m, k <= n PROVE k \in B <=> k \in A \cup {n + j}
        <5>1. k \in 1 .. n /\ k # n + j /\ r[k] = s[k]
          BY <1>2, <4>2, <4>3
        <5> QED
          BY <1>1, <1>2, <5>1, Zenon
      <4>4. ASSUME NEW k \in 1 .. n + m, ~ (k <= n) PROVE k \in B <=> k \in A \cup {n + j}
        <5>1. k - n \in 1 .. m /\ k = n + (k - n) /\ r[k] = t[k - n] /\ k \notin A
          BY <1>1, <1>2, <4>1, <4>4
        <5>2. r[k] = i <=> k - n = j
          BY <2>1, <2>2, <5>1, Zenon
        <5> QED
          BY <1>2, <5>1, <5>2
      <4> QED
        BY <4>3, <4>4, Zenon
    <3>2. B \subseteq 1 .. n + m /\ A \cup {n + j} \subseteq 1 .. n + m
      BY <1>1, <1>2
    <3> QED
      BY <3>1, <3>2, Zenon
  <2>4. n + j \notin A
    BY <1>1
  <2>5. Cardinality(B) = Cardinality(A) + 1
    BY <1>3, <2>3, <2>4, FS_AddElement, Zenon
  <2>6. Occurrences(s \o t, i) = Cardinality(B) /\ Occurrences(s, i) = Cardinality(A)
    BY <1>2, Zenon DEF Occurrences
  <2> HIDE DEF A, B
  <2> QED
    BY <1>5, <2>5, <2>6, Zenon
<1> QED
  BY <1>4, <1>5, Zenon

(* A step that leaves the chain alone leaves what it says alone.           *)
LEMMA ChainStays ==
  ASSUME UNCHANGED <<head, events>>
  PROVE  /\ Chain' <=> Chain
         /\ Heights' <=> Heights
         /\ \A a, h : Balance(a, h)' = Balance(a, h)
         /\ \A lo, hi : InBlocks(lo, hi)' = InBlocks(lo, hi)
         /\ \A i : Moving(i)' <=> Moving(i)
<1>1. head' = head /\ events' = events
  BY Zenon
<1>2. Heights' <=> Heights
  BY <1>1, Zenon DEF Heights
<1>3. \A a, k : Worth(a, k)' = Worth(a, k)
  <2> SUFFICES ASSUME NEW a, NEW k PROVE Worth(a, k)' = Worth(a, k)
    BY Zenon
  <2>1. Worth(a, k) = OwnedSum(a, Initial[a], SubSeq(events, 1, k))
    BY Zenon DEF Worth
  <2>2. Worth(a, k)' = OwnedSum(a, Initial[a], SubSeq(events', 1, k))
    BY Zenon DEF Worth, OwnedSum, Fold, Credit, Debit
  <2> QED
    BY <1>1, <2>1, <2>2, Zenon
<1>4. Chain' <=> Chain
  BY <1>1, <1>2, <1>3, Zenon DEF Chain
<1>5. \A a, h : Balance(a, h)' = Balance(a, h)
  <2> SUFFICES ASSUME NEW a, NEW h PROVE Balance(a, h)' = Balance(a, h)
    OBVIOUS
  <2> DEFINE F(s) == Fold(LAMBDA sum, e : IF e.height <= h THEN sum + Credit(e, a) - Debit(e, a) ELSE sum,
                          Initial[a], s)
  <2>1. Balance(a, h) = F(events)
    BY Zenon DEF Balance
  <2>2. Balance(a, h)' = F(events')
    BY Zenon DEF Balance, Fold, Credit, Debit
  <2> HIDE DEF F
  <2> QED
    BY <1>1, <2>1, <2>2, Zenon
<1>6. \A lo, hi : InBlocks(lo, hi)' = InBlocks(lo, hi)
  BY <1>1, Zenon DEF InBlocks
<1>7. \A i : Moving(i)' <=> Moving(i)
  BY <1>1, Zenon DEF Moving
<1> QED
  BY <1>2, <1>4, <1>5, <1>6, <1>7, Zenon

(* Membership in Range.                                                    *)
LEMMA InRange ==
  ASSUME NEW s, NEW x
  PROVE  x \in Range(s) <=> \E k \in DOMAIN s : s[k] = x
  BY Zenon DEF Range

(* The elements of a sequence over D are in D.                             *)
LEMMA RangeTyped ==
  ASSUME NEW D, NEW s \in Seq(D)
  PROVE  \A x \in Range(s) : x \in D
  BY DEF Range

(* A sequence whose elements are in E is a sequence over E.                *)
LEMMA SeqOf ==
  ASSUME NEW D, NEW E, NEW s \in Seq(D), \A k \in 1 .. Len(s) : s[k] \in E
  PROVE  s \in Seq(E)
  OBVIOUS

(* Two increasing runs, the second above the first.                        *)
LEMMA IncreasingConcat ==
  ASSUME NEW D, D \subseteq Int, NEW s \in Seq(D), NEW t \in Seq(D), NEW A, NEW ids,
         IncreasingOn(s, A), IncreasingOn(t, ids), Range(t) \subseteq ids,
         \A x \in Range(s) \cap A, y \in Range(t) \cap A : x < y
  PROVE  IncreasingOn(s \o t, A)
<1>1. PICK r : r = s \o t
  BY Zenon
<1>2. /\ r \in Seq(D) /\ Len(r) = Len(s) + Len(t)
      /\ \A i \in 1 .. Len(s) + Len(t) : r[i] = IF i <= Len(s) THEN s[i] ELSE t[i - Len(s)]
  BY <1>1, Concatenated, Zenon
<1>3. Len(s) \in Nat /\ Len(t) \in Nat /\ DOMAIN s = 1 .. Len(s) /\ DOMAIN t = 1 .. Len(t)
      /\ DOMAIN r = 1 .. Len(s) + Len(t)
  BY <1>2
<1>4. (\A k \in DOMAIN s : s[k] \in Range(s)) /\ \A k \in DOMAIN t : t[k] \in Range(t)
  BY InRange, Zenon
<1>5. SUFFICES ASSUME NEW j \in 1 .. Len(s) + Len(t), NEW k \in 1 .. Len(s) + Len(t),
                      j < k, r[j] \in A, r[k] \in A
               PROVE  r[j] < r[k]
  BY <1>1, <1>3, Zenon DEF IncreasingOn
<1>6. CASE k <= Len(s)
  <2>1. r[j] = s[j] /\ r[k] = s[k] /\ j \in DOMAIN s /\ k \in DOMAIN s
    BY <1>2, <1>3, <1>5, <1>6
  <2> QED
    BY <1>5, <2>1, Zenon DEF IncreasingOn
<1>7. CASE j <= Len(s) /\ Len(s) < k
  <2>1. r[j] = s[j] /\ r[k] = t[k - Len(s)] /\ j \in DOMAIN s /\ k - Len(s) \in DOMAIN t
    BY <1>2, <1>3, <1>5, <1>7
  <2> QED
    BY <1>4, <1>5, <2>1, Zenon
<1>8. CASE Len(s) < j
  <2>1. r[j] = t[j - Len(s)] /\ r[k] = t[k - Len(s)] /\ j - Len(s) \in DOMAIN t /\ k - Len(s) \in DOMAIN t
        /\ j - Len(s) < k - Len(s)
    BY <1>2, <1>3, <1>5, <1>8
  <2> QED
    BY <1>4, <1>5, <2>1, Zenon DEF IncreasingOn
<1> QED
  BY <1>3, <1>5, <1>6, <1>7, <1>8

(* The elements of a concatenation are those of its parts.                 *)
LEMMA RangeConcat ==
  ASSUME NEW D, NEW s \in Seq(D), NEW t \in Seq(D)
  PROVE  s \o t \in Seq(D) /\ Range(s \o t) = Range(s) \cup Range(t)
<1>1. PICK r : r = s \o t
  BY Zenon
<1>2. PICK m \in Nat, n \in Nat : m = Len(s) /\ n = Len(t) /\ DOMAIN s = 1 .. m /\ DOMAIN t = 1 .. n
  OBVIOUS
<1>3. /\ r \in Seq(D) /\ DOMAIN r = 1 .. m + n
      /\ \A i \in 1 .. m + n : r[i] = IF i <= m THEN s[i] ELSE t[i - m]
  BY <1>1, <1>2, Concatenated
<1>4. ASSUME NEW x \in Range(r) PROVE x \in Range(s) \cup Range(t)
  <2>1. PICK i \in 1 .. m + n : r[i] = x
    BY <1>3, <1>4, InRange, Zenon
  <2>2. i <= m => i \in DOMAIN s /\ s[i] = x
    BY <1>2, <1>3, <2>1
  <2>3. ~ i <= m => i - m \in DOMAIN t /\ t[i - m] = x
    BY <1>2, <1>3, <2>1
  <2> QED
    BY <2>2, <2>3, InRange, Zenon
<1>5. ASSUME NEW x \in Range(s) PROVE x \in Range(r)
  <2>1. PICK i \in 1 .. m : s[i] = x
    BY <1>2, <1>5, InRange, Zenon
  <2>2. i \in 1 .. m + n /\ r[i] = x
    BY <1>3, <2>1
  <2> QED
    BY <1>3, <2>2, InRange, Zenon
<1>6. ASSUME NEW x \in Range(t) PROVE x \in Range(r)
  <2>1. PICK i \in 1 .. n : t[i] = x
    BY <1>2, <1>6, InRange, Zenon
  <2>2. m + i \in 1 .. m + n /\ ~ m + i <= m /\ (m + i) - m = i
    BY <1>2
  <2>3. r[m + i] = x
    BY <1>3, <2>1, <2>2, Zenon
  <2> QED
    BY <1>3, <2>2, <2>3, InRange, Zenon
<1> QED
  BY <1>1, <1>3, <1>4, <1>5, <1>6, Zenon
=============================================================================
