----------------------------- MODULE Cw20Proofs -----------------------------
(***************************************************************************)
(* For every chain, every set of accounts, every size of the pages and any *)
(* number of jobs, retries and reindexings: the supply of a CW-20 contract *)
(* is the sum of its balances, and the instantiation is never refused.     *)
(***************************************************************************)
EXTENDS Cw20, TokenChainProofs

(* The provers that try a leaf, one after the other, and their time in     *)
(* seconds.                                                                *)
USE SMTT(40), ZenonT(40)

(* The rows of cw20_holder, and what updateBalanceHolders makes.           *)
Holder == [amount : Int, last : Int]
HolderRows(hs) == DOMAIN hs \subseteq Addr /\ \A a \in DOMAIN hs : hs[a] \in Holder
Accumulator(acc) ==
    acc \in [holders : {acc.holders}, add : Int, ok : BOOLEAN] /\ HolderRows(acc.holders)

(* The sum of the balances is a Total.                                     *)
Amounts(hs) == [a \in DOMAIN hs |-> hs[a].amount]

(* Holdings adds the amounts of all holders.                               *)
LEMMA HoldingsTotal ==
  ASSUME NEW hs
  PROVE  Holdings(hs) = Total(Amounts(hs), DOMAIN hs)
<1> DEFINE D == DOMAIN hs
           P(g) == g = [T \in SUBSET D |-> IF T = {} THEN 0 ELSE g[T \ {One(T)}] + hs[One(T)].amount]
           Q(g) == g = [T \in SUBSET D |->
                          IF T = {} THEN 0 ELSE g[T \ {One(T)}] + Amounts(hs)[One(T)]]
<1>1. \A T \in SUBSET D : T # {} => Amounts(hs)[One(T)] = hs[One(T)].amount
  BY OneOf, Zenon DEF Amounts
<1>2. \A g : P(g) <=> Q(g)
  BY <1>1, Zenon
<1>3. Holdings(hs) = (CHOOSE g : P(g))[D]
  BY Zenon DEF Holdings, FoldSet, MapThenFoldSet, One
<1>4. Total(Amounts(hs), D) = (CHOOSE g : Q(g))[D]
  BY Zenon DEF Total
<1> HIDE DEF P, Q
<1>5. (CHOOSE g : P(g)) = (CHOOSE g : Q(g))
  BY <1>2, Zenon
<1> QED
  BY <1>3, <1>4, <1>5, Zenon

(* The sum of the balances is an integer.                                  *)
LEMMA HoldingsType ==
  ASSUME NEW hs, HolderRows(hs)
  PROVE  Holdings(hs) \in Int
<1>1. IsFiniteSet(DOMAIN hs)
  BY TokenAssumption, FS_Subset, Zenon DEF HolderRows
<1>2. \A a \in DOMAIN hs : Amounts(hs)[a] \in Int
  BY Zenon DEF HolderRows, Holder, Amounts
<1> QED
  BY <1>1, <1>2, HoldingsTotal, TotalType, Zenon

(* One side of a move changes one balance, and the sum by as much.         *)
LEMMA MovedFacts ==
  ASSUME NEW hs, HolderRows(hs), NEW a \in Addr, NEW amount \in Int, NEW height \in Int
  PROVE  /\ HolderRows(Moved(hs, a, amount, height))
         /\ DOMAIN Moved(hs, a, amount, height) = DOMAIN hs \cup {a}
         /\ Holdings(Moved(hs, a, amount, height)) = Holdings(hs) + amount
<1>0. PICK ms : ms = Moved(hs, a, amount, height)
  BY Zenon
<1> DEFINE old == IF a \in DOMAIN hs THEN hs[a].amount ELSE 0
<1>1. old \in Int
  BY DEF HolderRows, Holder
<1>2. /\ DOMAIN ms = DOMAIN hs \cup {a}
      /\ ms[a] = [amount |-> old + amount, last |-> height]
      /\ \A x \in DOMAIN hs \ {a} : ms[x] = hs[x]
  BY <1>0, Zenon DEF Moved
<1> HIDE DEF old
<1>3. HolderRows(ms)
  BY <1>1, <1>2 DEF HolderRows, Holder
<1>4. PICK D, v, w : D = DOMAIN hs /\ v = Amounts(hs) /\ w = Amounts(ms)
  BY Zenon
<1>5. IsFiniteSet(D) /\ \A x \in D : v[x] \in Int
  BY <1>4, TokenAssumption, FS_Subset, Zenon DEF HolderRows, Holder, Amounts
<1>6. w[a] = old + amount /\ w[a] \in Int /\ \A x \in D : x # a => w[x] = v[x]
  BY <1>1, <1>2, <1>4 DEF Amounts
<1>7. Total(w, DOMAIN ms) = Total(v, D) + w[a] - (IF a \in D THEN v[a] ELSE 0)
  <2>1. PICK R : R = DOMAIN ms /\ R = D \cup {a}
    BY <1>2, <1>4, Zenon
  <2>2. Total(w, R) = Total(v, D) + w[a] - (IF a \in D THEN v[a] ELSE 0)
    BY <1>5, <1>6, <2>1, TotalPut
  <2> QED
    BY <2>1, <2>2, Zenon
<1>8. old = IF a \in D THEN v[a] ELSE 0
  BY <1>4, Zenon DEF old, Amounts
<1>9. Holdings(ms) = Holdings(hs) + (old + amount) - old
  BY <1>2, <1>4, <1>6, <1>7, <1>8, HoldingsTotal, Zenon
<1>10. Holdings(ms) = Holdings(hs) + amount
  BY <1>1, <1>9, HoldingsType
<1> QED
  BY <1>0, <1>2, <1>3, <1>10, Zenon

(* What a row or its absence says of an account.                           *)
Held(hs, a) == IF a \in DOMAIN hs THEN hs[a].amount ELSE 0

(* The components of an accumulator.                                       *)
LEMMA AccumulatorParts ==
  ASSUME NEW acc, Accumulator(acc)
  PROVE  /\ acc = [holders |-> acc.holders, add |-> acc.add, ok |-> acc.ok]
         /\ acc.add \in Int /\ acc.ok \in BOOLEAN /\ HolderRows(acc.holders)
  BY Zenon DEF Accumulator

(* One side of a move changes the balance of its account only, and the     *)
(* height of its last update.                                              *)
LEMMA MovedHeld ==
  ASSUME NEW hs, HolderRows(hs), NEW a \in Addr, NEW amount \in Int, NEW height \in Int
  PROVE  /\ \A x \in Addr : Held(Moved(hs, a, amount, height), x) =
                               IF x = a THEN Held(hs, a) + amount ELSE Held(hs, x)
         /\ \A x \in DOMAIN hs \cup {a} : Moved(hs, a, amount, height)[x].last =
                               IF x = a THEN height ELSE hs[x].last
  BY Zenon DEF Held, Moved, HolderRows, Holder

(* An event changes the sum of the balances by what it adds to the supply, *)
(* even when one of its sides is skipped; applied in the order of the      *)
(* blocks, it changes each balance as the chain does.                      *)
LEMMA ApplyEventFacts ==
  ASSUME NEW acc, Accumulator(acc), NEW e \in Event
  PROVE  /\ Accumulator(ApplyEvent(acc, e))
         /\ Holdings(ApplyEvent(acc, e).holders) - ApplyEvent(acc, e).add
              = Holdings(acc.holders) - acc.add
         /\ ApplyEvent(acc, e).ok /\ (\A a \in DOMAIN acc.holders : acc.holders[a].last <= e.height) =>
              /\ \A a \in Addr : Held(ApplyEvent(acc, e).holders, a)
                                   = Held(acc.holders, a) + Credit(e, a) - Debit(e, a)
              /\ \A a \in DOMAIN ApplyEvent(acc, e).holders :
                    ApplyEvent(acc, e).holders[a].last <= e.height
<1> DEFINE newer(hs, a) == IF a \in DOMAIN hs THEN e.height >= hs[a].last ELSE TRUE
           mid == IF e.from = None THEN acc
                  ELSE IF e.from \notin DOMAIN acc.holders THEN [acc EXCEPT !.ok = FALSE]
                  ELSE IF ~ newer(acc.holders, e.from) THEN acc
                  ELSE [acc EXCEPT !.holders = Moved(@, e.from, -1, e.height), !.add = @ - 1]
           end == IF e.to = None \/ ~ newer(mid.holders, e.to) THEN mid
                  ELSE [mid EXCEPT !.holders = Moved(@, e.to, 1, e.height), !.add = @ + 1]
           Old == \A a \in DOMAIN acc.holders : acc.holders[a].last <= e.height
<1>1. ApplyEvent(acc, e) = end
  BY Zenon DEF ApplyEvent
<1>2. /\ e.height \in Int /\ e.from \in Addr \cup {None} /\ e.to \in Addr \cup {None}
      /\ None \notin Addr
  BY TokenAssumption, Zenon DEF Event
<1>3. /\ Accumulator(mid)
      /\ Holdings(mid.holders) - mid.add = Holdings(acc.holders) - acc.add
      /\ mid.ok /\ Old => /\ \A a \in Addr : Held(mid.holders, a) = Held(acc.holders, a) - Debit(e, a)
                          /\ \A a \in DOMAIN mid.holders : mid.holders[a].last <= e.height
  <2>1. CASE e.from = None \/ (e.from \in DOMAIN acc.holders /\ ~ newer(acc.holders, e.from))
    <3>1. mid = acc
      BY <2>1, Zenon
    <3>2. Old => e.from = None
      BY <2>1, <1>2, AccumulatorParts, Zenon DEF HolderRows, Holder
    <3>3. \A a \in Addr : Held(acc.holders, a) \in Int
      BY AccumulatorParts DEF Held, HolderRows, Holder
    <3>4. Old => \A a \in Addr : Debit(e, a) = 0
      BY <1>2, <3>2, Zenon DEF Debit
    <3> HIDE DEF mid
    <3> QED
      BY <3>1, <3>3, <3>4
  <2>2. CASE e.from # None /\ e.from \notin DOMAIN acc.holders
    <3>1. mid = [holders |-> acc.holders, add |-> acc.add, ok |-> FALSE]
      <4>1. mid = [acc EXCEPT !.ok = FALSE]
        BY <2>2, Zenon
      <4>2. PICK h, d, o : acc = [holders |-> h, add |-> d, ok |-> o]
        BY AccumulatorParts, Zenon
      <4> HIDE DEF mid
      <4> QED
        BY <4>1, <4>2, Zenon
    <3> HIDE DEF mid
    <3> QED
      BY <3>1, AccumulatorParts, Zenon DEF Accumulator
  <2>3. CASE e.from # None /\ e.from \in DOMAIN acc.holders /\ newer(acc.holders, e.from)
    <3>1. PICK hs : hs = acc.holders /\ HolderRows(hs)
      BY AccumulatorParts, Zenon
    <3>2. PICK ms : ms = Moved(hs, e.from, -1, e.height)
      BY Zenon
    <3>3. mid = [holders |-> ms, add |-> acc.add - 1, ok |-> acc.ok]
      <4>1. mid = [acc EXCEPT !.holders = Moved(@, e.from, -1, e.height), !.add = @ - 1]
        BY <2>3, Zenon
      <4>2. PICK d, o : acc = [holders |-> hs, add |-> d, ok |-> o]
        BY <3>1, AccumulatorParts, Zenon
      <4> HIDE DEF mid
      <4> QED
        BY <3>2, <4>1, <4>2, Zenon
    <3>4. e.from \in Addr /\ -1 \in Int
      BY <1>2, <2>3
    <3>5. HolderRows(ms) /\ DOMAIN ms = DOMAIN hs \cup {e.from} /\ Holdings(ms) = Holdings(hs) + -1
      <4>1. PICK a \in Addr, h \in Int, x \in Int : a = e.from /\ h = e.height /\ x = -1
        BY <1>2, <3>4, Zenon
      <4>2. ms = Moved(hs, a, x, h)
        BY <3>2, <4>1, Zenon
      <4>3. /\ HolderRows(Moved(hs, a, x, h)) /\ DOMAIN Moved(hs, a, x, h) = DOMAIN hs \cup {a}
            /\ Holdings(Moved(hs, a, x, h)) = Holdings(hs) + x
        <5>1. HolderRows(Moved(hs, a, x, h))
          BY <3>1, MovedFacts, Zenon
        <5>2. DOMAIN Moved(hs, a, x, h) = DOMAIN hs \cup {a}
          BY <3>1, MovedFacts, ZenonT(40)
        <5>3. Holdings(Moved(hs, a, x, h)) = Holdings(hs) + x
          BY <3>1, MovedFacts, Zenon
        <5> QED
          BY <5>1, <5>2, <5>3, Zenon
      <4> QED
        BY <4>1, <4>2, <4>3, Zenon
    <3>6. /\ \A x \in Addr : Held(ms, x) = IF x = e.from THEN Held(hs, x) + -1 ELSE Held(hs, x)
          /\ \A x \in DOMAIN ms : ms[x].last = IF x = e.from THEN e.height ELSE hs[x].last
      BY <1>2, <3>1, <3>2, <3>4, <3>5, MovedHeld
    <3> HIDE DEF mid
    <3>7. mid.holders = ms /\ mid.add = acc.add - 1 /\ mid.ok = acc.ok
      BY <3>3, Zenon
    <3>8. Accumulator(mid)
      BY <3>3, <3>5, AccumulatorParts DEF Accumulator
    <3>9. Holdings(ms) - (acc.add - 1) = Holdings(hs) - acc.add
      BY <3>1, <3>5, AccumulatorParts, HoldingsType
    <3>10. \A x \in Addr : Held(ms, x) = Held(hs, x) - Debit(e, x)
      <4>1. \A x \in Addr : Held(hs, x) \in Int
        BY <3>1 DEF Held, HolderRows, Holder
      <4> QED
        BY <3>6, <4>1 DEF Debit
    <3>11. Old => \A x \in DOMAIN ms : ms[x].last <= e.height
      BY <1>2, <3>1, <3>5, <3>6
    <3> QED
      BY <3>1, <3>7, <3>8, <3>9, <3>10, <3>11, Zenon
  <2> QED
    BY <2>1, <2>2, <2>3, Zenon
<1> HIDE DEF mid
<1>4. /\ Accumulator(end)
      /\ Holdings(end.holders) - end.add = Holdings(acc.holders) - acc.add
      /\ end.ok /\ Old => /\ \A a \in Addr : Held(end.holders, a) = Held(mid.holders, a) + Credit(e, a)
                          /\ \A a \in DOMAIN end.holders : end.holders[a].last <= e.height
  <2>1. CASE e.to = None \/ ~ newer(mid.holders, e.to)
    <3>1. end = mid
      BY <2>1, Zenon
    <3>2. mid.ok /\ Old => e.to = None
      BY <2>1, <1>2, <1>3, AccumulatorParts, Zenon DEF HolderRows, Holder
    <3>3. \A a \in Addr : Held(mid.holders, a) \in Int
      BY <1>3, AccumulatorParts DEF Held, HolderRows, Holder
    <3>4. mid.ok /\ Old => \A a \in Addr : Credit(e, a) = 0
      BY <1>2, <3>2, Zenon DEF Credit
    <3> HIDE DEF end
    <3> QED
      BY <1>3, <3>1, <3>3, <3>4
  <2>3. CASE e.to # None /\ newer(mid.holders, e.to)
    <3>1. PICK hs : hs = mid.holders /\ HolderRows(hs)
      BY <1>3, AccumulatorParts, Zenon
    <3>2. PICK ms : ms = Moved(hs, e.to, 1, e.height)
      BY Zenon
    <3>3. end = [holders |-> ms, add |-> mid.add + 1, ok |-> mid.ok]
      <4>1. end = [mid EXCEPT !.holders = Moved(@, e.to, 1, e.height), !.add = @ + 1]
        BY <2>3, Zenon
      <4>2. PICK d, o : mid = [holders |-> hs, add |-> d, ok |-> o]
        BY <1>3, <3>1, AccumulatorParts, Zenon
      <4> HIDE DEF end
      <4> QED
        BY <3>2, <4>1, <4>2, Zenon
    <3>4. e.to \in Addr /\ 1 \in Int
      BY <1>2, <2>3
    <3>5. HolderRows(ms) /\ DOMAIN ms = DOMAIN hs \cup {e.to} /\ Holdings(ms) = Holdings(hs) + 1
      <4>1. PICK a \in Addr, h \in Int, x \in Int : a = e.to /\ h = e.height /\ x = 1
        BY <1>2, <3>4, Zenon
      <4>2. ms = Moved(hs, a, x, h)
        BY <3>2, <4>1, Zenon
      <4>3. /\ HolderRows(Moved(hs, a, x, h)) /\ DOMAIN Moved(hs, a, x, h) = DOMAIN hs \cup {a}
            /\ Holdings(Moved(hs, a, x, h)) = Holdings(hs) + x
        <5>1. HolderRows(Moved(hs, a, x, h))
          BY <3>1, MovedFacts, Zenon
        <5>2. DOMAIN Moved(hs, a, x, h) = DOMAIN hs \cup {a}
          BY <3>1, MovedFacts, ZenonT(40)
        <5>3. Holdings(Moved(hs, a, x, h)) = Holdings(hs) + x
          BY <3>1, MovedFacts, Zenon
        <5> QED
          BY <5>1, <5>2, <5>3
      <4> QED
        BY <4>1, <4>2, <4>3, Zenon
    <3>6. /\ \A x \in Addr : Held(ms, x) = IF x = e.to THEN Held(hs, x) + 1 ELSE Held(hs, x)
          /\ \A x \in DOMAIN ms : ms[x].last = IF x = e.to THEN e.height ELSE hs[x].last
      BY <1>2, <3>1, <3>2, <3>4, <3>5, MovedHeld
    <3> HIDE DEF end
    <3>7. end.holders = ms /\ end.add = mid.add + 1 /\ end.ok = mid.ok
      BY <3>3, Zenon
    <3>8. Accumulator(end)
      BY <1>3, <3>3, <3>5, AccumulatorParts DEF Accumulator
    <3>9. Holdings(ms) - (mid.add + 1) = Holdings(hs) - mid.add
      BY <1>3, <3>1, <3>5, AccumulatorParts, HoldingsType
    <3>10. \A x \in Addr : Held(ms, x) = Held(hs, x) + Credit(e, x)
      <4>1. \A x \in Addr : Held(hs, x) \in Int
        BY <3>1 DEF Held, HolderRows, Holder
      <4> QED
        BY <3>6, <4>1 DEF Credit
    <3>11. mid.ok /\ Old => \A x \in DOMAIN ms : ms[x].last <= e.height
      BY <1>2, <1>3, <3>1, <3>5, <3>6
    <3> QED
      BY <1>3, <3>1, <3>7, <3>8, <3>9, <3>10, <3>11, Zenon
  <2> QED
    BY <2>1, <2>3, Zenon
<1>5. end.ok => mid.ok
  BY <1>3, AccumulatorParts
<1> HIDE DEF end
<1>6. ASSUME end.ok, Old, NEW a \in Addr
      PROVE  Held(end.holders, a) = Held(acc.holders, a) + Credit(e, a) - Debit(e, a)
  <2>1. Held(acc.holders, a) \in Int
    BY AccumulatorParts DEF Held, HolderRows, Holder
  <2>2. Held(end.holders, a) = (Held(acc.holders, a) - Debit(e, a)) + Credit(e, a)
    BY <1>3, <1>4, <1>5, <1>6, Zenon
  <2> QED
    BY <2>1, <2>2, CreditType
<1> QED
  BY <1>1, <1>4, <1>6, Zenon

(* The accumulator before the first activity.                              *)
Unapplied == [holders |-> holders, add |-> 0, ok |-> TRUE]

(* What updateBalanceHolders makes of the activities with the ids in r.    *)
Applied(r) == Fold(LAMBDA acc, i : IF acc.ok THEN ApplyEvent(acc, events[i]) ELSE acc, Unapplied, r)

(* Updated applies the activities of its job.                              *)
LEMMA UpdatedApplied ==
  ASSUME NEW j
  PROVE  Updated(j) = Applied(ActivityOf(j))
  BY Zenon DEF Updated, Applied, Unapplied

(* What updateBalanceHolders makes, activity by activity.                  *)
AppliedTraced(f, r, n) ==
    /\ f[0] = Unapplied
    /\ \A k \in 1 .. n : f[k] = IF f[k - 1].ok THEN ApplyEvent(f[k - 1], events[r[k]]) ELSE f[k - 1]
    /\ Applied(r) = f[n]

(* Applied has such a trace.                                               *)
LEMMA AppliedTrace ==
  ASSUME NEW s, NEW n \in Nat, n = Len(s)
  PROVE  \E f : AppliedTraced(f, s, n)
<1> DEFINE Step(acc, i) == IF acc.ok THEN ApplyEvent(acc, events[i]) ELSE acc
           Trace(f, m) == f = [k \in 0 .. m |-> IF k = 0 THEN Unapplied ELSE Step(f[k - 1], s[k])]
           G == {m \in Nat : \E f : Trace(f, m)}
           after == CHOOSE f : Trace(f, n)
<1>1. Applied(s) = after[n]
  BY Zenon DEF Applied, Fold
<1> HIDE DEF Step
<1>2. 0 \in G
  <2>1. Trace([k \in 0 .. 0 |-> Unapplied], 0)
    OBVIOUS
  <2> QED
    BY <2>1, Zenon
<1>3. ASSUME NEW m \in Nat, m \in G
      PROVE  m + 1 \in G
  <2>1. PICK f : Trace(f, m)
    BY <1>3, Zenon
  <2> DEFINE g == [k \in 0 .. m + 1 |-> IF k <= m THEN f[k] ELSE Step(f[m], s[m + 1])]
  <2>2. ASSUME NEW k \in 0 .. m + 1
        PROVE  g[k] = IF k = 0 THEN Unapplied ELSE Step(g[k - 1], s[k])
    BY <2>1
  <2>3. Trace(g, m + 1)
    BY <2>2, Zenon
  <2> HIDE DEF g, Trace
  <2> QED
    BY <2>3
<1> HIDE DEF G, Trace
<1>4. Nat \subseteq G
  BY <1>2, <1>3, NatInd, Zenon
<1>5. Trace(after, n)
  BY <1>4, Zenon DEF G
<1> HIDE DEF after
<1>6. /\ after[0] = Unapplied
      /\ \A k \in 1 .. n : after[k] = Step(after[k - 1], s[k])
  BY <1>5 DEF Trace
<1> QED
  BY <1>1, <1>6, Zenon DEF Step, AppliedTraced

(* The activities change the supply by as much as the sum of the balances. *)
LEMMA AppliedSums ==
  ASSUME Heights, HolderRows(holders), NEW r \in Seq(DOMAIN events)
  PROVE  /\ Accumulator(Applied(r))
         /\ Holdings(Applied(r).holders)
              = Holdings(holders) + Applied(r).add
<1>1. PICK n \in Nat : n = Len(r) /\ DOMAIN r = 1 .. n
  OBVIOUS
<1>a. PICK f : AppliedTraced(f, r, n)
  BY <1>1, AppliedTrace, Zenon
<1>2. Applied(r) = f[n]
  BY <1>a, Zenon DEF AppliedTraced
<1>3. /\ f[0] = Unapplied
      /\ \A k \in 1 .. n : f[k] = IF f[k - 1].ok THEN ApplyEvent(f[k - 1], events[r[k]]) ELSE f[k - 1]
  BY <1>a, Zenon DEF AppliedTraced
<1> DEFINE Ok(k) == Accumulator(f[k]) /\ Holdings(f[k].holders) - f[k].add = Holdings(holders)
           G == {k \in Nat : k <= n => Ok(k)}
<1>4. 0 \in G
  <2>1. Accumulator(Unapplied)
    BY DEF Unapplied, Accumulator
  <2>2. Holdings(Unapplied.holders) - Unapplied.add = Holdings(holders)
    BY HoldingsType DEF Unapplied
  <2> QED
    BY <1>3, <2>1, <2>2, Zenon
<1>5. ASSUME NEW k \in Nat, k \in G
      PROVE  k + 1 \in G
  <2> SUFFICES ASSUME k + 1 <= n PROVE Ok(k + 1)
    OBVIOUS
  <2>1. Ok(k) /\ k + 1 \in 1 .. n /\ (k + 1) - 1 = k
    BY <1>5
  <2>2. PICK e \in Event : e = events[r[k + 1]]
    BY <1>1, <2>1, EventTyped
  <2>3. f[k + 1] = IF f[k].ok THEN ApplyEvent(f[k], e) ELSE f[k]
    BY <1>3, <2>1, <2>2, Zenon
  <2>4. Ok(k + 1) \/ f[k + 1] = ApplyEvent(f[k], e)
    BY <2>1, <2>3, Zenon
  <2>5. /\ Accumulator(ApplyEvent(f[k], e))
        /\ Holdings(ApplyEvent(f[k], e).holders) - ApplyEvent(f[k], e).add
             = Holdings(f[k].holders) - f[k].add
    BY <2>1, ApplyEventFacts, Zenon
  <2> QED
    BY <2>1, <2>4, <2>5, Zenon
<1> HIDE DEF G
<1>6. Nat \subseteq G
  BY <1>4, <1>5, NatInd, Zenon
<1>7. n \in G /\ n <= n
  BY <1>6
<1>8. Ok(n)
  BY <1>7, Zenon DEF G
<1>9. Holdings(f[n].holders) = Holdings(holders) + f[n].add
  <2>1. Holdings(f[n].holders) \in Int /\ f[n].add \in Int
    BY <1>8, AccumulatorParts, HoldingsType, Zenon
  <2>2. Holdings(f[n].holders) - f[n].add = Holdings(holders)
    BY <1>8, Zenon
  <2> QED
    BY <2>1, <2>2
<1> QED
  BY <1>2, <1>8, <1>9, Zenon

(* Activities with every moving event after the first x, up to the first   *)
(* y, in order, take balances after x events to those after y events.     *)
LEMMA AppliedFollows ==
  ASSUME Heights, HolderRows(holders),
         NEW x \in 0 .. Len(events), NEW y \in 0 .. Len(events), x <= y,
         NEW lo \in Int, NEW hi \in Int, lo <= hi,
         \A i \in x + 1 .. y : lo <= events[i].height /\ events[i].height <= hi,
         NEW r \in Seq(x + 1 .. y),
         \A j, k \in 1 .. Len(r) : j < k => r[j] < r[k],
         \A i \in x + 1 .. y : Moving(i) => i \in Range(r),
         \A a \in Addr : Held(holders, a) = Worth(a, x),
         \A a \in DOMAIN holders : holders[a].last <= lo,
         Applied(r).ok
  PROVE  /\ \A a \in Addr : Held(Applied(r).holders, a) = Worth(a, y)
         /\ \A a \in DOMAIN Applied(r).holders :
               Applied(r).holders[a].last <= hi
<1>1. PICK n \in Nat : n = Len(r) /\ DOMAIN r = 1 .. n
  OBVIOUS
<1>2. PICK l \in Nat : l = Len(events) /\ DOMAIN events = 1 .. l
  BY EventTyped, Zenon
<1>a. x \in Nat /\ y \in Nat /\ x <= l /\ y <= l
  BY <1>2
<1>b. PICK f : AppliedTraced(f, r, n)
  BY <1>1, AppliedTrace, Zenon
<1>3. Applied(r) = f[n]
  BY <1>b, Zenon DEF AppliedTraced
<1>4. /\ f[0] = Unapplied
      /\ \A k \in 1 .. n : f[k] = IF f[k - 1].ok THEN ApplyEvent(f[k - 1], events[r[k]]) ELSE f[k - 1]
  BY <1>b, Zenon DEF AppliedTraced
<1> DEFINE at(k) == IF k = 0 THEN x ELSE r[k]
           upTo(k) == IF k = 0 THEN lo ELSE events[r[k]].height
           Ok(k) == /\ Accumulator(f[k])
                    /\ f[k].ok => /\ \A a \in Addr : Held(f[k].holders, a) = Worth(a, at(k))
                                  /\ \A a \in DOMAIN f[k].holders : f[k].holders[a].last <= upTo(k)
           G == {k \in Nat : k <= n => Ok(k)}
<1>5. \A k \in 1 .. n : r[k] \in x + 1 .. y /\ r[k] \in 1 .. l /\ events[r[k]] \in Event
                        /\ lo <= events[r[k]].height /\ events[r[k]].height <= hi
  BY <1>1, <1>2, EventTyped
<1>6. \A k \in 0 .. n : at(k) \in x .. y /\ upTo(k) \in Int
  BY <1>5 DEF Event
<1>7. ASSUME NEW k \in 0 .. n, NEW i \in x + 1 .. y, i > at(k), k < n => i < r[k + 1]
      PROVE  ~ Moving(i)
  <2> SUFFICES ASSUME Moving(i) PROVE FALSE
    BY Zenon
  <2>1. PICK j \in 1 .. n : r[j] = i
    BY <1>1, Zenon DEF Range
  <2>2. CASE j <= k
    <3>1. k \in 1 .. n /\ at(k) = r[k]
      BY <2>2
    <3>2. r[j] \in Int /\ r[k] \in Int /\ r[j] <= r[k]
      BY <1>a, <1>1, <1>5, <2>2, <3>1
    <3> QED
      BY <1>7, <2>1, <3>1, <3>2
  <2>3. CASE j > k
    <3>1. k < n /\ k + 1 \in 1 .. n /\ k + 1 <= j
      BY <2>3
    <3>2. r[j] \in Int /\ r[k + 1] \in Int /\ r[k + 1] <= r[j]
      BY <1>a, <1>1, <1>5, <3>1
    <3> QED
      BY <1>7, <2>1, <3>1, <3>2
  <2> QED
    BY <2>2, <2>3
<1>8. 0 \in G
  <2>1. Accumulator(Unapplied)
    BY DEF Unapplied, Accumulator
  <2>2. Unapplied.holders = holders
    BY Zenon DEF Unapplied
  <2> QED
    BY <1>4, <2>1, <2>2, Zenon
<1>9. ASSUME NEW k \in Nat, k \in G
      PROVE  k + 1 \in G
  <2> SUFFICES ASSUME k + 1 <= n PROVE Ok(k + 1)
    OBVIOUS
  <2>1. Ok(k) /\ k + 1 \in 1 .. n /\ (k + 1) - 1 = k /\ k \in 0 .. n /\ k + 1 # 0
    BY <1>9
  <2>2. PICK i \in 1 .. l : i = r[k + 1] /\ i \in x + 1 .. y
    BY <1>5, <2>1, Zenon
  <2>3. PICK e \in Event : e = events[i] /\ e.height \in Int
    BY <1>5, <2>1, <2>2, Zenon DEF Event
  <2>4. f[k + 1] = IF f[k].ok THEN ApplyEvent(f[k], e) ELSE f[k]
    BY <1>4, <2>1, <2>2, <2>3, Zenon
  <2>5. CASE ~ f[k].ok
    BY <2>1, <2>4, <2>5, Zenon
  <2>6. CASE f[k].ok
    <3>1. f[k + 1] = ApplyEvent(f[k], e)
      BY <2>4, <2>6, Zenon
    <3>2. upTo(k) <= e.height /\ at(k) \in x .. y /\ at(k) < i
      <4>1. CASE k = 0
        BY <1>5, <2>1, <2>2, <2>3, <4>1
      <4>2. CASE k # 0
        <5>1. k \in 1 .. n /\ r[k] < r[k + 1]
          BY <1>1, <2>1, <4>2
        <5>2. r[k] \in 1 .. l /\ r[k] <= i /\ events[r[k]].height <= events[i].height
          <6>1. r[k] \in 1 .. l /\ r[k] <= i
            BY <1>5, <2>2, <5>1
          <6> QED
            BY <1>2, <6>1, Zenon DEF Heights
        <5>3. r[k] \in x .. y /\ upTo(k) = events[r[k]].height /\ at(k) = r[k]
          BY <1>a, <1>5, <4>2, <5>1
        <5> QED
          BY <2>2, <2>3, <5>1, <5>2, <5>3, Zenon
      <4> QED
        BY <4>1, <4>2, Zenon
    <3>3. \A a \in DOMAIN f[k].holders : f[k].holders[a].last <= e.height
      <4>1. \A a \in DOMAIN f[k].holders : f[k].holders[a].last \in Int
        BY <2>1, AccumulatorParts, Zenon DEF HolderRows, Holder
      <4> QED
        BY <1>6, <2>1, <2>3, <2>6, <3>2, <4>1
    <3>4. /\ Accumulator(ApplyEvent(f[k], e))
          /\ ApplyEvent(f[k], e).ok =>
                /\ \A a \in Addr : Held(ApplyEvent(f[k], e).holders, a)
                                     = Held(f[k].holders, a) + Credit(e, a) - Debit(e, a)
                /\ \A a \in DOMAIN ApplyEvent(f[k], e).holders :
                      ApplyEvent(f[k], e).holders[a].last <= e.height
      BY <2>1, <3>3, ApplyEventFacts, Zenon
    <3>5. ASSUME NEW a \in Addr
          PROVE  Worth(a, i) = Held(f[k].holders, a) + Credit(e, a) - Debit(e, a)
      <4>1. Worth(a, i) = Worth(a, i - 1) + Credit(e, a) - Debit(e, a)
        BY <1>2, <2>3, WorthSteps, Zenon
      <4>2. Worth(a, i - 1) = Worth(a, at(k))
        <5> HIDE DEF at
        <5>1. PICK b \in 0 .. l : b = at(k)
          BY <1>a, <3>2
        <5>2. PICK c \in 0 .. l : c = i - 1
          OBVIOUS
        <5>3. b <= c /\ \A m \in b + 1 .. c : ~ Moving(m)
          <6>1. b <= c
            BY <1>a, <2>2, <3>2, <5>1, <5>2
          <6>2. ASSUME NEW m \in b + 1 .. c
                PROVE  ~ Moving(m)
            <7>1. x <= b
              BY <1>a, <3>2, <5>1
            <7>2. i <= y
              BY <1>a, <2>2
            <7>3. m \in Int /\ b < m /\ m < i
              BY <5>1, <5>2
            <7>4. m \in x + 1 .. y /\ m > at(k) /\ m < r[k + 1]
              BY <1>a, <2>2, <5>1, <7>1, <7>2, <7>3
            <7> QED
              BY <1>7, <2>1, <7>4, Zenon
          <6> QED
            BY <6>1, <6>2, Zenon
        <5> QED
          BY <1>2, <5>1, <5>2, <5>3, WorthFlat, Zenon
      <4>3. Held(f[k].holders, a) = Worth(a, at(k))
        BY <2>1, <2>6, Zenon
      <4> QED
        BY <4>1, <4>2, <4>3, Zenon
    <3>6. at(k + 1) = i /\ upTo(k + 1) = e.height
      BY <2>1, <2>2, <2>3, Zenon
    <3> HIDE DEF at, upTo
    <3> QED
      BY <3>1, <3>4, <3>5, <3>6, Zenon
  <2> QED
    BY <2>5, <2>6, Zenon
<1> HIDE DEF G
<1>10. Nat \subseteq G
  BY <1>8, <1>9, NatInd, Zenon
<1>11. n \in G /\ n <= n
  BY <1>10
<1>12. Ok(n) /\ f[n].ok
  BY <1>3, <1>11, Zenon DEF G
<1>13. ASSUME NEW a \in Addr
       PROVE  Worth(a, y) = Worth(a, at(n))
  <2>a. n \in 0 .. n
    BY <1>1
  <2>b. at(n) \in x .. y
    BY <1>6, <2>a, Zenon
  <2> HIDE DEF at
  <2>1. PICK b \in 0 .. l : b = at(n) /\ b <= y
    BY <1>a, <2>b
  <2>2. \A m \in b + 1 .. y : ~ Moving(m)
    BY <1>6, <1>7, <2>1
  <2> QED
    BY <1>2, <2>1, <2>2, WorthFlat, Zenon
<1>14. upTo(n) <= hi /\ upTo(n) \in Int
  BY <1>5, <1>6
<1>15. \A a \in DOMAIN f[n].holders : f[n].holders[a].last \in Int
  BY <1>12, AccumulatorParts, Zenon DEF HolderRows, Holder
<1> HIDE DEF at, upTo
<1> QED
  BY <1>3, <1>12, <1>13, <1>14, <1>15

-----------------------------------------------------------------------------
(* The types of the variables, and what the ranges of heights have to do   *)
(* with each other.                                                        *)
UpdateJob == [id : Nat, startBlock : Int, endBlock : Int, tries : Nat]
ContractRow == [id : Nat, track : BOOLEAN, supply : Int, last : Int]

(* The run of HANDLE_CW20: it starts at the checkpoint, and calls          *)
(* CW20_UPDATE_BY_CONTRACT after its commit.                               *)
JobTyped ==
    job # Idle =>
        /\ job \in [pc : {"commit", "call"}, start : Int, end : Int]
        /\ StartBlock <= job.start /\ job.start < job.end /\ job.end <= crawled
        /\ job.pc = "commit" => job.start = StartHeight(cp)
        /\ job.pc = "call" => job.end = cp

(* What the node answered to getInstantiateBalances.                       *)
AnswerTyped(s) ==
    /\ HolderRows(s.holders) /\ s.track \in BOOLEAN /\ s.faults \subseteq {"uneven"}
    /\ Lowest(s.holders) \in Int /\ Highest(s.holders) \in Int

(* The accounts were listed at height l, their balances read from l on; in *)
(* an even answer they are those of block l.                               *)
Taken(s, l) ==
    /\ DOMAIN s.holders = Listed(l)
    /\ \A a \in Listed(l) : s.holders[a].last \in l .. head
    /\ s.faults = {} => \A a \in Listed(l) : s.holders[a] = [amount |-> Balance(a, l), last |-> l]
    /\ s.reach = IF DOMAIN s.holders = {} THEN l ELSE Highest(s.holders)

(* The run of REINDEX_CW20 and the walk of its history jobs; no reindexing *)
(* is ahead of the checkpoint.                                             *)
ReindexTyped ==
    /\ reindex.pc \in {"none", "queued", "unknown", "known", "committed", "done", "failed"}
    /\ reindex.min \in Int /\ reindex.max \in Int
    /\ reindex.pc = "none" => reindex = NoReindex
    /\ reindex.pc \in {"unknown", "known"} =>
          /\ AnswerTyped(reindex.answer)
          /\ reindex.min = Lowest(reindex.answer.holders) /\ reindex.max = Highest(reindex.answer.holders)
    /\ walk # NoWalk => walk \in [prevId : Nat, endBlock : Int] /\ reindex.pc = "done"
    /\ reindexed \in Seq(Int)
    /\ reindex.pc \in {"committed", "done"} => reindexed # <<>>
    /\ reindexed # <<>> => contract # NoContract
    /\ \A k \in DOMAIN reindexed : reindexed[k] <= StartHeight(cp)

(* All variables.                                                          *)
Typed ==
    /\ Chain
    /\ crawled \in StartBlock .. head
    /\ cp = NoRow \/ cp \in StartBlock .. crawled
    /\ contract = NoContract \/ contract \in ContractRow
    /\ HolderRows(holders)
    /\ activity \in Seq(Int)
    /\ \A i \in Range(activity) : i \in DOMAIN events /\ events[i].height <= crawled
    /\ JobTyped
    /\ wait \in Seq(UpdateJob) /\ delayed \in Seq(UpdateJob)
    /\ ReindexTyped

(* A nonempty set of heights in a range has a least and a greatest one.    *)
LEMMA Extremes ==
  ASSUME NEW lo \in Int, NEW hi \in Int, NEW S \in SUBSET (lo .. hi), S # {}
  PROVE  /\ Max(S) \in S /\ \A x \in S : x <= Max(S)
         /\ Min(S) \in S /\ \A x \in S : Min(S) <= x
<1> DEFINE Has(T) == /\ \E x \in T : \A y \in T : x >= y
                    /\ \E x \in T : \A y \in T : x =< y
           Upto(n) == \A T \in SUBSET (lo .. lo + n) : T # {} => Has(T)
           G == {n \in Nat : Upto(n)}
<1>1. 0 \in G
  <2> SUFFICES ASSUME NEW T \in SUBSET (lo .. lo + 0), T # {}
               PROVE  Has(T)
    BY Zenon
  <2>1. PICK x \in T : TRUE
    BY Zenon
  <2>2. \A y \in T : y = lo
    OBVIOUS
  <2>3. \A y \in T : x >= y /\ x =< y
    BY <2>2
  <2> QED
    BY <2>3, Zenon
<1>2. ASSUME NEW n \in Nat, n \in G
      PROVE  n + 1 \in G
  <2> n + 1 \in Nat
    OBVIOUS
  <2> SUFFICES ASSUME NEW T \in SUBSET (lo .. lo + (n + 1)), T # {}
               PROVE  Has(T)
    BY Zenon
  <2>1. \A y \in T : y \in Int /\ (y \in lo .. lo + n \/ y = lo + (n + 1))
    OBVIOUS
  <2> DEFINE U == T \cap lo .. lo + n
  <2>2. CASE U = {}
    <3>1. \A y \in T : y = lo + (n + 1)
      BY <2>1, <2>2, Zenon
    <3>2. PICK x \in T : TRUE
      BY Zenon
    <3>3. \A y \in T : x >= y /\ x =< y
      BY <2>1, <3>1
    <3> QED
      BY <3>3, Zenon
  <2>3. CASE U # {}
    <3>1. U \in SUBSET (lo .. lo + n)
      BY Zenon
    <3>2. PICK x \in U : \A y \in U : x =< y
      BY <1>2, <2>3, <3>1, Zenon
    <3>3. PICK z \in U : \A y \in U : z >= y
      BY <1>2, <2>3, <3>1, Zenon
    <3>4. \A y \in T : x =< y
      BY <2>1, <3>2
    <3>5. \E w \in T : \A y \in T : w >= y
      BY <2>1, <3>3
    <3> QED
      BY <3>2, <3>4, <3>5, Zenon
  <2> QED
    BY <2>2, <2>3, Zenon
<1> HIDE DEF G
<1>3. Nat \subseteq G
  BY <1>1, <1>2, NatInd, Zenon
<1>4. hi - lo \in Nat /\ lo + (hi - lo) = hi
  <2>1. PICK x \in S : TRUE
    BY Zenon
  <2>2. x \in Int /\ lo <= x /\ x <= hi
    OBVIOUS
  <2> QED
    BY <2>2
<1>5. /\ \E x \in S : \A y \in S : x >= y
      /\ \E x \in S : \A y \in S : x =< y
  BY <1>3, <1>4, Zenon DEF G
<1>6. Max(S) \in S /\ \A y \in S : Max(S) >= y
  BY <1>5, Zenon DEF Max
<1>7. Min(S) \in S /\ \A y \in S : Min(S) =< y
  BY <1>5, Zenon DEF Min
<1> QED
  BY <1>6, <1>7, Zenon
-----------------------------------------------------------------------------
(* The heights of a snapshot whose balances were all read in lo .. hi.     *)
LEMMA SnapshotHeights ==
  ASSUME NEW hs, NEW lo \in Int, NEW hi \in Int, \A a \in DOMAIN hs : hs[a].last \in lo .. hi
  PROVE  /\ Lowest(hs) \in Int /\ Highest(hs) \in Int
         /\ DOMAIN hs = {} => Lowest(hs) = 0 /\ Highest(hs) = 0
         /\ DOMAIN hs # {} => /\ Lowest(hs) \in lo .. hi /\ Highest(hs) \in lo .. hi
                              /\ \E a \in DOMAIN hs : Lowest(hs) = hs[a].last
                              /\ \E a \in DOMAIN hs : Highest(hs) = hs[a].last
<1>1. CASE DOMAIN hs = {}
  BY <1>1 DEF Lowest, Highest
<1>2. CASE DOMAIN hs # {}
  <2> DEFINE S == {hs[a].last : a \in DOMAIN hs}
  <2>1. S \in SUBSET (lo .. hi) /\ S # {}
    BY <1>2, Zenon
  <2>2. Lowest(hs) = Min(S) /\ Highest(hs) = Max(S)
    BY <1>2, Zenon DEF Lowest, Highest
  <2> HIDE DEF S
  <2>3. Min(S) \in S /\ Max(S) \in S
    BY <2>1, Extremes, Zenon
  <2>4. /\ \E a \in DOMAIN hs : Lowest(hs) = hs[a].last
        /\ \E a \in DOMAIN hs : Highest(hs) = hs[a].last
    BY <2>2, <2>3, Zenon DEF S
  <2> QED
    BY <1>2, <2>4
<1> QED
  BY <1>1, <1>2, Zenon

(* What an answer of the node that is given now says.                      *)
LEMMA AnswerFacts ==
  ASSUME Heights, crawled \in Int, NEW s \in Answers
  PROVE  AnswerTyped(s) /\ (s.track => \E l \in crawled .. head : Taken(s, l))
<1>1. ASSUME NEW l \in crawled .. head, NEW at \in [Listed(l) -> l .. head], s = Read(l, at)
      PROVE  AnswerTyped(s) /\ Taken(s, l)
  <2>1. head \in Int /\ l \in Int
    BY DEF Heights
  <2>2. Listed(l) \subseteq Addr
    BY Zenon DEF Listed
  <2>3. \A a \in Listed(l) : at[a] \in Int /\ at[a] \in l .. head
    BY <2>1
  <2>4. \A a \in Listed(l) : Balance(a, at[a]) \in Int
    BY <2>2, <2>3, BalanceIsWorth, Zenon
  <2>5. PICK hs : hs = Snapshot(at)
    BY Zenon
  <2>6. /\ s.track = TRUE /\ s.holders = hs /\ s.reach = Max({l} \cup Range(at))
        /\ s.faults = IF \A a \in DOMAIN at : at[a] = l THEN {} ELSE {"uneven"}
    BY <1>1, <2>5 DEF Read
  <2>7. /\ DOMAIN hs = Listed(l)
        /\ \A a \in Listed(l) : hs[a] = [amount |-> Balance(a, at[a]), last |-> at[a]]
    BY <2>5, Zenon DEF Snapshot
  <2>8. HolderRows(hs)
    BY <2>2, <2>3, <2>4, <2>7 DEF HolderRows, Holder
  <2>9. \A a \in DOMAIN hs : hs[a].last \in l .. head /\ hs[a].last = at[a]
    BY <2>3, <2>7
  <2>10. Lowest(hs) \in Int /\ Highest(hs) \in Int
    BY <2>1, <2>9, SnapshotHeights, Zenon
  <2>11. s.faults = {} => \A a \in Listed(l) : hs[a] = [amount |-> Balance(a, l), last |-> l]
    BY <2>6, <2>7, Zenon
  <2>12. s.reach = IF DOMAIN hs = {} THEN l ELSE Highest(hs)
    <3> DEFINE S == {hs[a].last : a \in DOMAIN hs}
    <3>1. Range(at) = S
      BY <2>7, <2>9, Zenon DEF Range
    <3>2. CASE DOMAIN hs = {}
      <4>1. {l} \cup Range(at) = {l}
        BY <3>1, <3>2, Zenon
      <4>2. Max({l}) = l
        <5>1. {l} \in SUBSET (l .. l) /\ {l} # {}
          BY <2>1
        <5> QED
          BY <2>1, <5>1, Extremes, Zenon
      <4> QED
        BY <2>6, <3>2, <4>1, <4>2, Zenon
    <3>3. CASE DOMAIN hs # {}
      <4>1. S \in SUBSET (l .. head) /\ S # {}
        BY <2>9, <3>3, Zenon
      <4>2. Highest(hs) = Max(S)
        BY <3>3, Zenon DEF Highest
      <4> HIDE DEF S
      <4>3. Max(S) \in S /\ \A x \in S : x <= Max(S)
        BY <2>1, <4>1, Extremes, Zenon
      <4>4. {l} \cup S \in SUBSET (l .. head)
        BY <2>1, <4>1
      <4>5. /\ Max({l} \cup S) \in {l} \cup S
            /\ \A x \in {l} \cup S : x <= Max({l} \cup S)
        BY <2>1, <4>4, Extremes, Zenon
      <4>6. Max({l} \cup S) = Max(S)
        <5>a. \A x \in l .. head : x \in Int
          BY <2>1
        <5>1. PICK m \in Int, n \in Int : m = Max(S) /\ n = Max({l} \cup S)
          BY <5>a, <4>1, <4>3, <4>4, <4>5, Zenon
        <5>2. n = l \/ n <= m
          BY <4>3, <4>5, <5>1, Zenon
        <5>3. l <= m /\ m <= n
          BY <2>1, <4>1, <4>3, <4>5, <5>1
        <5> QED
          BY <2>1, <5>1, <5>2, <5>3
      <4> QED
        BY <2>6, <3>1, <3>3, <4>2, <4>6, Zenon
    <3> QED
      BY <3>2, <3>3, Zenon
  <2>13. s.track \in BOOLEAN /\ s.faults \subseteq {"uneven"}
    BY <2>6, Zenon
  <2> QED
    BY <2>6, <2>7, <2>8, <2>9, <2>10, <2>11, <2>12, <2>13 DEF AnswerTyped, Taken
<1>2. ASSUME s = Unread
      PROVE  AnswerTyped(s) /\ ~ s.track
  <2>1. s.track = FALSE /\ s.holders = <<>> /\ s.faults = {}
    BY <1>2 DEF Unread
  <2>2. DOMAIN s.holders = {}
    BY <2>1
  <2>3. HolderRows(s.holders) /\ Lowest(s.holders) \in Int /\ Highest(s.holders) \in Int
    <3>1. Lowest(s.holders) = 0 /\ Highest(s.holders) = 0
      BY <2>2, Zenon DEF Lowest, Highest
    <3> QED
      BY <2>2, <3>1 DEF HolderRows
  <2> QED
    BY <2>1, <2>3, Zenon DEF AnswerTyped
<1>3. \/ \E l \in crawled .. head : \E at \in [Listed(l) -> l .. head] : s = Read(l, at)
      \/ s = Unread
  BY Zenon DEF Answers
<1> QED
  BY <1>1, <1>2, <1>3, Zenon

(* What the insertion of a contract row leaves behind.                     *)
LEMMA InsertFacts ==
  ASSUME NEW id \in Nat, NEW s, AnswerTyped(s), InsertContract(id, s)
  PROVE  /\ contract' \in ContractRow /\ contract'.id = id /\ contract'.last = Lowest(holders')
         /\ HolderRows(holders') /\ contract'.supply = Holdings(holders') /\ contract'.track = s.track
         /\ Lowest(holders') \in Int /\ Highest(holders') \in Int /\ holders' = s.holders
<1>1. PICK t \in BOOLEAN : t = s.track
  BY Zenon DEF AnswerTyped
<1> DEFINE hs == s.holders
<1>2. /\ contract' = [id |-> id, track |-> t, supply |-> Holdings(hs), last |-> Lowest(hs)]
      /\ holders' = hs
  BY <1>1, Zenon DEF InsertContract
<1> HIDE DEF hs
<1>3. HolderRows(hs) /\ Lowest(hs) \in Int /\ Highest(hs) \in Int
  BY Zenon DEF AnswerTyped, hs
<1>4. Holdings(hs) \in Int
  BY <1>3, HoldingsType, Zenon
<1> QED
  BY <1>1, <1>2, <1>3, <1>4, Zenon DEF ContractRow, hs

(* ... by the instantiation that HANDLE_CW20 handles.                      *)
LEMMA InstantiateFacts ==
  ASSUME Heights, crawled \in Int, HandleCw20Instantiate
  PROVE  /\ contract = NoContract /\ contract' \in ContractRow
         /\ contract'.id = 0 /\ contract'.last = Lowest(holders')
         /\ HolderRows(holders') /\ contract'.supply = Holdings(holders')
         /\ faults' \subseteq {"uneven"}
         /\ contract'.track => \E l \in crawled .. head :
               /\ DOMAIN holders' = Listed(l)
               /\ \A a \in Listed(l) : holders'[a].last \in l .. head
               /\ faults' = {} => \A a \in Listed(l) : holders'[a] = [amount |-> Balance(a, l), last |-> l]
<1>1. PICK s \in Answers : InsertContract(0, s) /\ faults' = s.faults
  BY Zenon DEF HandleCw20Instantiate
<1>2. AnswerTyped(s) /\ (s.track => \E l \in crawled .. head : Taken(s, l))
  BY <1>1, AnswerFacts, Zenon
<1>3. /\ contract' \in ContractRow /\ contract'.id = 0 /\ contract'.last = Lowest(holders')
      /\ HolderRows(holders') /\ contract'.supply = Holdings(holders') /\ contract'.track = s.track
      /\ holders' = s.holders
  BY <1>1, <1>2, InsertFacts
<1> QED
  BY <1>1, <1>2, <1>3, Zenon DEF HandleCw20Instantiate, AnswerTyped, Taken
-----------------------------------------------------------------------------
(* Queues and stored events.                                               *)
LEMMA HeadAndTail ==
  ASSUME NEW D, NEW s \in Seq(D), s # <<>>
  PROVE  /\ Head(s) \in D /\ Tail(s) \in Seq(D) /\ Range(s) = {Head(s)} \cup Range(Tail(s))
         /\ Len(s) \in Nat \ {0} /\ DOMAIN s = 1 .. Len(s) /\ DOMAIN Tail(s) = 1 .. Len(s) - 1
         /\ Head(s) = s[1] /\ \A k \in 1 .. Len(s) - 1 : Tail(s)[k] = s[k + 1]
<1>1. /\ Head(s) \in D /\ Tail(s) \in Seq(D)
      /\ Len(s) \in Nat \ {0} /\ DOMAIN s = 1 .. Len(s) /\ DOMAIN Tail(s) = 1 .. Len(s) - 1
      /\ Head(s) = s[1] /\ \A k \in 1 .. Len(s) - 1 : Tail(s)[k] = s[k + 1]
  OBVIOUS
<1>2. PICK t, n : t = Tail(s) /\ n = Len(s)
  BY Zenon
<1>3. \A k \in 1 .. n : k = 1 \/ (k - 1 \in 1 .. n - 1 /\ k - 1 + 1 = k)
  BY <1>1, <1>2
<1>4. \A k \in 1 .. n : s[k] = s[1] \/ \E i \in 1 .. n - 1 : s[k] = t[i]
  BY <1>1, <1>2, <1>3
<1>5. 1 \in 1 .. n /\ \A k \in 1 .. n - 1 : k + 1 \in 1 .. n
  BY <1>1, <1>2
<1>6. Range(s) = {s[1]} \cup Range(t)
  <2>1. \A x \in Range(s) : x \in {s[1]} \cup Range(t)
    <3> SUFFICES ASSUME NEW x \in Range(s)
                 PROVE  x = s[1] \/ x \in Range(t)
      BY Zenon
    <3>1. PICK k \in 1 .. n : s[k] = x
      BY <1>1, <1>2, InRange
    <3>2. x = s[1] \/ \E i \in DOMAIN t : t[i] = x
      BY <1>1, <1>2, <1>4, <3>1, Zenon
    <3> QED
      BY <3>2, InRange, Zenon
  <2>2. \A x \in {s[1]} \cup Range(t) : x \in Range(s)
    BY <1>1, <1>2, <1>5, Zenon DEF Range
  <2> QED
    BY <2>1, <2>2, Zenon
<1> QED
  BY <1>1, <1>2, <1>6, Zenon

(* The elements of a queue with a new last job.                            *)
LEMMA Appended ==
  ASSUME NEW D, NEW s \in Seq(D), NEW x \in D
  PROVE  /\ Append(s, x) \in Seq(D) /\ Append(s, x) # <<>> /\ Range(Append(s, x)) = Range(s) \cup {x}
         /\ Len(s) \in Nat /\ DOMAIN s = 1 .. Len(s) /\ DOMAIN Append(s, x) = 1 .. Len(s) + 1
         /\ Append(s, x)[Len(s) + 1] = x /\ \A k \in 1 .. Len(s) : Append(s, x)[k] = s[k]
<1>1. /\ Append(s, x) \in Seq(D) /\ Append(s, x) # <<>>
      /\ Len(s) \in Nat /\ DOMAIN s = 1 .. Len(s) /\ DOMAIN Append(s, x) = 1 .. Len(s) + 1
      /\ Append(s, x)[Len(s) + 1] = x /\ \A k \in 1 .. Len(s) : Append(s, x)[k] = s[k]
  OBVIOUS
<1>2. PICK t, n : t = Append(s, x) /\ n = Len(s)
  BY Zenon
<1>3. \A k \in 1 .. n + 1 : k = n + 1 \/ k \in 1 .. n
  BY <1>1, <1>2
<1>4. n + 1 \in 1 .. n + 1 /\ \A k \in 1 .. n : k \in 1 .. n + 1
  BY <1>1, <1>2
<1>5. Range(t) = Range(s) \cup {x}
  <2>1. \A y \in Range(t) : y \in Range(s) \cup {x}
    BY <1>1, <1>2, <1>3, Zenon DEF Range
  <2>2. \A y \in Range(s) \cup {x} : y \in Range(t)
    BY <1>1, <1>2, <1>4, Zenon DEF Range
  <2> QED
    BY <2>1, <2>2, Zenon
<1> QED
  BY <1>1, <1>2, <1>5, Zenon

(* r is s without its element k.                                           *)
Removal(r, s, k) ==
    /\ Range(s) = Range(r) \cup {s[k]}
    /\ Len(s) \in Nat /\ DOMAIN s = 1 .. Len(s) /\ DOMAIN r = 1 .. Len(s) - 1
    /\ \A i \in 1 .. Len(s) - 1 : r[i] = IF i < k THEN s[i] ELSE s[i + 1]

(* A queue without its job k is a queue.                                   *)
LEMMA Removed ==
  ASSUME NEW D, NEW s \in Seq(D), NEW k \in DOMAIN s
  PROVE  \E r \in Seq(D) :
            /\ r = SubSeq(s, 1, k - 1) \o SubSeq(s, k + 1, Len(s))
            /\ s[k] \in D /\ Removal(r, s, k)
<1>1. PICK n \in Nat : n = Len(s) /\ DOMAIN s = 1 .. n /\ k \in 1 .. n /\ \A i \in 1 .. n : s[i] \in D
  OBVIOUS
<1>2. PICK p, q : p = SubSeq(s, 1, k - 1) /\ q = SubSeq(s, k + 1, n)
  BY Zenon
<1>3. p \in Seq(D) /\ Len(p) = k - 1 /\ \A i \in 1 .. k - 1 : p[i] = s[i]
  BY <1>1, <1>2
<1>4. q \in Seq(D) /\ Len(q) = n - k /\ \A i \in 1 .. n - k : q[i] = s[i + k]
  <2>1. k + 1 \in Int /\ n - (k + 1) + 1 = n - k /\ k + 1 <= n + 1
    BY <1>1
  <2>2. q = [i \in 1 .. n - (k + 1) + 1 |-> s[i + (k + 1) - 1]]
    BY <1>1, <1>2, <2>1
  <2>3. n - k \in Nat /\ \A i \in 1 .. n - k : i + k \in 1 .. n /\ i + (k + 1) - 1 = i + k
    BY <1>1
  <2>4. q = [i \in 1 .. n - k |-> s[i + k]]
    BY <2>1, <2>2, <2>3, Zenon
  <2>5. PICK m \in Nat : m = n - k
    BY <2>3, Zenon
  <2>6. \A i \in 1 .. m : s[i + k] \in D
    BY <1>1, <2>3, <2>5, Zenon
  <2>7. q = [i \in 1 .. m |-> s[i + k]]
    BY <2>4, <2>5, Zenon
  <2>8. q \in Seq(D) /\ Len(q) = m /\ \A i \in 1 .. m : q[i] = s[i + k]
    BY <2>6, <2>7
  <2> QED
    BY <2>5, <2>8, Zenon
<1>5. /\ p \o q \in Seq(D) /\ Len(p \o q) = n - 1
      /\ \A i \in 1 .. n - 1 : (p \o q)[i] = IF i <= k - 1 THEN p[i] ELSE q[i - (k - 1)]
  <2>1. (k - 1) + (n - k) = n - 1
    BY <1>1
  <2>2. Len(p) + Len(q) = n - 1
    BY <1>3, <1>4, <2>1, Zenon
  <2>3. PICK w : w = p \o q
    BY Zenon
  <2>4. /\ w \in Seq(D) /\ Len(w) = Len(p) + Len(q)
        /\ \A i \in 1 .. Len(p) + Len(q) : w[i] = IF i <= Len(p) THEN p[i] ELSE q[i - Len(p)]
    BY <1>3, <1>4, <2>3, Concatenated, Zenon
  <2> QED
    BY <1>3, <2>2, <2>3, <2>4, Zenon
<1>6. PICK r : r = p \o q
  BY ZenonT(40)
<1>7. r \in Seq(D) /\ Len(r) = n - 1 /\ DOMAIN r = 1 .. n - 1
      /\ \A i \in 1 .. n - 1 : r[i] = IF i < k THEN s[i] ELSE s[i + 1]
  <2>4. r \in Seq(D) /\ Len(r) = n - 1
        /\ \A i \in 1 .. n - 1 : r[i] = IF i <= k - 1 THEN p[i] ELSE q[i - (k - 1)]
    BY <1>5, <1>6, Zenon
  <2>2. DOMAIN r = 1 .. n - 1
    BY <2>4
  <2>3. ASSUME NEW i \in 1 .. n - 1
        PROVE  r[i] = IF i < k THEN s[i] ELSE s[i + 1]
    <3>1. CASE i < k
      <4>1. i \in 1 .. k - 1 /\ i <= k - 1
        BY <1>1, <3>1
      <4> QED
        BY <1>3, <2>4, <3>1, <4>1, ZenonT(40)
    <3>2. CASE i >= k
      <4>1. i - (k - 1) \in 1 .. n - k /\ i - (k - 1) + k = i + 1 /\ ~ (i <= k - 1)
        BY <1>1, <3>2
      <4> QED
        <5>1. PICK j \in 1 .. n - k : j = i - (k - 1) /\ j + k = i + 1
          BY <4>1, Zenon
        <5>2. r[i] = q[j]
          BY <2>4, <4>1, <5>1, Zenon
        <5>3. q[j] = s[i + 1]
          BY <1>4, <5>1, Zenon
        <5>4. ~ (i < k)
          BY <1>1, <3>2
        <5> QED
          BY <5>2, <5>3, <5>4, Zenon
    <3> QED
      BY <3>1, <3>2, <1>1
  <2> QED
    BY <2>2, <2>3, <2>4, Zenon
<1>8. Range(s) = Range(r) \cup {s[k]}
  <2>1. ASSUME NEW x \in Range(s)
        PROVE  x \in Range(r) \cup {s[k]}
    <3>1. PICK i \in 1 .. n : x = s[i]
      BY <1>1, Zenon DEF Range
    <3>2. i = k \/ (i \in 1 .. n - 1 /\ i < k) \/ (i - 1 \in 1 .. n - 1 /\ ~ (i - 1 < k) /\ i - 1 + 1 = i)
      BY <1>1
    <3>3. i = k \/ \E m \in 1 .. n - 1 : s[i] = r[m]
      BY <1>7, <3>2, Zenon
    <3> QED
      BY <1>7, <3>1, <3>3, Zenon DEF Range
  <2>2. ASSUME NEW x \in Range(r)
        PROVE  x \in Range(s)
    <3>1. PICK i \in 1 .. n - 1 : x = r[i]
      BY <1>7, Zenon DEF Range
    <3>2. i \in 1 .. n /\ i + 1 \in 1 .. n
      BY <1>1
    <3> QED
      BY <1>1, <1>7, <3>1, <3>2, Zenon DEF Range
  <2>3. s[k] \in Range(s)
    BY Zenon DEF Range
  <2> QED
    BY <2>1, <2>2, <2>3, Zenon
<1>9. Removal(r, s, k)
  BY <1>1, <1>7, <1>8, Zenon DEF Removal
<1>10. r = SubSeq(s, 1, k - 1) \o SubSeq(s, k + 1, Len(s))
  BY <1>1, <1>2, <1>6, Zenon
<1> QED
  BY <1>1, <1>7, <1>9, <1>10, Zenon

(* The ranges of heights of a typed state.                                 *)
LEMMA StartHeightFacts ==
  ASSUME Typed
  PROVE  /\ Heights /\ StartBlock \in Int /\ head \in Int /\ crawled \in Int /\ cp \in Int
         /\ StartHeight(cp) \in Int /\ StartBlock <= StartHeight(cp) /\ StartHeight(cp) <= crawled
         /\ StartBlock <= crawled /\ crawled <= head /\ cp <= StartHeight(cp)
         /\ job.pc = "idle" <=> job = Idle
<1>1. Heights /\ head \in Int
  BY Zenon DEF Typed, Chain, Heights
<1>2. job.pc = "idle" <=> job = Idle
  BY DEF Typed, JobTyped, Idle
<1> QED
  BY <1>1, <1>2, StartBlockAssumption DEF Typed, StartHeight, NoRow

(* EventIds are the stored events of a range.                              *)
LEMMA EventIdsFacts ==
  ASSUME Heights, crawled \in Int, NEW lo \in Int, NEW hi \in Int, NEW i
  PROVE  i \in EventIds(lo, hi) <=>
            /\ i \in DOMAIN events /\ lo < events[i].height /\ events[i].height <= hi
            /\ events[i].height <= crawled
<1>1. \A x \in DOMAIN events : events[x].height \in Int
  BY EventTyped, Zenon
<1> QED
  BY <1>1 DEF EventIds, InBlocks, SmallerOf

(* The page is a part of the events that are due.                          *)
LEMMA NextPageFacts ==
  ASSUME Typed, walk # NoWalk
  PROVE  /\ \A i \in NextPage : /\ i \in DOMAIN events /\ i > walk.prevId
                                /\ events[i].height <= walk.endBlock /\ events[i].height <= crawled
         /\ NextPage # {} => Max(NextPage) \in NextPage /\ \A i \in NextPage : i <= Max(NextPage)
<1>1. Heights /\ crawled \in Int /\ StartBlock \in Int
  BY StartHeightFacts, Zenon
<1>2. walk.endBlock \in Int
  BY Zenon DEF Typed, ReindexTyped
<1>3. \A i \in NextPage : i \in EventIds(StartBlock, walk.endBlock) /\ i > walk.prevId
  BY Zenon DEF NextPage
<1>4. \A i \in NextPage : /\ i \in DOMAIN events /\ i > walk.prevId
                          /\ events[i].height <= walk.endBlock /\ events[i].height <= crawled
  BY <1>1, <1>2, <1>3, EventIdsFacts, Zenon
<1>5. NextPage \in SUBSET (1 .. Len(events)) /\ Len(events) \in Int
  BY <1>1, <1>4, EventTyped
<1>6. NextPage # {} => Max(NextPage) \in NextPage /\ \A i \in NextPage : i <= Max(NextPage)
  <2>1. PICK S : S = NextPage
    BY Zenon
  <2>a. PICK m \in Int : m = 1
    OBVIOUS
  <2>b. PICK n \in Int : S \in SUBSET (1 .. n)
    BY <1>5, <2>1, Zenon
  <2>2. S \in SUBSET (m .. n)
    BY <2>a, <2>b, Zenon
  <2>3. ASSUME S # {} PROVE Max(S) \in S /\ \A i \in S : i <= Max(S)
    BY <2>2, <2>3, Extremes, Zenon
  <2> QED
    BY <2>1, <2>3, Zenon
<1> QED
  BY <1>4, <1>6, Zenon

(* What an insertion of stored events does to the history.                 *)
LEMMA HistoriesFacts ==
  ASSUME Typed, NEW ids, NEW tracked \in BOOLEAN, HandleCw20Histories(ids, tracked),
         \A i \in ids : i \in DOMAIN events /\ events[i].height <= crawled
  PROVE  /\ activity' \in Seq(Int)
         /\ \A i \in Range(activity') : i \in DOMAIN events /\ events[i].height <= crawled
         /\ ~ tracked => activity' = activity
         /\ tracked => Range(activity') = Range(activity) \cup ids
         /\ \A i : Occurrences(activity', i)
                     = Occurrences(activity, i) + (IF tracked /\ i \in ids THEN 1 ELSE 0)
<1>1. PICK n \in Nat : DOMAIN events = 1 .. n
  BY StartHeightFacts, EventTyped, Zenon
<1>2. PICK t : t = InOrder(ids)
  BY Zenon
<1>3. t \in Seq(1 .. n) /\ Range(t) = ids /\ IncreasingOn(t, ids)
  <2>1. ids \cap 1 .. n = ids
    BY <1>1, Zenon
  <2> QED
    BY <1>1, <1>2, <2>1, InOrderFacts, Zenon
<1>4. t \in Seq(Int) /\ activity \in Seq(Int)
  BY <1>3 DEF Typed
<1>5. CASE ~ tracked
  <2>1. activity' = activity
    BY <1>5, Zenon DEF HandleCw20Histories
  <2>2. \A i : Occurrences(activity, i) \in Nat
    BY <1>4, OccurrencesType, Zenon
  <2> QED
    BY <1>5, <2>1, <2>2 DEF Typed
<1>6. CASE tracked
  <2>1. activity' = activity \o t
    BY <1>2, <1>6, ZenonT(40) DEF HandleCw20Histories
  <2>2. activity' \in Seq(Int)
    BY <1>4, <2>1
  <2>3. \A i : Occurrences(activity', i) = Occurrences(activity, i) + (IF i \in Range(t) THEN 1 ELSE 0)
    BY <1>3, <1>4, <2>1, OccurrencesConcat
  <2>4. \A i : Occurrences(activity', i)
                     = Occurrences(activity, i) + (IF tracked /\ i \in ids THEN 1 ELSE 0)
    BY <1>3, <1>6, <2>3, Zenon
  <2>5. Range(activity') = Range(activity) \cup ids
    <3>1. \A i : /\ Occurrences(activity', i) \in Nat /\ Occurrences(activity, i) \in Nat
                 /\ Occurrences(activity', i) > 0 <=> i \in Range(activity')
                 /\ Occurrences(activity, i) > 0 <=> i \in Range(activity)
      BY <1>4, <2>2, OccurrencesType, Zenon
    <3>2. \A i : i \in Range(activity') <=> i \in Range(activity) \/ i \in ids
      BY <1>6, <2>4, <3>1
    <3> QED
      BY <3>2, Zenon
  <2> QED
    BY <1>6, <2>2, <2>4, <2>5, Zenon DEF Typed
<1> QED
  BY <1>5, <1>6, Zenon
-----------------------------------------------------------------------------
(* The rows that an update job reads are ids of events, and of the row of  *)
(* the contract that the job names.                                        *)
LEMMA ActivityTyped ==
  ASSUME Typed, NEW j
  PROVE  /\ activity \in Seq(DOMAIN events) /\ ActivityOf(j) \in Seq(DOMAIN events)
         /\ ActivityOf(j) # <<>> => contract \in ContractRow /\ contract.id = j.id
<1>1. PICK D : D = DOMAIN events
  BY Zenon
<1>2. PICK s \in Seq(Int) : s = activity
  BY Zenon DEF Typed
<1>3. \A k \in 1 .. Len(s) : s[k] \in D
  BY <1>1, <1>2, InRange DEF Typed
<1>4. s \in Seq(D)
  BY <1>3
<1>5. \A ids : Those(s, ids) \in Seq(D)
  BY <1>4, ThoseFacts, Zenon
<1>6. <<>> \in Seq(D)
  OBVIOUS
<1>7. ActivityOf(j) \in Seq(D)
  BY <1>2, <1>5, <1>6, Zenon DEF ActivityOf
<1> QED
  BY <1>1, <1>2, <1>4, <1>7, Zenon DEF ActivityOf, Typed

(* What an update does to the balances and to the supply.                  *)
LEMMA UpdatedFacts ==
  ASSUME Typed, NEW j
  PROVE  /\ Accumulator(Updated(j)) /\ Updated(j).add \in Int /\ HolderRows(Updated(j).holders)
         /\ Holdings(Updated(j).holders) = Holdings(holders) + Updated(j).add
<1>1. Heights /\ HolderRows(holders) /\ ActivityOf(j) \in Seq(DOMAIN events)
  BY StartHeightFacts, ActivityTyped, Zenon DEF Typed
<1>2. Updated(j) = Applied(ActivityOf(j))
  BY UpdatedApplied, Zenon
<1>3. /\ Accumulator(Updated(j))
      /\ Holdings(Updated(j).holders) = Holdings(holders) + Updated(j).add
  BY <1>1, <1>2, AppliedSums, Zenon
<1> QED
  BY <1>3, AccumulatorParts, Zenon

(* Initially every variable has its type.                                  *)
LEMMA InitTyped == Init => Typed
<1> SUFFICES ASSUME Init PROVE Typed
  BY Zenon
<1>1. head = StartBlock /\ events = <<>>
  BY Zenon DEF Init
<1>2. Heights
  BY <1>1, StartBlockAssumption DEF Heights
<1>3. \A a \in Addr : \A k \in 0 .. Len(events) : Worth(a, k) >= 0
  <2>1. \A k \in 0 .. Len(events) : k = 0
    BY <1>1
  <2>2. \A a \in Addr : Worth(a, 0) = Initial[a] /\ Initial[a] \in Nat
    BY <1>2, WorthSteps, TokenAssumption, Zenon
  <2> QED
    BY <2>1, <2>2
<1>4. HolderRows(holders)
  BY DEF Init, HolderRows
<1>5. JobTyped /\ ReindexTyped
  BY DEF Init, JobTyped, ReindexTyped, NoReindex
<1>6. Range(activity) = {}
  BY DEF Init, Range
<1> QED
  BY <1>1, <1>2, <1>3, <1>4, <1>5, <1>6, StartBlockAssumption DEF Init, Typed, Chain
-----------------------------------------------------------------------------
(* The components of a row of cw20_contract.                               *)
LEMMA ContractParts ==
  ASSUME NEW c \in ContractRow
  PROVE  /\ c = [id |-> c.id, track |-> c.track, supply |-> c.supply, last |-> c.last]
         /\ c.id \in Nat /\ c.track \in BOOLEAN /\ c.supply \in Int /\ c.last \in Int
         /\ c # NoContract
  BY DEF ContractRow, NoContract

(* The components of a job in the queue.                                   *)
LEMMA UpdateJobParts ==
  ASSUME NEW j \in UpdateJob
  PROVE  /\ j = [id |-> j.id, startBlock |-> j.startBlock, endBlock |-> j.endBlock, tries |-> j.tries]
         /\ j.id \in Nat /\ j.startBlock \in Int /\ j.endBlock \in Int /\ j.tries \in Nat
  BY Zenon DEF UpdateJob

(* Every action keeps the types, and the supply the sum of the balances.   *)
LEMMA TypedStep ==
  ASSUME Typed, SupplyIsHoldings, [Next]_vars
  PROVE  Typed' /\ SupplyIsHoldings'
<1> USE DEF node, rows, queue, reindexing
<1>0. /\ Chain /\ Heights /\ HolderRows(holders)
      /\ StartBlock \in Int /\ head \in Int /\ crawled \in Int /\ cp \in Int
      /\ StartHeight(cp) \in Int /\ StartBlock <= StartHeight(cp) /\ StartHeight(cp) <= crawled
      /\ StartBlock <= crawled /\ crawled <= head
      /\ job.pc = "idle" <=> job = Idle
      /\ wait \in Seq(UpdateJob) /\ delayed \in Seq(UpdateJob)
  BY StartHeightFacts, Zenon DEF Typed
<1>1. CASE NewBlock
  <2>1. <<Instantiate>> \in Seq(Move) /\ Grow(<<Instantiate>>)
    BY <1>1 DEF NewBlock, Instantiate, Move
  <2>2. Chain' /\ Continues
    BY <1>0, <2>1, GrowChain, Zenon
  <2>3. head' = head + 1 /\ \A i \in DOMAIN events : i \in DOMAIN events' /\ events'[i] = events[i]
    BY <1>0, <2>2, ContinuesFacts, Zenon DEF Continues
  <2>4. UNCHANGED <<crawled, cp, contract, holders, activity, job, wait, delayed, reindex, walk, reindexed>>
    BY <1>1, Zenon DEF NewBlock
  <2>5. \A i \in Range(activity) : i \in DOMAIN events' /\ events'[i].height <= crawled
    BY <2>3, Zenon DEF Typed
  <2>6. JobTyped' /\ ReindexTyped'
    BY <2>4, Zenon DEF Typed, JobTyped, ReindexTyped
  <2> QED
    BY <1>0, <2>2, <2>3, <2>4, <2>5, <2>6 DEF Typed, SupplyIsHoldings
<1>2. CASE CrawlContractEvent
  <2>1. /\ UNCHANGED <<head, events>> /\ crawled' = crawled + 1 /\ crawled < head
        /\ UNCHANGED <<cp, contract, holders, activity, job, wait, delayed, reindex, walk, reindexed>>
    BY <1>2, Zenon DEF CrawlContractEvent
  <2>2. \A i \in Range(activity) : i \in DOMAIN events /\ events[i].height <= crawled + 1
    BY <1>0, EventTyped DEF Typed
  <2>3. Chain'
    BY <1>0, <2>1, ChainStays, ZenonT(40)
  <2>4. JobTyped'
    BY <1>0, <2>1 DEF Typed, JobTyped
  <2>5. ReindexTyped'
    BY <2>1, Zenon DEF Typed, ReindexTyped
  <2> QED
    BY <1>0, <2>1, <2>2, <2>3, <2>4, <2>5 DEF Typed, SupplyIsHoldings
<1>3. UNCHANGED <<head, events>> => Chain'
  BY <1>0, ChainStays, Zenon
<1>4. CASE HandleStart
  <2>1. /\ UNCHANGED <<head, events, crawled, cp, contract, holders, activity, wait, delayed, reindex, walk, reindexed>>
        /\ job.pc = "idle"
        /\ job' = IF StartHeight(cp) >= EndHeight(StartHeight(cp), crawled, BlocksPerCall) THEN job
                  ELSE [pc |-> "commit", start |-> StartHeight(cp),
                        end |-> EndHeight(StartHeight(cp), crawled, BlocksPerCall)]
    BY <1>4, Zenon DEF HandleStart
  <2>2. EndHeight(StartHeight(cp), crawled, BlocksPerCall) \in Int
        /\ EndHeight(StartHeight(cp), crawled, BlocksPerCall) <= crawled
    BY <1>0, Cw20Assumption, StartBlockAssumption DEF EndHeight, SmallerOf, NoRow, NoStep
  <2>3. JobTyped'
    BY <1>0, <2>1, <2>2 DEF JobTyped, Typed, Idle
  <2> QED
    BY <1>3, <2>1, <2>3, Zenon DEF Typed, ReindexTyped, SupplyIsHoldings
<1>5. CASE HandleCommit
  <2>1. /\ UNCHANGED <<head, events, crawled, wait, delayed, reindex, walk, reindexed>>
        /\ job.pc = "commit" /\ cp' = job.end /\ job' = [job EXCEPT !.pc = "call"]
        /\ HandleCw20Instantiate \/ UNCHANGED <<contract, holders, faults>>
        /\ HandleCw20Histories(EventIds(job.start, job.end), contract' # NoContract /\ contract'.track)
    BY <1>5, Zenon DEF HandleCommit
  <2>2. /\ job \in [pc : {"commit", "call"}, start : Int, end : Int]
        /\ StartBlock <= job.start /\ job.start < job.end /\ job.end <= crawled
        /\ job.start = StartHeight(cp)
    BY <1>0, <2>1, Zenon DEF Typed, JobTyped, Idle
  <2>3. /\ contract' = NoContract \/ contract' \in ContractRow
        /\ HolderRows(holders')
        /\ contract' # NoContract => contract'.supply = Holdings(holders')
    BY <1>0, <2>1, InstantiateFacts, Zenon DEF Typed, SupplyIsHoldings
  <2>4. (contract' # NoContract /\ contract'.track) \in BOOLEAN
    BY <2>3, Zenon DEF ContractRow
  <2>5. \A i \in EventIds(job.start, job.end) : i \in DOMAIN events /\ events[i].height <= crawled
    BY <1>0, <2>2, EventIdsFacts, Zenon
  <2>6. /\ activity' \in Seq(Int)
        /\ \A i \in Range(activity') : i \in DOMAIN events /\ events[i].height <= crawled
    BY <2>1, <2>4, <2>5, HistoriesFacts, ZenonT(40)
  <2>7. JobTyped'
    BY <2>1, <2>2, Zenon DEF JobTyped
  <2>8. StartHeight(cp') = job.end
    BY <1>0, <2>1, <2>2, StartBlockAssumption DEF StartHeight, NoRow
  <2>9. ReindexTyped'
    <3>1. \A k \in DOMAIN reindexed : reindexed[k] \in Int
      BY DEF Typed, ReindexTyped
    <3>2. contract # NoContract => contract' # NoContract
      BY <2>1, Zenon DEF HandleCw20Instantiate
    <3> QED
      BY <1>0, <2>1, <2>2, <2>8, <3>1, <3>2 DEF Typed, ReindexTyped
  <2> QED
    BY <1>0, <1>3, <2>1, <2>2, <2>3, <2>6, <2>7, <2>9 DEF Typed, SupplyIsHoldings
<1>6. CASE HandleCall
  <2>1. /\ UNCHANGED <<head, events, crawled, cp, contract, holders, activity, delayed, reindex, walk, reindexed>>
        /\ job' = Idle /\ job.pc = "call"
        /\ (Tracked /\ UpdateByContract(contract, job.start, job.end)) \/ wait' = wait
    BY <1>6, Zenon DEF HandleCall
  <2>2. wait' \in Seq(UpdateJob)
    <3>1. ASSUME Tracked, UpdateByContract(contract, job.start, job.end)
          PROVE  wait' \in Seq(UpdateJob)
      <4>1. contract.id \in Nat /\ contract.last \in Int /\ job.start \in Int /\ job.end \in Int
        BY <1>0, <2>1, <3>1, Zenon DEF Typed, JobTyped, Tracked, ContractRow, Idle
      <4>2. PICK x \in UpdateJob : wait' = Append(wait, x) \/ wait' = wait
        BY <3>1, <4>1 DEF UpdateByContract, UpdateJob
      <4> QED
        BY <1>0, <4>2, Appended
    <3> QED
      BY <2>1, <3>1, Zenon DEF Typed
  <2> QED
    BY <1>3, <2>1, <2>2, Zenon DEF Typed, JobTyped, ReindexTyped, SupplyIsHoldings
<1>7. CASE HandleAbort
  <2>1. /\ UNCHANGED <<head, events, crawled, cp, contract, holders, activity, wait, delayed, reindex, walk, reindexed>>
        /\ job' = Idle
    BY <1>7, Zenon DEF HandleAbort
  <2> QED
    BY <1>3, <2>1, Zenon DEF Typed, JobTyped, ReindexTyped, SupplyIsHoldings
<1>8. ASSUME NEW acked \in BOOLEAN, UpdateRun(acked)
      PROVE  Typed' /\ SupplyIsHoldings'
  <2> DEFINE j == Head(wait)
             u == Updated(j)
  <2>1. /\ wait # <<>>
        /\ IF ActivityOf(j) = <<>> THEN UNCHANGED <<contract, holders>>
           ELSE /\ contract' = [contract EXCEPT !.supply = @ + u.add, !.last = j.endBlock]
                /\ holders' = u.holders
        /\ wait' = IF acked THEN Tail(wait) ELSE wait
        /\ UNCHANGED <<head, events, crawled, cp, activity, job, delayed, reindex, walk, reindexed>>
    BY <1>8, Zenon DEF UpdateRun
  <2>2. j \in UpdateJob /\ wait' \in Seq(UpdateJob)
    BY <2>1, HeadAndTail, Zenon DEF Typed
  <2>3. u.add \in Int /\ HolderRows(u.holders) /\ Holdings(u.holders) = Holdings(holders) + u.add
    BY UpdatedFacts, Zenon
  <2>4. ActivityOf(j) # <<>> => contract \in ContractRow
    BY ActivityTyped, Zenon
  <2>5. j.endBlock \in Int
    BY <2>2, Zenon DEF UpdateJob
  <2> HIDE DEF j, u
  <2>6. CASE ActivityOf(j) = <<>>
    BY <1>3, <2>1, <2>2, <2>6, ZenonT(40) DEF Typed, JobTyped, ReindexTyped, SupplyIsHoldings
  <2>7. CASE ActivityOf(j) # <<>>
    <3>1. contract # NoContract
      BY <2>4, <2>7 DEF ContractRow, NoContract
    <3>2. contract' \in ContractRow /\ contract'.supply = contract.supply + u.add
      <4>1. PICK i \in Nat, b \in BOOLEAN, x \in Int, y \in Int :
               contract = [id |-> i, track |-> b, supply |-> x, last |-> y]
        BY <2>4, <2>7, ContractParts
      <4>2. contract' = [id |-> i, track |-> b, supply |-> x + u.add, last |-> j.endBlock]
        BY <2>1, <2>7, <4>1, Zenon
      <4> QED
        BY <2>3, <2>5, <4>1, <4>2 DEF ContractRow
    <3>3. HolderRows(holders')
      BY <2>1, <2>3, <2>7, Zenon
    <3>4. contract'.supply = Holdings(holders')
      BY <2>1, <2>3, <2>7, <3>1, <3>2, Zenon DEF SupplyIsHoldings
    <3>5. contract' # NoContract
      BY <3>2, ContractParts, Zenon
    <3> QED
      BY <1>3, <2>1, <2>2, <3>2, <3>3, <3>4, <3>5 DEF Typed, JobTyped, ReindexTyped, SupplyIsHoldings
  <2> QED
    BY <2>6, <2>7, Zenon
<1>9. CASE UpdateFail
  <2> DEFINE j == [Head(wait) EXCEPT !.tries = @ + 1]
  <2>1. /\ wait # <<>> /\ wait' = Tail(wait)
        /\ delayed' = Append(delayed, j) \/ UNCHANGED delayed
        /\ UNCHANGED <<head, events, crawled, cp, contract, holders, activity, job, reindex, walk, reindexed>>
    BY <1>9, Zenon DEF UpdateFail
  <2>2. Head(wait) \in UpdateJob /\ wait' \in Seq(UpdateJob)
    BY <2>1, HeadAndTail, Zenon DEF Typed
  <2>3. j \in UpdateJob
    <3>1. PICK i \in Nat, x \in Int, y \in Int, t \in Nat :
             Head(wait) = [id |-> i, startBlock |-> x, endBlock |-> y, tries |-> t]
      BY <2>2, UpdateJobParts
    <3>2. j = [id |-> i, startBlock |-> x, endBlock |-> y, tries |-> t + 1]
      BY <3>1
    <3> QED
      BY <3>2 DEF UpdateJob
  <2> HIDE DEF j
  <2>4. delayed' \in Seq(UpdateJob)
    <3>1. Append(delayed, j) \in Seq(UpdateJob)
      BY <1>0, <2>3, Appended, Zenon
    <3> QED
      BY <1>0, <2>1, <3>1, Zenon
  <2> QED
    BY <1>3, <2>1, <2>2, <2>4, Zenon DEF Typed, JobTyped, ReindexTyped, SupplyIsHoldings
<1>10. CASE UpdateRetry
  <2>1. PICK k \in DOMAIN delayed :
        /\ delayed' = SubSeq(delayed, 1, k - 1) \o SubSeq(delayed, k + 1, Len(delayed))
        /\ wait' = Append(wait, delayed[k])
        /\ UNCHANGED <<head, events, crawled, cp, contract, holders, activity, job, reindex, walk, reindexed>>
    BY <1>10, Zenon DEF UpdateRetry
  <2>2. delayed[k] \in UpdateJob /\ delayed' \in Seq(UpdateJob)
    <3>1. PICK r \in Seq(UpdateJob) :
             /\ r = SubSeq(delayed, 1, k - 1) \o SubSeq(delayed, k + 1, Len(delayed))
             /\ delayed[k] \in UpdateJob
      BY <1>0, Removed, Zenon
    <3> QED
      BY <2>1, <3>1, Zenon
  <2>3. wait' \in Seq(UpdateJob)
    BY <1>0, <2>1, <2>2, Appended, Zenon
  <2> QED
    BY <1>3, <2>1, <2>2, <2>3, Zenon DEF Typed, JobTyped, ReindexTyped, SupplyIsHoldings
<1>11. CASE ReindexRequest
  <2>1. /\ UNCHANGED <<head, events, crawled, cp, contract, holders, activity, job, wait, delayed, walk, reindexed>>
        /\ reindex.pc = "none" /\ reindex' = [reindex EXCEPT !.pc = "queued"]
    BY <1>11, Zenon DEF ReindexRequest
  <2>a. reindex = NoReindex
    BY <2>1, Zenon DEF Typed, ReindexTyped
  <2>2. reindex' = [pc |-> "queued", min |-> 0, max |-> 0, answer |-> <<>>]
    BY <2>1, <2>a, Zenon DEF NoReindex
  <2>3. reindex'.pc = "queued" /\ reindex'.min \in Int /\ reindex'.max \in Int /\ walk = NoWalk
    BY <2>1, <2>2 DEF Typed, ReindexTyped
  <2>4. ReindexTyped'
    BY <2>1, <2>3 DEF Typed, ReindexTyped
  <2> QED
    BY <1>3, <2>1, <2>4, Zenon DEF Typed, JobTyped, SupplyIsHoldings
<1>a. CASE ReindexQuery
  <2>1. /\ UNCHANGED <<head, events, crawled, cp, contract, holders, activity, job, wait, delayed, walk, reindexed>>
        /\ reindex.pc = "queued"
    BY <1>a, Zenon DEF ReindexQuery
  <2>2. PICK s \in Answers, pc \in {"unknown", "known"} :
           reindex' = [pc |-> pc, min |-> Lowest(s.holders), max |-> Highest(s.holders), answer |-> s]
    BY <1>a, Zenon DEF ReindexQuery
  <2>3. AnswerTyped(s) /\ walk = NoWalk
    BY <1>0, <2>1, AnswerFacts DEF Typed, ReindexTyped
  <2>4. /\ reindex'.pc = pc /\ reindex'.answer = s
        /\ reindex'.min = Lowest(s.holders) /\ reindex'.max = Highest(s.holders)
    BY <2>2, Zenon
  <2>5. Lowest(s.holders) \in Int /\ Highest(s.holders) \in Int
    BY <2>3, Zenon DEF AnswerTyped
  <2>6. ReindexTyped'
    BY <2>1, <2>3, <2>4, <2>5 DEF Typed, ReindexTyped
  <2> QED
    BY <1>3, <2>1, <2>6, Zenon DEF Typed, JobTyped, SupplyIsHoldings
<1>12. CASE ReindexCommit
  <2>1. /\ UNCHANGED <<head, events, crawled, cp, job, wait, delayed, walk>>
        /\ reindex.pc \in {"unknown", "known"} /\ InsertContract(Len(reindexed) + 1, reindex.answer)
        /\ reindex' = [NoReindex EXCEPT !.pc = "committed", !.min = reindex.min, !.max = reindex.max]
        /\ reindexed' = Append(reindexed, StartHeight(cp)) /\ activity' = <<>>
    BY <1>12, Zenon DEF ReindexCommit
  <2>2. reindexed \in Seq(Int) /\ Len(reindexed) + 1 \in Nat
    BY DEF Typed, ReindexTyped
  <2>a. AnswerTyped(reindex.answer) /\ reindex.min \in Int /\ reindex.max \in Int
    BY <2>1, Zenon DEF Typed, ReindexTyped
  <2>3. contract' \in ContractRow /\ HolderRows(holders') /\ contract'.supply = Holdings(holders')
    BY <2>1, <2>2, <2>a, InsertFacts, Zenon
  <2>b. reindex' = [pc |-> "committed", min |-> reindex.min, max |-> reindex.max, answer |-> <<>>]
    BY <2>1, Zenon DEF NoReindex
  <2>c. reindex'.pc = "committed" /\ reindex'.min \in Int /\ reindex'.max \in Int /\ walk = NoWalk
    BY <2>1, <2>a, <2>b DEF Typed, ReindexTyped
  <2>4. /\ reindexed' \in Seq(Int) /\ reindexed' # <<>>
        /\ \A k \in DOMAIN reindexed' : reindexed'[k] <= StartHeight(cp)
    <3>1. \A k \in DOMAIN reindexed : reindexed[k] <= StartHeight(cp)
      BY ZenonT(40) DEF Typed, ReindexTyped
    <3>2. PICK n \in Nat : /\ DOMAIN reindexed = 1 .. n /\ DOMAIN reindexed' = 1 .. n + 1
                           /\ reindexed'[n + 1] = StartHeight(cp)
                           /\ \A k \in 1 .. n : reindexed'[k] = reindexed[k]
      BY <1>0, <2>1, <2>2, Appended
    <3>3. \A k \in 1 .. n + 1 : k \in 1 .. n \/ k = n + 1
      OBVIOUS
    <3>4. \A k \in DOMAIN reindexed' : reindexed'[k] <= StartHeight(cp)
      BY <1>0, <3>1, <3>2, <3>3
    <3>5. reindexed' \in Seq(Int) /\ reindexed' # <<>>
      BY <1>0, <2>1, <2>2, Appended
    <3> QED
      BY <3>4, <3>5, Zenon
  <2>5. ReindexTyped'
    BY <2>1, <2>3, <2>4, <2>c, ContractParts DEF Typed, ReindexTyped
  <2>6. Range(activity') = {} /\ activity' \in Seq(Int)
    BY <2>1 DEF Range
  <2> QED
    BY <1>3, <2>1, <2>3, <2>5, <2>6 DEF Typed, JobTyped, SupplyIsHoldings
<1>13. CASE ReindexFollow
  <2>1. /\ UNCHANGED <<head, events, crawled, cp, contract, holders, activity, job, delayed, reindexed>>
        /\ reindex.pc = "committed"
        /\ UpdateByContract([id |-> contract.id, last |-> reindex.min], reindex.min, reindex.max)
        /\ walk' = [prevId |-> 0, endBlock |-> reindex.max]
        /\ reindex' = [NoReindex EXCEPT !.pc = "done"]
    BY <1>13, Zenon DEF ReindexFollow
  <2>2. reindex.min \in Int /\ reindex.max \in Int
    BY Zenon DEF Typed, ReindexTyped
  <2>3. ReindexTyped'
    <3>1. reindex' = [pc |-> "done", min |-> 0, max |-> 0, answer |-> <<>>]
      BY <2>1, Zenon DEF NoReindex
    <3>2. reindex'.pc = "done" /\ reindex'.min \in Int /\ reindex'.max \in Int
      BY <3>1
    <3>3. walk' \in [prevId : Nat, endBlock : Int]
      BY <2>1, <2>2, Zenon
    <3> QED
      BY <2>1, <3>2, <3>3 DEF Typed, ReindexTyped
  <2>4. wait' \in Seq(UpdateJob)
    <3>1. wait' = IF reindex.min < reindex.max
                  THEN Append(wait, [id |-> contract.id, startBlock |-> reindex.min, endBlock |-> reindex.max, tries |-> 0])
                  ELSE wait
      BY <2>1, <2>2, Zenon DEF UpdateByContract
    <3>2. contract.id \in Nat
      BY <2>1, ContractParts, Zenon DEF Typed, ReindexTyped
    <3>3. [id |-> contract.id, startBlock |-> reindex.min, endBlock |-> reindex.max, tries |-> 0] \in UpdateJob
      BY <2>2, <3>2, Zenon DEF UpdateJob
    <3>4. Append(wait, [id |-> contract.id, startBlock |-> reindex.min, endBlock |-> reindex.max, tries |-> 0])
             \in Seq(UpdateJob)
      BY <1>0, <3>3, Appended, Zenon
    <3> QED
      BY <1>0, <3>1, <3>4, Zenon
  <2> QED
    BY <1>3, <2>1, <2>3, <2>4, Zenon DEF Typed, JobTyped, SupplyIsHoldings
<1>14. CASE ReindexFail
  <2>1. /\ UNCHANGED <<head, events, crawled, cp, contract, holders, activity, job, wait, delayed, walk, reindexed>>
        /\ reindex.pc \in {"queued", "unknown", "known", "committed"} /\ reindex' = [NoReindex EXCEPT !.pc = "failed"]
    BY <1>14, Zenon DEF ReindexFail
  <2>2. reindex' = [pc |-> "failed", min |-> 0, max |-> 0, answer |-> <<>>]
    BY <2>1, Zenon DEF NoReindex
  <2>3. reindex'.pc = "failed" /\ reindex'.min \in Int /\ reindex'.max \in Int /\ walk = NoWalk
    BY <2>1, <2>2 DEF Typed, ReindexTyped
  <2>4. ReindexTyped'
    BY <2>1, <2>3 DEF Typed, ReindexTyped
  <2> QED
    BY <1>3, <2>1, <2>4, Zenon DEF Typed, JobTyped, SupplyIsHoldings
<1>15. ASSUME NEW acked \in BOOLEAN, HistoryPage(acked)
       PROVE  Typed' /\ SupplyIsHoldings'
  <2>1. /\ UNCHANGED <<head, events, crawled, cp, contract, holders, job, wait, delayed, reindex, reindexed>>
        /\ walk # NoWalk /\ NextPage # {} /\ HandleCw20Histories(NextPage, Tracked)
        /\ walk' = IF acked THEN [walk EXCEPT !.prevId = Max(NextPage)] ELSE walk
    BY <1>15, Zenon DEF HistoryPage
  <2>2. /\ \A i \in NextPage : i \in DOMAIN events /\ events[i].height <= crawled
        /\ Max(NextPage) \in NextPage
    BY <2>1, NextPageFacts, Zenon
  <2>3. Tracked \in BOOLEAN
    BY ContractParts, Zenon DEF Tracked, Typed
  <2>4. /\ activity' \in Seq(Int)
        /\ \A i \in Range(activity') : i \in DOMAIN events /\ events[i].height <= crawled
    BY <2>1, <2>2, <2>3, HistoriesFacts, Zenon
  <2>5. PICK m \in Nat : m = Max(NextPage)
    BY <1>0, <2>2, EventTyped
  <2>6. ReindexTyped'
    <3>1. walk \in [prevId : Nat, endBlock : Int] /\ reindex.pc = "done"
      BY <2>1, Zenon DEF Typed, ReindexTyped
    <3>2. PICK p \in Nat, y \in Int : walk = [prevId |-> p, endBlock |-> y]
      BY <3>1, Zenon
    <3>3. walk' \in [prevId : Nat, endBlock : Int]
      BY <2>1, <2>5, <3>2, Zenon
    <3> QED
      BY <2>1, <3>1, <3>3, Zenon DEF Typed, ReindexTyped
  <2> QED
    BY <1>3, <2>1, <2>4, <2>6, ZenonT(40) DEF Typed, JobTyped, SupplyIsHoldings
<1>16. CASE HistoryEnd
  <2>1. /\ UNCHANGED <<head, events, crawled, cp, contract, holders, activity, job, wait, delayed, reindexed>>
        /\ walk' = NoWalk /\ reindex' = NoReindex
    BY <1>16, Zenon DEF HistoryEnd
  <2>2. ReindexTyped'
    BY <2>1 DEF Typed, ReindexTyped, NoReindex
  <2> QED
    BY <1>3, <2>1, <2>2, Zenon DEF Typed, JobTyped, SupplyIsHoldings
<1>17. CASE HistoryFail
  <2>1. /\ UNCHANGED <<head, events, crawled, cp, contract, holders, activity, job, wait, delayed, reindex, reindexed>>
        /\ walk' = NoWalk
    BY <1>17, Zenon DEF HistoryFail
  <2> QED
    BY <1>3, <2>1, Zenon DEF Typed, JobTyped, ReindexTyped, SupplyIsHoldings
<1>18. CASE UNCHANGED vars
  BY <1>3, <1>18, Zenon DEF vars, Typed, JobTyped, ReindexTyped, SupplyIsHoldings
<1> QED
  BY <1>1, <1>2, <1>4, <1>5, <1>6, <1>7, <1>8, <1>9, <1>10, <1>11, <1>a, <1>12, <1>13, <1>14,
     <1>15, <1>16, <1>17, <1>18 DEF Next

-----------------------------------------------------------------------------
(* What the instantiation, the contract row and the reindexings have to do *)
(* with each other.                                                        *)
FirstEvent == head > StartBlock => 1 \in DOMAIN events /\ events[1].height = StartBlock + 1

(* Until HANDLE_CW20 has handled a block, or a reindexing a later one than *)
(* the start block, there is no row of the contract.                       *)
HandledFirst ==
    (reindexed = <<>> \/ Head(reindexed) > StartBlock) /\ StartHeight(cp) = StartBlock
        => contract = NoContract

(* The first block begins with the instantiation.                          *)
LEMMA FirstEventStep ==
  ASSUME Typed, FirstEvent, [Next]_vars
  PROVE  FirstEvent'
<1>1. UNCHANGED <<head, events>> => FirstEvent'
  BY Zenon DEF FirstEvent
<1>2. CASE NewBlock
  <2>1. <<Instantiate>> \in Seq(Move) /\ <<Instantiate>> # <<>> /\ Grow(<<Instantiate>>) /\ head' = head + 1
    <3>1. Grow(<<Instantiate>>) /\ <<Instantiate>> \in Seq(Move) /\ <<Instantiate>> # <<>>
      BY <1>2 DEF NewBlock, Instantiate, Move
    <3> QED
      BY <3>1, Zenon DEF Grow
  <2>2. Heights /\ head \in Int /\ StartBlock <= head /\ StartBlock \in Int
    BY StartHeightFacts, Zenon DEF Heights
  <2>3. CASE head > StartBlock
    <3>1. \A i \in DOMAIN events : i \in DOMAIN events' /\ events'[i] = events[i]
      BY <2>1, <2>2, GrowContinues, ContinuesFacts, Zenon
    <3> QED
      BY <2>3, <3>1, Zenon DEF FirstEvent
  <2>4. CASE head = StartBlock
    <3>1. PICK moves \in Seq(Move) :
            /\ events' = events \o [k \in DOMAIN moves |->
                    [height |-> head + 1, from |-> moves[k].from, to |-> moves[k].to]]
            /\ moves # <<>>
      BY <2>1, <2>2, <2>4, GrowMoves, Zenon
    <3>2. \A i \in DOMAIN events : FALSE
      BY <2>2, <2>4, EventTyped DEF Heights
    <3>3. events = <<>>
      <4>1. events \in Seq(Event) /\ Len(events) = 0
        BY <2>2, <3>2, EventTyped DEF Heights
      <4> QED
        BY <4>1
    <3>4. PICK n \in Nat \ {0} : DOMAIN moves = 1 .. n
      BY <3>1
    <3>5. PICK new : new = [k \in 1 .. n |-> [height |-> head + 1, from |-> moves[k].from, to |-> moves[k].to]]
      BY Zenon
    <3>6. events' = new
      <4>1. new \in Seq([height : {head + 1}, from : {moves[k].from : k \in 1 .. n}, to : {moves[k].to : k \in 1 .. n}])
        BY <3>5
      <4> QED
        BY <3>1, <3>3, <3>4, <3>5, <4>1
    <3> QED
      BY <2>4, <3>4, <3>5, <3>6 DEF FirstEvent
  <2> QED
    BY <2>2, <2>3, <2>4
<1>3. NewBlock \/ UNCHANGED <<head, events>>
  BY Zenon DEF Next, vars, node, CrawlContractEvent, HandleStart, HandleCommit, HandleCall, HandleAbort, UpdateRun,
     HistoryPage, UpdateFail, UpdateRetry, ReindexRequest, ReindexQuery, ReindexCommit, ReindexFollow, ReindexFail,
     HistoryEnd, HistoryFail
<1> QED
  BY <1>1, <1>2, <1>3, Zenon

(* While HANDLE_CW20 has not handled the first block and no reindexing     *)
(* went past it, the contract has no row.                                  *)
LEMMA HandledFirstStep ==
  ASSUME Typed, HandledFirst, [Next]_vars
  PROVE  HandledFirst'
<1>1. CASE HandleCommit
  <2>1. job.pc = "commit" /\ cp' = job.end
    BY <1>1, Zenon DEF HandleCommit
  <2>2. StartBlock <= job.start /\ job.start < job.end /\ job.start \in Int /\ job.end \in Int
    BY <2>1 DEF Typed, JobTyped, Idle
  <2>3. StartHeight(cp') # StartBlock
    BY <2>1, <2>2, StartBlockAssumption DEF StartHeight, NoRow
  <2> QED
    BY <2>3, Zenon DEF HandledFirst
<1>2. CASE ReindexCommit
  <2>1. reindexed' = Append(reindexed, StartHeight(cp)) /\ cp' = cp
    BY <1>2, Zenon DEF ReindexCommit
  <2>2. StartHeight(cp) \in Int /\ reindexed \in Seq(Int)
    BY StartHeightFacts, Zenon DEF Typed, ReindexTyped
  <2>3. SUFFICES ASSUME StartHeight(cp) = StartBlock
                 PROVE  reindexed' # <<>> /\ ~ (Head(reindexed') > StartBlock)
    BY <2>1, Zenon DEF HandledFirst
  <2>4. reindexed' \in Seq(Int) /\ reindexed' # <<>> /\ Head(reindexed') = reindexed'[1]
    BY <2>1, <2>2, Appended, HeadAndTail
  <2>5. reindexed'[1] = StartHeight(cp) \/ (1 \in DOMAIN reindexed /\ reindexed'[1] = reindexed[1])
    BY <2>1, <2>2
  <2>6. reindexed'[1] <= StartHeight(cp)
    BY <2>2, <2>5 DEF Typed, ReindexTyped
  <2> QED
    BY <2>2, <2>3, <2>4, <2>6, StartBlockAssumption
<1>3. ASSUME NEW acked \in BOOLEAN, UpdateRun(acked)
      PROVE  HandledFirst'
  <2>1. reindexed' = reindexed /\ cp' = cp
    BY <1>3, Zenon DEF UpdateRun, reindexing
  <2>2. contract = NoContract => contract' = NoContract
    BY <1>3, Zenon DEF UpdateRun, ActivityOf
  <2> QED
    BY <2>1, <2>2, Zenon DEF HandledFirst
<1>4. UNCHANGED <<reindexed, cp, contract>> => HandledFirst'
  BY Zenon DEF HandledFirst
<1>5. \/ HandleCommit \/ ReindexCommit \/ (\E acked \in BOOLEAN : UpdateRun(acked))
      \/ UNCHANGED <<reindexed, cp, contract>>
  BY Zenon DEF Next, vars, rows, reindexing, NewBlock, CrawlContractEvent, HandleStart, HandleCall, HandleAbort,
     HistoryPage, UpdateFail, UpdateRetry, ReindexRequest, ReindexQuery, ReindexFollow, ReindexFail,
     HistoryEnd, HistoryFail
<1> QED
  BY <1>1, <1>2, <1>3, <1>4, <1>5, Zenon

(* The types and the supply together are inductive.                        *)
LEMMA TypesHold == Spec => [](Typed /\ SupplyIsHoldings)
<1>1. Init => Typed /\ SupplyIsHoldings
  BY InitTyped, Zenon DEF Init, SupplyIsHoldings
<1>2. (Typed /\ SupplyIsHoldings) /\ [Next]_vars => (Typed /\ SupplyIsHoldings)'
  BY TypedStep, Zenon
<1> QED
  BY <1>1, <1>2, PTL DEF Spec

(* The total supply in the row of a contract is the sum of the balances of *)
(* its holders, after every commit of HANDLE_CW20, CW20_UPDATE_BY_CONTRACT *)
(* and REINDEX_CW20_CONTRACT, whatever job is lost, repeated, overtaken or *)
(* given up.                                                               *)
THEOREM SupplyHolds == Spec => []SupplyIsHoldings
  BY TypesHold, PTL

(* When HANDLE_CW20 comes to the instantiation, the contract has no row    *)
(* yet that would refuse its insert, unless a reindexing came first.       *)
THEOREM NeverRefusedHolds == Spec => []NeverRefused
<1>1. Init => FirstEvent /\ HandledFirst
  BY StartBlockAssumption DEF Init, FirstEvent, HandledFirst
<1>2. Typed /\ (FirstEvent /\ HandledFirst) /\ [Next]_vars => (FirstEvent /\ HandledFirst)'
  BY FirstEventStep, HandledFirstStep, Zenon
<1>3. Typed /\ FirstEvent /\ HandledFirst => NeverRefused
  <2> SUFFICES ASSUME Typed, FirstEvent, HandledFirst, reindexed = <<>> \/ Head(reindexed) > StartBlock,
                      job.pc = "commit", 1 \in EventIds(job.start, job.end)
               PROVE  contract = NoContract
    BY Zenon DEF NeverRefused
  <2>1. job.start \in Int /\ job.end \in Int /\ job.start = StartHeight(cp)
    BY DEF Typed, JobTyped, Idle
  <2>2. Heights /\ crawled \in Int /\ StartHeight(cp) \in Int /\ StartBlock <= StartHeight(cp) /\ StartBlock \in Int
    BY StartHeightFacts, Zenon
  <2>3. 1 \in DOMAIN events /\ StartHeight(cp) < events[1].height
    BY <2>1, <2>2, EventIdsFacts, Zenon
  <2>4. events[1].height = StartBlock + 1
    <3>1. events[1].height \in Int /\ StartBlock < events[1].height /\ events[1].height <= head /\ head \in Int
      BY <2>2, <2>3, EventTyped, Zenon DEF Heights
    <3>2. head > StartBlock
      BY <2>2, <3>1
    <3> QED
      BY <3>2, Zenon DEF FirstEvent
  <2>5. StartHeight(cp) = StartBlock
    BY <2>2, <2>3, <2>4
  <2> QED
    BY <2>5, Zenon DEF HandledFirst
<1> QED
  BY <1>1, <1>2, <1>3, TypesHold, PTL DEF Spec
-----------------------------------------------------------------------------
(* Old events of a chain that grew.                                        *)
LEMMA ContinuesOld ==
  ASSUME Heights, Continues
  PROVE  /\ \A i \in DOMAIN events' : events'[i].height <= head => i \in DOMAIN events
         /\ \A i \in DOMAIN events : Moving(i)' <=> Moving(i)
<1>1. PICK n, m \in Nat :
          /\ DOMAIN events = 1 .. n /\ DOMAIN events' = 1 .. m
          /\ \A i \in 1 .. n : events'[i] = events[i]
          /\ \A i \in n + 1 .. m : events'[i].height = head + 1
  BY Zenon DEF Continues
<1>2. head \in Int
  BY Zenon DEF Heights
<1> QED
  BY <1>1, <1>2 DEF Moving

(* An account that the list leaves out had nothing and did nothing.        *)
LEMMA Unlisted ==
  ASSUME Chain, NEW l \in Int, NEW a \in Addr, a \notin Listed(l)
  PROVE  /\ \A i \in DOMAIN events : events[i].height <= l => events[i].from # a /\ events[i].to # a
         /\ Balance(a, l) = 0
<1>1. Heights /\ Initial[a] \in Nat
  BY TokenAssumption, Zenon DEF Chain
<1>10. PICK n \in Nat : n = Len(events) /\ DOMAIN events = 1 .. n
  BY <1>1, EventTyped, Zenon
<1>2. PICK m \in Nat :
         /\ m <= n /\ n = Len(events) /\ DOMAIN events = 1 .. n /\ m = EventsTo(l)
         /\ \A i \in 1 .. n : events[i].height <= l <=> i <= m
  <2>1. EventsTo(l) \in 0 .. n
    BY <1>1, <1>10, EventsToFacts, Zenon
  <2>2. \A i \in 1 .. n : events[i].height <= l <=> i <= EventsTo(l)
    BY <1>1, <1>10, EventsToFacts, Zenon
  <2> QED
    BY <1>10, <2>1, <2>2
<1>3. Initial[a] = 0 /\ \A i \in 1 .. m : events[i].to # a
  BY <1>1, <1>2 DEF Listed
<1>4. \A k \in 0 .. n : Worth(a, k) \in Int /\ Worth(a, k) >= 0
  BY <1>1, <1>2, WorthSteps, Zenon DEF Chain
<1>5. \A k \in 1 .. n : Worth(a, k) = Worth(a, k - 1) + Credit(events[k], a) - Debit(events[k], a)
  BY <1>1, <1>2, WorthSteps, ZenonT(40)
<1> DEFINE Flat(k) == Worth(a, k) = 0 /\ \A i \in 1 .. k : events[i].from # a
           G == {k \in Nat : k <= m => Flat(k)}
<1>6. 0 \in G
  BY <1>1, <1>3, WorthSteps
<1>7. ASSUME NEW k \in Nat, k \in G
      PROVE  k + 1 \in G
  <2> SUFFICES ASSUME k + 1 <= m
               PROVE  Flat(k + 1)
    OBVIOUS
  <2>1. k + 1 \in 1 .. n /\ k \in 0 .. n /\ k + 1 \in 0 .. n /\ k + 1 - 1 = k /\ k <= m /\ k + 1 \in 1 .. m
    BY <1>2
  <2>2. Worth(a, k) = 0 /\ \A i \in 1 .. k : events[i].from # a
    BY <1>7, <2>1, Zenon
  <2>3. Credit(events[k + 1], a) = 0
    BY <1>3, <2>1, Zenon DEF Credit
  <2>4. Worth(a, k + 1) = 0 - Debit(events[k + 1], a)
    BY <1>5, <2>1, <2>2, <2>3, CreditType
  <2>5. Debit(events[k + 1], a) = 0 /\ events[k + 1].from # a
    BY <1>4, <2>1, <2>4 DEF Debit
  <2>6. \A i \in 1 .. k + 1 : i \in 1 .. k \/ i = k + 1
    OBVIOUS
  <2> QED
    BY <2>2, <2>4, <2>5, <2>6
<1> HIDE DEF G
<1>8. m \in G
  BY <1>6, <1>7, NatInd, Zenon
<1>9. Worth(a, m) = 0 /\ \A i \in 1 .. m : events[i].from # a
  BY <1>8 DEF G
<1>11. \A i \in DOMAIN events : events[i].height <= l => i \in 1 .. m
  BY <1>2
<1>12. Balance(a, l) = 0
  BY <1>1, <1>2, <1>9, BalanceIsWorth, Zenon
<1> QED
  BY <1>3, <1>9, <1>11, <1>12, Zenon

(* A contract without a row has no rows and no jobs either.                *)
Unknown == contract = NoContract => activity = <<>> /\ wait = <<>> /\ delayed = <<>>

(* An update job does not change what is tracked.                          *)
LEMMA TrackedKept ==
  ASSUME Typed, NEW acked \in BOOLEAN, UpdateRun(acked)
  PROVE  Tracked' <=> Tracked
<1>1. \/ contract' = contract
      \/ /\ contract \in ContractRow
         /\ \E x, y : contract' = [contract EXCEPT !.supply = x, !.last = y]
  BY ActivityTyped, Zenon DEF UpdateRun
<1>2. ASSUME contract \in ContractRow, NEW x, NEW y, contract' = [contract EXCEPT !.supply = x, !.last = y]
      PROVE  Tracked' <=> Tracked
  <2>1. contract = [id |-> contract.id, track |-> contract.track, supply |-> contract.supply, last |-> contract.last]
        /\ contract # NoContract /\ contract.id # -1
    BY <1>2, ContractParts
  <2>2. contract' = [id |-> contract.id, track |-> contract.track, supply |-> x, last |-> y]
    BY <1>2, <2>1, Zenon
  <2> QED
    BY <2>1, <2>2, Zenon DEF Tracked, NoContract
<1> QED
  BY <1>1, <1>2, Zenon DEF Tracked

(* Nothing is stored of a contract before its row is.                      *)
LEMMA UnknownStep ==
  ASSUME Typed, Unknown, [Next]_vars
  PROVE  Unknown'
<1> SUFFICES ASSUME contract' = NoContract
             PROVE  activity' = <<>> /\ wait' = <<>> /\ delayed' = <<>>
  BY Zenon DEF Unknown
<1> USE DEF node, rows, queue, reindexing
<1>1. ~ HandleCw20Instantiate
  BY StartHeightFacts, InstantiateFacts, ContractParts, Zenon
<1>a. \A id \in Nat : \A s : AnswerTyped(s) => ~ InsertContract(id, s)
  BY InsertFacts, ContractParts, Zenon
<1>2. Len(reindexed) + 1 \in Nat
  BY DEF Typed, ReindexTyped
<1>3. contract = NoContract
  <2>1. CASE \E acked \in BOOLEAN : UpdateRun(acked)
    <3>1. \/ contract' = contract
          \/ /\ contract \in ContractRow
             /\ \E x, y : contract' = [contract EXCEPT !.supply = x, !.last = y]
      BY <2>1, ActivityTyped, Zenon DEF UpdateRun
    <3>2. contract \in ContractRow =>
             \A x, y : [contract EXCEPT !.supply = x, !.last = y] # NoContract
      <4> SUFFICES ASSUME contract \in ContractRow, NEW x, NEW y
                   PROVE  [contract EXCEPT !.supply = x, !.last = y] # NoContract
        BY Zenon
      <4>1. PICK c : c = [contract EXCEPT !.supply = x, !.last = y]
        BY Zenon
      <4>2. c.id = contract.id /\ contract.id # -1
        BY <4>1, ContractParts DEF ContractRow
      <4>3. NoContract.id = -1
        BY Zenon DEF NoContract
      <4> QED
        BY <4>1, <4>2, <4>3, Zenon
    <3> QED
      BY <3>1, <3>2, Zenon
  <2>2. CASE HandleCommit
    BY <1>1, <2>2, Zenon DEF HandleCommit
  <2>3. ~ ReindexCommit
    BY <1>a, <1>2, Zenon DEF ReindexCommit, Typed, ReindexTyped
  <2>4. CASE UNCHANGED contract
    BY <2>4, Zenon
  <2>5. \/ HandleCommit \/ ReindexCommit \/ (\E acked \in BOOLEAN : UpdateRun(acked)) \/ UNCHANGED contract
    BY Zenon DEF Next, vars, NewBlock, CrawlContractEvent, HandleStart, HandleCall, HandleAbort,
       HistoryPage, UpdateFail, UpdateRetry, ReindexRequest, ReindexQuery, ReindexFollow, ReindexFail, HistoryEnd, HistoryFail
  <2> QED
    BY <2>1, <2>2, <2>3, <2>4, <2>5, ZenonT(40)
<1>4. activity = <<>> /\ wait = <<>> /\ delayed = <<>> /\ ~ Tracked /\ reindexed = <<>>
  BY <1>3, Zenon DEF Unknown, Tracked, Typed, ReindexTyped
<1>5. ~ UpdateFail /\ ~ UpdateRetry /\ \A acked \in BOOLEAN : ~ UpdateRun(acked)
  BY <1>4 DEF UpdateFail, UpdateRetry, UpdateRun
<1>6. ~ ReindexFollow /\ ~ ReindexCommit
  BY <1>a, <1>2, <1>4, Zenon DEF ReindexFollow, ReindexCommit, Typed, ReindexTyped
<1>7. HandleCall => UNCHANGED <<activity, wait, delayed>>
  BY <1>4, Zenon DEF HandleCall
<1>8. \A acked \in BOOLEAN : HistoryPage(acked) => UNCHANGED <<activity, wait, delayed>>
  BY <1>4, Zenon DEF HistoryPage, HandleCw20Histories
<1>9. HandleCommit => UNCHANGED <<activity, wait, delayed>>
  BY Zenon DEF HandleCommit, HandleCw20Histories
<1>10. UNCHANGED <<activity, wait, delayed>>
  BY <1>5, <1>6, <1>7, <1>8, <1>9, ZenonT(40) DEF Next, vars, NewBlock, CrawlContractEvent, HandleStart,
     HandleAbort, ReindexRequest, ReindexQuery, ReindexFail, HistoryEnd, HistoryFail
<1> QED
  BY <1>4, <1>10, Zenon
=============================================================================
