---------------------------- MODULE Erc20Proofs -----------------------------
(***************************************************************************)
(* For every chain, every set of accounts and any number of upgrades and   *)
(* reindexings: the supply of an ERC-20 contract moves with its balances,  *)
(* unless its supply could not be read when it was found or a reindexing   *)
(* met the balance job between two of its queries.                         *)
(***************************************************************************)
EXTENDS Erc20, TokenChainProofs

(* The provers that try a leaf, one after the other, and their time in     *)
(* seconds.                                                                *)
USE SMTT(40), ZenonT(40)

(* What Processed starts from.                                             *)
Unapplied(supply, bs) == [supply |-> supply, balances |-> bs, ok |-> TRUE]

(* The rows of account_balance, the supply of a contract that may not      *)
(* report one, and what Processed accumulates.                             *)
BalanceRow == [amount : Int, last : Int]
BalanceRows(bs) ==
    /\ bs = [a \in DOMAIN bs |-> bs[a]] /\ DOMAIN bs \subseteq Addr
    /\ \A a \in DOMAIN bs : bs[a] \in BalanceRow
Reported == Int \cup {Null}
Accumulator(acc) ==
    acc \in [supply : Reported, balances : {acc.balances}, ok : BOOLEAN] /\ BalanceRows(acc.balances)

(* The sum of the balances is a Total.                                     *)
Amounts(bs) == [a \in DOMAIN bs |-> bs[a].amount]

(* Sum adds the amounts of all balances.                                   *)
LEMMA SumTotal ==
  ASSUME NEW bs
  PROVE  Sum(bs) = Total(Amounts(bs), DOMAIN bs)
<1> DEFINE D == DOMAIN bs
           P(g) == g = [T \in SUBSET D |-> IF T = {} THEN 0 ELSE g[T \ {One(T)}] + bs[One(T)].amount]
           Q(g) == g = [T \in SUBSET D |->
                          IF T = {} THEN 0 ELSE g[T \ {One(T)}] + Amounts(bs)[One(T)]]
<1>1. \A T \in SUBSET D : T # {} => Amounts(bs)[One(T)] = bs[One(T)].amount
  BY OneOf, Zenon DEF Amounts
<1>2. \A g : P(g) <=> Q(g)
  BY <1>1, Zenon
<1>3. Sum(bs) = (CHOOSE g : P(g))[D]
  BY Zenon DEF Sum, FoldSet, MapThenFoldSet, One
<1>4. Total(Amounts(bs), D) = (CHOOSE g : Q(g))[D]
  BY Zenon DEF Total
<1> HIDE DEF P, Q
<1>5. (CHOOSE g : P(g)) = (CHOOSE g : Q(g))
  BY <1>2, Zenon
<1> QED
  BY <1>3, <1>4, <1>5, Zenon

(* The sum of the balances is an integer, 0 if there are none.             *)
LEMMA SumType ==
  ASSUME NEW bs, BalanceRows(bs)
  PROVE  Sum(bs) \in Int /\ (DOMAIN bs = {} => Sum(bs) = 0)
<1>1. IsFiniteSet(DOMAIN bs)
  BY TokenAssumption, FS_Subset, Zenon DEF BalanceRows
<1>2. \A a \in DOMAIN bs : Amounts(bs)[a] \in Int
  BY Zenon DEF BalanceRows, BalanceRow, Amounts
<1> QED
  BY <1>1, <1>2, SumTotal, TotalType, TotalOfNone, Zenon

(* One side of a move changes one balance, and the sum by as much.         *)
LEMMA MovedFacts ==
  ASSUME NEW bs, BalanceRows(bs), NEW a \in Addr, NEW amount \in Int, NEW height \in Int
  PROVE  /\ BalanceRows(Moved(bs, a, amount, height))
         /\ DOMAIN Moved(bs, a, amount, height) = DOMAIN bs \cup {a}
         /\ Sum(Moved(bs, a, amount, height)) = Sum(bs) + amount
<1>0. PICK ms : ms = Moved(bs, a, amount, height)
  BY Zenon
<1> DEFINE old == IF a \in DOMAIN bs THEN bs[a].amount ELSE 0
<1>1. old \in Int
  BY DEF BalanceRows, BalanceRow
<1>2. /\ DOMAIN ms = DOMAIN bs \cup {a}
      /\ ms[a] = [amount |-> old + amount, last |-> height]
      /\ \A x \in DOMAIN bs \ {a} : ms[x] = bs[x]
  BY <1>0, Zenon DEF Moved
<1> HIDE DEF old
<1>f. ms = [x \in DOMAIN ms |-> ms[x]]
  BY <1>0 DEF Moved
<1>3. BalanceRows(ms)
  <2>1. \A x \in DOMAIN ms : ms[x] \in BalanceRow
    BY <1>1, <1>2 DEF BalanceRows, BalanceRow
  <2> QED
    BY <1>2, <1>f, <2>1, Zenon DEF BalanceRows
<1>4. PICK D, v, w : D = DOMAIN bs /\ v = Amounts(bs) /\ w = Amounts(ms)
  BY Zenon
<1>5. IsFiniteSet(D) /\ \A x \in D : v[x] \in Int
  BY <1>4, TokenAssumption, FS_Subset, Zenon DEF BalanceRows, BalanceRow, Amounts
<1>6. w[a] = old + amount /\ w[a] \in Int /\ \A x \in D : x # a => w[x] = v[x]
  BY <1>1, <1>2, <1>4 DEF Amounts
<1>7. Total(w, DOMAIN ms) = Total(v, D) + w[a] - (IF a \in D THEN v[a] ELSE 0)
  <2>1. PICK R : R = DOMAIN ms /\ R = D \cup {a}
    BY <1>2, <1>4, Zenon
  <2>2. Total(w, R) = Total(v, D) + w[a] - (IF a \in D THEN v[a] ELSE 0)
    BY <1>5, <1>6, <2>1, TotalPut
  <2> QED
    BY <2>1, <2>2, Zenon
<1>8. old = IF a \in D THEN v[a] ELSE 0
  BY <1>4, Zenon DEF old, Amounts
<1>9. Sum(ms) = Sum(bs) + (old + amount) - old
  BY <1>2, <1>4, <1>6, <1>7, <1>8, SumTotal, Zenon
<1>10. Sum(ms) = Sum(bs) + amount
  BY <1>1, <1>9, SumType
<1> QED
  BY <1>0, <1>2, <1>3, <1>10, Zenon

(* What a row or its absence says of an account.                           *)
Held(bs, a) == IF a \in DOMAIN bs THEN bs[a].amount ELSE 0

(* The components of an accumulator.                                       *)
LEMMA AccumulatorParts ==
  ASSUME NEW acc, Accumulator(acc)
  PROVE  /\ acc = [supply |-> acc.supply, balances |-> acc.balances, ok |-> acc.ok]
         /\ acc.supply \in Reported /\ acc.ok \in BOOLEAN /\ BalanceRows(acc.balances)
  BY Zenon DEF Accumulator

(* The supply the accumulator would have if all balances were zero; a      *)
(* transfer moves supply and balances together, so it does not change it.  *)
Excess(acc) == acc.supply - Sum(acc.balances)

(* One side of a transfer, which makes end of acc, lowers the excess by    *)
(* its amount: it moves either the supply or one balance.  It throws only  *)
(* at a balance that was updated after the height of the event.            *)
Sided(acc, end, a, amount, height) ==
    /\ Accumulator(end) /\ (end.supply = Null <=> acc.supply = Null)
    /\ acc.supply # Null => Excess(end) = Excess(acc) - amount
    /\ \A x \in Addr : Held(end.balances, x) = Held(acc.balances, x) + (IF x = a THEN amount ELSE 0)
    /\ (\A x \in DOMAIN acc.balances : acc.balances[x].last <= height) =>
          end.ok = acc.ok /\ \A x \in DOMAIN end.balances : end.balances[x].last <= height

(* Each side of handlerErc20Transfer does that.                            *)
LEMMA SideFacts ==
  ASSUME NEW acc, Accumulator(acc), NEW a \in Addr \cup {None},
         NEW amount \in Int, NEW height \in Int
  PROVE  Sided(acc, Side(acc, a, amount, height), a, amount, height)
<1>1. PICK end : end = Side(acc, a, amount, height)
  BY Zenon
<1>b. PICK bs : bs = acc.balances
  BY Zenon
<1>2. PICK s \in Reported, o \in BOOLEAN :
         acc = [supply |-> s, balances |-> bs, ok |-> o] /\ BalanceRows(bs)
  BY <1>b, AccumulatorParts, Zenon
<1>3. acc.supply = s /\ acc.balances = bs /\ acc.ok = o
  BY <1>2, Zenon
<1>4. Sum(bs) \in Int /\ Null \notin Int /\ None \notin Addr
  BY <1>2, SumType, TokenAssumption, Erc20Assumption, Zenon
<1>5. \A x \in Addr : Held(bs, x) \in Int
  BY <1>2 DEF Held, BalanceRows, BalanceRow
<1>6. CASE a = None
  <2>1. PICK t : t = IF s = Null THEN Null ELSE s - amount
    BY Zenon
  <2>2. end = [supply |-> t, balances |-> bs, ok |-> o]
    BY <1>1, <1>2, <1>6, <2>1, Zenon DEF Side
  <2>3. end.supply = t /\ end.balances = bs /\ end.ok = o
    BY <2>2, Zenon
  <2>4. t \in Reported /\ (t = Null <=> s = Null) /\ (s # Null => t = s - amount /\ s \in Int)
    BY <1>4, <2>1 DEF Reported
  <2>5. Accumulator(end)
    BY <1>2, <2>2, <2>3, <2>4, Zenon DEF Accumulator
  <2>6. s # Null => Excess(end) = Excess(acc) - amount
    BY <1>3, <1>4, <2>3, <2>4 DEF Excess
  <2>7. \A x \in Addr : Held(bs, x) = Held(bs, x) + (IF x = a THEN amount ELSE 0)
    BY <1>4, <1>5, <1>6
  <2> QED
    BY <1>1, <1>3, <2>3, <2>4, <2>5, <2>6, <2>7, Zenon DEF Sided
<1>7. CASE a \in Addr
  <2>1. PICK ms : ms = Moved(bs, a, amount, height)
    BY Zenon
  <2>2. PICK p : p = (o /\ (a \in DOMAIN bs => height >= bs[a].last))
    BY Zenon
  <2>3. p \in BOOLEAN
    BY <1>2, <2>2, Zenon
  <2>4. end = [supply |-> s, balances |-> ms, ok |-> p]
    <3>1. a # None
      BY <1>4, <1>7, Zenon
    <3> QED
      BY <1>1, <1>2, <1>3, <2>1, <2>2, <3>1, Zenon DEF Side
  <2>5. end.supply = s /\ end.balances = ms /\ end.ok = p
    BY <2>4, Zenon
  <2>6. BalanceRows(ms) /\ DOMAIN ms = DOMAIN bs \cup {a} /\ Sum(ms) = Sum(bs) + amount
    <3>1. /\ BalanceRows(Moved(bs, a, amount, height))
          /\ DOMAIN Moved(bs, a, amount, height) = DOMAIN bs \cup {a}
          /\ Sum(Moved(bs, a, amount, height)) = Sum(bs) + amount
      BY <1>2, <1>7, MovedFacts, Zenon
    <3> QED
      BY <2>1, <3>1, Zenon
  <2>7. Accumulator(end)
    BY <1>2, <2>3, <2>4, <2>5, <2>6, Zenon DEF Accumulator
  <2>8. s # Null => Excess(end) = Excess(acc) - amount
    BY <1>3, <1>4, <2>5, <2>6 DEF Excess, Reported
  <2>9. /\ \A x \in Addr : Held(ms, x) = IF x = a THEN Held(bs, a) + amount ELSE Held(bs, x)
        /\ \A x \in DOMAIN ms : ms[x].last = IF x = a THEN height ELSE bs[x].last
    <3>1. \A x \in DOMAIN ms : ms[x].last = IF x = a THEN height ELSE bs[x].last
      BY <1>2, <1>7, <2>1, <2>6, Zenon DEF Moved
    <3>2. \A x \in Addr : Held(ms, x) = IF x = a THEN Held(bs, a) + amount ELSE Held(bs, x)
      BY <1>2, <1>7, <2>1, <2>6, Zenon DEF Moved, Held
    <3> QED
      BY <3>1, <3>2, Zenon
  <2>10. \A x \in Addr : Held(ms, x) = Held(bs, x) + (IF x = a THEN amount ELSE 0)
    BY <1>5, <2>9
  <2>11. ASSUME \A x \in DOMAIN bs : bs[x].last <= height
         PROVE  p = o /\ \A x \in DOMAIN ms : ms[x].last <= height
    <3>1. \A x \in DOMAIN bs : bs[x].last \in Int
      BY <1>2, Zenon DEF BalanceRows, BalanceRow
    <3>2. a \in DOMAIN bs => height >= bs[a].last
      BY <2>11, <3>1, Zenon
    <3> QED
      BY <1>2, <2>2, <2>6, <2>9, <2>11, <3>2
  <2> QED
    BY <1>1, <1>3, <2>5, <2>7, <2>8, <2>10, <2>11, Zenon DEF Sided
<1> QED
  BY <1>6, <1>7, Zenon

(* handlerErc20Transfer moves one unit between balances or the supply; it  *)
(* throws only at a balance that was updated later.                        *)
LEMMA TransferFacts ==
  ASSUME NEW acc, Accumulator(acc), NEW e \in Event
  PROVE  /\ Accumulator(HandlerErc20Transfer(acc, e))
         /\ HandlerErc20Transfer(acc, e).supply = Null <=> acc.supply = Null
         /\ acc.supply # Null => Excess(HandlerErc20Transfer(acc, e)) = Excess(acc)
         /\ \A x \in Addr : Held(HandlerErc20Transfer(acc, e).balances, x)
                              = Held(acc.balances, x) + Credit(e, x) - Debit(e, x)
         /\ (\A x \in DOMAIN acc.balances : acc.balances[x].last <= e.height) =>
              /\ HandlerErc20Transfer(acc, e).ok = acc.ok
              /\ \A x \in DOMAIN HandlerErc20Transfer(acc, e).balances :
                    HandlerErc20Transfer(acc, e).balances[x].last <= e.height
<1>1. PICK h \in Int, a \in Addr \cup {None}, b \in Addr \cup {None} :
         h = e.height /\ a = e.from /\ b = e.to
  BY Zenon DEF Event
<1>2. PICK m \in Int : m = -1
  OBVIOUS
<1>3. PICK mid : mid = Side(acc, a, m, h)
  BY Zenon
<1>4. PICK end : end = Side(mid, b, 1, h)
  BY Zenon
<1>5. HandlerErc20Transfer(acc, e) = end
  BY <1>1, <1>2, <1>3, <1>4, Zenon DEF HandlerErc20Transfer
<1>6. Sided(acc, mid, a, m, h) /\ Accumulator(mid)
  <2>1. Sided(acc, mid, a, m, h)
    BY <1>3, SideFacts, Zenon
  <2> QED
    BY <2>1, Zenon DEF Sided
<1>7. Sided(mid, end, b, 1, h) /\ Accumulator(end)
  <2>1. 1 \in Int
    OBVIOUS
  <2>2. Sided(mid, end, b, 1, h)
    BY <1>4, <1>6, <2>1, SideFacts, Zenon
  <2> QED
    BY <2>2, Zenon DEF Sided
<1>8. acc.supply # Null => Excess(acc) \in Int
  BY AccumulatorParts, SumType DEF Excess, Reported
<1>9. acc.supply # Null => Excess(end) = Excess(acc)
  BY <1>2, <1>6, <1>7, <1>8 DEF Sided
<1>10. ASSUME NEW x \in Addr
       PROVE  Held(end.balances, x) = Held(acc.balances, x) + Credit(e, x) - Debit(e, x)
  <2>1. Held(acc.balances, x) \in Int
    <3>1. PICK bs : bs = acc.balances /\ BalanceRows(bs)
      BY AccumulatorParts, Zenon
    <3>2. Held(bs, x) \in Int
      BY <3>1 DEF Held, BalanceRows, BalanceRow
    <3> QED
      BY <3>1, <3>2, Zenon
  <2>2. Credit(e, x) = (IF x = b THEN 1 ELSE 0) /\ 0 - Debit(e, x) = (IF x = a THEN m ELSE 0)
    BY <1>1, <1>2 DEF Credit, Debit
  <2>3. PICK c \in Int, d \in Int : c = Credit(e, x) /\ d = Debit(e, x)
    BY CreditType, Zenon
  <2>4. Held(end.balances, x) = (Held(acc.balances, x) + (0 - d)) + c
    BY <1>6, <1>7, <2>2, <2>3, Zenon DEF Sided
  <2> QED
    BY <2>1, <2>3, <2>4
<1> QED
  BY <1>1, <1>5, <1>6, <1>7, <1>9, <1>10, Zenon DEF Sided

(* Rows that are read or written in parts are rows again.                  *)
LEMMA PartRows ==
  ASSUME NEW bs, BalanceRows(bs), NEW who, NEW new, BalanceRows(new)
  PROVE  BalanceRows(Only(bs, who)) /\ BalanceRows(Merged(new, bs))
<1>1. BalanceRows(Only(bs, who))
  BY DEF BalanceRows, Only
<1>2. BalanceRows(Merged(new, bs))
  BY DEF BalanceRows, Merged
<1> QED
  BY <1>1, <1>2, Zenon

(* Writing back what was read changes nothing.                             *)
LEMMA MergedOnly ==
  ASSUME NEW bs, BalanceRows(bs), NEW who
  PROVE  Merged(Only(bs, who), bs) = bs
  BY DEF BalanceRows, Merged, Only

(* The job works on acc, the rows it has read, as it would work on full,   *)
(* all rows: the others, those of bs, are untouched.                       *)
Framed(acc, full, bs) ==
    full.supply = acc.supply /\ full.ok = acc.ok /\ full.balances = Merged(acc.balances, bs)

(* A balance moves in the same way among the rows read and among all rows. *)
LEMMA MovedFrame ==
  ASSUME NEW x, NEW bs, NEW a, NEW amount, NEW height, a \in DOMAIN bs => a \in DOMAIN x
  PROVE  Moved(Merged(x, bs), a, amount, height) = Merged(Moved(x, a, amount, height), bs)
<1>1. PICK m : m = Merged(x, bs)
  BY Zenon
<1>2. PICK y : y = Moved(x, a, amount, height)
  BY Zenon
<1>3. /\ DOMAIN m = DOMAIN x \cup DOMAIN bs
      /\ \A z \in DOMAIN m : m[z] = IF z \in DOMAIN x THEN x[z] ELSE bs[z]
  BY <1>1, Zenon DEF Merged
<1>4. PICK old : old = IF a \in DOMAIN x THEN x[a].amount ELSE 0
  BY Zenon
<1>5. /\ DOMAIN y = DOMAIN x \cup {a}
      /\ \A z \in DOMAIN y : y[z] = IF z # a THEN x[z] ELSE [amount |-> old + amount, last |-> height]
  BY <1>2, <1>4, Zenon DEF Moved
<1>6. old = IF a \in DOMAIN m THEN m[a].amount ELSE 0
  BY <1>3, <1>4, Zenon
<1>7. Moved(m, a, amount, height) =
         [z \in DOMAIN m \cup {a} |-> IF z # a THEN m[z] ELSE [amount |-> old + amount, last |-> height]]
  BY <1>6, Zenon DEF Moved
<1>8. DOMAIN m \cup {a} = DOMAIN y \cup DOMAIN bs
  BY <1>3, <1>5, Zenon
<1>9. \A z \in DOMAIN y \cup DOMAIN bs :
         (IF z # a THEN m[z] ELSE [amount |-> old + amount, last |-> height])
           = IF z \in DOMAIN y THEN y[z] ELSE bs[z]
  BY <1>3, <1>5, Zenon
<1>10. Merged(y, bs) = [z \in DOMAIN y \cup DOMAIN bs |-> IF z \in DOMAIN y THEN y[z] ELSE bs[z]]
  BY Zenon DEF Merged
<1> QED
  BY <1>1, <1>2, <1>7, <1>8, <1>9, <1>10, Zenon

(* So does each side of a transfer whose party's row, if any, was read.    *)
LEMMA SideFrame ==
  ASSUME NEW acc, NEW full, NEW bs, Accumulator(acc), Accumulator(full), Framed(acc, full, bs),
         NEW a \in Addr \cup {None}, NEW amount \in Int, NEW height \in Int,
         a \in DOMAIN bs => a \in DOMAIN acc.balances
  PROVE  /\ Framed(Side(acc, a, amount, height), Side(full, a, amount, height), bs)
         /\ DOMAIN acc.balances \subseteq DOMAIN Side(acc, a, amount, height).balances
<1>1. PICK s, x, m, o :
         /\ acc = [supply |-> s, balances |-> x, ok |-> o]
         /\ full = [supply |-> s, balances |-> m, ok |-> o] /\ m = Merged(x, bs)
         /\ acc.balances = x
  <2>1. PICK s, x, m, o : s = acc.supply /\ x = acc.balances /\ o = acc.ok /\ m = full.balances
    BY Zenon
  <2>2. full.supply = s /\ full.ok = o /\ m = Merged(x, bs)
    BY <2>1, Zenon DEF Framed
  <2>3. acc = [supply |-> s, balances |-> x, ok |-> o]
    BY <2>1, AccumulatorParts, Zenon
  <2>4. full = [supply |-> s, balances |-> m, ok |-> o]
    BY <2>1, <2>2, AccumulatorParts, Zenon
  <2> QED
    BY <2>1, <2>2, <2>3, <2>4, Zenon
<1>l. PICK l, r : l = Side(acc, a, amount, height) /\ r = Side(full, a, amount, height)
  BY Zenon
<1>2. None \notin Addr
  BY TokenAssumption, Zenon
<1>3. CASE a = None
  <2>1. PICK t : t = IF s = Null THEN Null ELSE s - amount
    BY Zenon
  <2>2. /\ l = [supply |-> t, balances |-> x, ok |-> o]
        /\ r = [supply |-> t, balances |-> m, ok |-> o]
    BY <1>1, <1>l, <1>3, <2>1, Zenon DEF Side
  <2>3. /\ l.supply = t /\ l.balances = x /\ l.ok = o
        /\ r.supply = t /\ r.balances = m /\ r.ok = o
    BY <2>2, Zenon
  <2>4. Framed(l, r, bs) /\ DOMAIN x \subseteq DOMAIN l.balances
    BY <1>1, <2>3, Zenon DEF Framed
  <2> QED
    BY <1>1, <1>l, <2>4, Zenon
<1>4. CASE a \in Addr
  <2>1. a # None
    BY <1>2, <1>4, Zenon
  <2>2. PICK p : p = (o /\ (a \in DOMAIN x => height >= x[a].last))
    BY Zenon
  <2>3. (a \in DOMAIN m <=> a \in DOMAIN x) /\ (a \in DOMAIN x => m[a] = x[a])
    BY <1>1, Zenon DEF Merged
  <2>4. p = (o /\ (a \in DOMAIN m => height >= m[a].last))
    BY <2>2, <2>3, Zenon
  <2>5. PICK y, w : y = Moved(x, a, amount, height) /\ w = Moved(m, a, amount, height)
    BY Zenon
  <2>6. l = [supply |-> s, balances |-> y, ok |-> p]
    BY <1>1, <1>l, <2>1, <2>2, <2>5, Zenon DEF Side
  <2>7. r = [supply |-> s, balances |-> w, ok |-> p]
    BY <1>1, <1>l, <2>1, <2>4, <2>5, Zenon DEF Side
  <2>8. w = Merged(y, bs)
    <3>1. a \in DOMAIN bs => a \in DOMAIN x
      BY <1>1, Zenon
    <3>2. Moved(Merged(x, bs), a, amount, height) = Merged(Moved(x, a, amount, height), bs)
      BY <3>1, MovedFrame
    <3> QED
      BY <1>1, <2>5, <3>2, Zenon
  <2>9. DOMAIN x \subseteq DOMAIN y
    BY <2>5, Zenon DEF Moved
  <2>10. /\ l.supply = s /\ l.balances = y /\ l.ok = p
         /\ r.supply = s /\ r.balances = w /\ r.ok = p
    BY <2>6, <2>7, Zenon
  <2>11. Framed(l, r, bs) /\ DOMAIN x \subseteq DOMAIN l.balances
    BY <2>8, <2>9, <2>10, Zenon DEF Framed
  <2> QED
    BY <1>1, <1>l, <2>11, Zenon
<1> QED
  BY <1>3, <1>4, Zenon

(* And so does the transfer, if the rows of both parties were read.        *)
LEMMA TransferFrame ==
  ASSUME NEW acc, NEW full, NEW bs, Accumulator(acc), Accumulator(full), Framed(acc, full, bs),
         NEW e \in Event, {e.from, e.to} \cap DOMAIN bs \subseteq DOMAIN acc.balances
  PROVE  /\ Framed(HandlerErc20Transfer(acc, e), HandlerErc20Transfer(full, e), bs)
         /\ DOMAIN acc.balances \subseteq DOMAIN HandlerErc20Transfer(acc, e).balances
<1>1. PICK h \in Int, a \in Addr \cup {None}, b \in Addr \cup {None} :
         h = e.height /\ a = e.from /\ b = e.to
  BY Zenon DEF Event
<1>2. PICK m \in Int, i \in Int : m = -1 /\ i = 1
  OBVIOUS
<1>3. PICK x, y : x = Side(acc, a, m, h) /\ y = Side(full, a, m, h)
  BY Zenon
<1>4. Accumulator(x) /\ Accumulator(y)
  BY <1>3, SideFacts, Zenon DEF Sided
<1>5. Framed(x, y, bs) /\ DOMAIN acc.balances \subseteq DOMAIN x.balances
  BY <1>1, <1>3, SideFrame, Zenon
<1>6. b \in DOMAIN bs => b \in DOMAIN x.balances
  BY <1>1, <1>5, Zenon
<1>7. /\ Framed(Side(x, b, i, h), Side(y, b, i, h), bs)
      /\ DOMAIN x.balances \subseteq DOMAIN Side(x, b, i, h).balances
  BY <1>4, <1>5, <1>6, SideFrame, Zenon
<1>8. /\ HandlerErc20Transfer(acc, e) = Side(x, b, i, h)
      /\ HandlerErc20Transfer(full, e) = Side(y, b, i, h)
  BY <1>1, <1>2, <1>3, Zenon DEF HandlerErc20Transfer
<1> QED
  BY <1>5, <1>7, <1>8, Zenon

(* The accumulator after each activity.                                    *)
ProcessedTrace(f, supply, bs, r, n) ==
    /\ f[0] = Unapplied(supply, bs) /\ f[n] = Processed(supply, bs, r)
    /\ \A k \in 1 .. n : f[k] = IF f[k - 1].ok THEN HandlerErc20Transfer(f[k - 1], events[r[k]])
                                ELSE f[k - 1]

(* Processed has such a trace.                                             *)
LEMMA ProcessedIsTraced ==
  ASSUME NEW supply, NEW bs, NEW s, NEW n \in Nat, n = Len(s)
  PROVE  \E f : ProcessedTrace(f, supply, bs, s, n)
<1> DEFINE Step(acc, i) == IF acc.ok THEN HandlerErc20Transfer(acc, events[i]) ELSE acc
           Trace(f, m) == f = [k \in 0 .. m |-> IF k = 0 THEN Unapplied(supply, bs) ELSE Step(f[k - 1], s[k])]
           G == {m \in Nat : \E f : Trace(f, m)}
           after == CHOOSE f : Trace(f, n)
<1>1. Processed(supply, bs, s) = after[n]
  BY Zenon DEF Processed, Fold, Unapplied
<1> HIDE DEF Step
<1>2. 0 \in G
  <2>1. Trace([k \in 0 .. 0 |-> Unapplied(supply, bs)], 0)
    OBVIOUS
  <2> QED
    BY <2>1, Zenon
<1>3. ASSUME NEW m \in Nat, m \in G
      PROVE  m + 1 \in G
  <2>1. PICK f : Trace(f, m)
    BY <1>3, Zenon
  <2> DEFINE g == [k \in 0 .. m + 1 |-> IF k <= m THEN f[k] ELSE Step(f[m], s[m + 1])]
  <2>2. ASSUME NEW k \in 0 .. m + 1
        PROVE  g[k] = IF k = 0 THEN Unapplied(supply, bs) ELSE Step(g[k - 1], s[k])
    BY <2>1
  <2>3. Trace(g, m + 1)
    BY <2>2, Zenon
  <2> HIDE DEF g, Trace
  <2> QED
    BY <2>3
<1> HIDE DEF G, Trace
<1>4. Nat \subseteq G
  BY <1>2, <1>3, NatInd, Zenon
<1>5. Trace(after, n)
  BY <1>4, Zenon DEF G
<1> HIDE DEF after
<1>6. /\ after[0] = Unapplied(supply, bs)
      /\ \A k \in 1 .. n : after[k] = Step(after[k - 1], s[k])
  BY <1>5 DEF Trace
<1> QED
  BY <1>1, <1>6, Zenon DEF Step, ProcessedTrace

(* The trace of Processed, activity by activity.                           *)
LEMMA ProcessedSteps ==
  ASSUME NEW supply, NEW bs, NEW D, NEW r \in Seq(D)
  PROVE  \E f : ProcessedTrace(f, supply, bs, r, Len(r))
<1>1. PICK n \in Nat : n = Len(r) /\ DOMAIN r = 1 .. n
  OBVIOUS
<1>3. \E f : ProcessedTrace(f, supply, bs, r, n)
  BY <1>1, ProcessedIsTraced, Zenon
<1> QED
  BY <1>1, <1>3, Zenon

(* The activities change the supply by as much as the sum of the balances. *)
LEMMA ProcessedSums ==
  ASSUME Heights, NEW supply \in Reported, NEW bs, BalanceRows(bs), NEW r \in Seq(DOMAIN events)
  PROVE  /\ Accumulator(Processed(supply, bs, r))
         /\ Processed(supply, bs, r).supply = Null <=> supply = Null
         /\ supply # Null => Excess(Processed(supply, bs, r)) = supply - Sum(bs)
<1>1. PICK n \in Nat : n = Len(r) /\ DOMAIN r = 1 .. n
  OBVIOUS
<1>2. PICK f : ProcessedTrace(f, supply, bs, r, n)
  BY <1>1, ProcessedSteps, Zenon
<1> DEFINE Ok(k) == /\ Accumulator(f[k]) /\ (f[k].supply = Null <=> supply = Null)
                    /\ supply # Null => Excess(f[k]) = supply - Sum(bs)
           G == {k \in Nat : k <= n => Ok(k)}
<1>3. 0 \in G
  <2>1. f[0] = [supply |-> supply, balances |-> bs, ok |-> TRUE]
    BY <1>2, Zenon DEF ProcessedTrace, Unapplied
  <2>2. Accumulator(f[0])
    BY <2>1 DEF Accumulator
  <2> QED
    BY <2>1, <2>2 DEF Excess
<1>4. ASSUME NEW k \in Nat, k \in G
      PROVE  k + 1 \in G
  <2> SUFFICES ASSUME k + 1 <= n PROVE Ok(k + 1)
    OBVIOUS
  <2>1. Ok(k) /\ k + 1 \in 1 .. n /\ (k + 1) - 1 = k
    BY <1>4
  <2>2. PICK e \in Event : e = events[r[k + 1]]
    BY <1>1, <2>1, EventTyped
  <2>3. f[k + 1] = IF f[k].ok THEN HandlerErc20Transfer(f[k], e) ELSE f[k]
    BY <1>2, <2>1, <2>2, Zenon DEF ProcessedTrace
  <2>4. CASE f[k].ok
    <3>1. f[k + 1] = HandlerErc20Transfer(f[k], e)
      BY <2>3, <2>4, Zenon
    <3> QED
      BY <2>1, <3>1, TransferFacts
  <2>5. CASE ~ f[k].ok
    <3>1. f[k + 1] = f[k]
      BY <2>3, <2>5, Zenon
    <3> QED
      BY <2>1, <3>1, Zenon
  <2> QED
    BY <2>4, <2>5, Zenon
<1> HIDE DEF G
<1>5. Nat \subseteq G
  BY <1>3, <1>4, NatInd, Zenon
<1>6. n \in G /\ n <= n
  BY <1>5
<1>7. Ok(n)
  BY <1>6, Zenon DEF G
<1> QED
  BY <1>2, <1>7, Zenon DEF ProcessedTrace

(* The parties of an activity of the job are among those of all of them.   *)
LEMMA PartiesFacts ==
  ASSUME Heights, NEW r \in Seq(DOMAIN events), NEW i \in DOMAIN r
  PROVE  {events[r[i]].from, events[r[i]].to} \cap Addr \subseteq Parties(r)
<1>1. PICK j \in Range(r) : j = r[i]
  BY InRange, Zenon
<1>2. None \notin Addr
  BY TokenAssumption, Zenon
<1>3. \A x \in {events[j].from, events[j].to} \cap Addr : x \in Parties(r)
  BY <1>1, <1>2 DEF Parties
<1> QED
  BY <1>1, <1>3, Zenon

(* The job needs no other rows than those of the parties.                  *)
LEMMA ProcessedFrame ==
  ASSUME Heights, NEW supply \in Reported, NEW bs, BalanceRows(bs), NEW r \in Seq(DOMAIN events)
  PROVE  Framed(Processed(supply, Only(bs, Parties(r)), r), Processed(supply, bs, r), bs)
<1>1. PICK n \in Nat : n = Len(r) /\ DOMAIN r = 1 .. n
  OBVIOUS
<1>2. PICK P, part : P = Parties(r) /\ part = Only(bs, P)
  BY Zenon
<1>3. BalanceRows(part) /\ Merged(part, bs) = bs /\ DOMAIN part = DOMAIN bs \cap P
  BY <1>2, PartRows, MergedOnly, Zenon DEF Only
<1>4. PICK f : ProcessedTrace(f, supply, part, r, n)
  BY <1>1, ProcessedSteps, Zenon
<1>5. PICK g : ProcessedTrace(g, supply, bs, r, n)
  BY <1>1, ProcessedSteps, Zenon
<1> DEFINE Ok(k) == /\ Accumulator(f[k]) /\ Accumulator(g[k]) /\ Framed(f[k], g[k], bs)
                    /\ DOMAIN bs \cap P \subseteq DOMAIN f[k].balances
           G == {k \in Nat : k <= n => Ok(k)}
<1>6. 0 \in G
  <2>1. /\ f[0] = [supply |-> supply, balances |-> part, ok |-> TRUE]
        /\ g[0] = [supply |-> supply, balances |-> bs, ok |-> TRUE]
    BY <1>4, <1>5, Zenon DEF ProcessedTrace, Unapplied
  <2>2. Accumulator(f[0]) /\ Accumulator(g[0])
    BY <1>3, <2>1 DEF Accumulator
  <2>3. /\ f[0].supply = supply /\ f[0].balances = part /\ f[0].ok = TRUE
        /\ g[0].supply = supply /\ g[0].balances = bs /\ g[0].ok = TRUE
    BY <2>1
  <2>4. Framed(f[0], g[0], bs) /\ DOMAIN bs \cap P \subseteq DOMAIN f[0].balances
    BY <1>3, <2>3, Zenon DEF Framed
  <2> QED
    BY <2>2, <2>4
<1>7. ASSUME NEW k \in Nat, k \in G
      PROVE  k + 1 \in G
  <2> SUFFICES ASSUME k + 1 <= n PROVE Ok(k + 1)
    OBVIOUS
  <2>1. Ok(k) /\ k + 1 \in 1 .. n /\ (k + 1) - 1 = k
    BY <1>7
  <2>2. PICK e \in Event : e = events[r[k + 1]]
    BY <1>1, <2>1, EventTyped
  <2>3. /\ f[k + 1] = IF f[k].ok THEN HandlerErc20Transfer(f[k], e) ELSE f[k]
        /\ g[k + 1] = IF g[k].ok THEN HandlerErc20Transfer(g[k], e) ELSE g[k]
    BY <1>4, <1>5, <2>1, <2>2, Zenon DEF ProcessedTrace
  <2>4. g[k].ok = f[k].ok
    BY <2>1, Zenon DEF Framed
  <2>5. CASE f[k].ok
    <3>1. f[k + 1] = HandlerErc20Transfer(f[k], e) /\ g[k + 1] = HandlerErc20Transfer(g[k], e)
      BY <2>3, <2>4, <2>5, Zenon
    <3>2. {e.from, e.to} \cap DOMAIN bs \subseteq DOMAIN f[k].balances
      <4>1. {e.from, e.to} \cap Addr \subseteq P
        BY <1>1, <1>2, <2>1, <2>2, PartiesFacts, Zenon
      <4> QED
        BY <2>1, <4>1, Zenon DEF BalanceRows
    <3>3. /\ Framed(f[k + 1], g[k + 1], bs)
          /\ DOMAIN f[k].balances \subseteq DOMAIN f[k + 1].balances
      BY <2>1, <3>1, <3>2, TransferFrame, Zenon
    <3>4. Accumulator(f[k + 1]) /\ Accumulator(g[k + 1])
      BY <2>1, <3>1, TransferFacts, Zenon
    <3> QED
      BY <2>1, <3>3, <3>4, Zenon
  <2>6. CASE ~ f[k].ok
    <3>1. f[k + 1] = f[k] /\ g[k + 1] = g[k]
      BY <2>3, <2>4, <2>6, Zenon
    <3> QED
      BY <2>1, <3>1, Zenon
  <2> QED
    BY <2>5, <2>6, Zenon
<1> HIDE DEF G
<1>8. Nat \subseteq G
  BY <1>6, <1>7, NatInd, Zenon
<1>9. n \in G /\ n <= n
  BY <1>8
<1>10. Ok(n)
  BY <1>9, Zenon DEF G
<1> QED
  BY <1>2, <1>4, <1>5, <1>10, Zenon DEF ProcessedTrace

(* No range ends above the rows it waits for.                              *)
LEMMA EndFacts ==
  ASSUME NEW start \in Int, NEW last \in Int, last >= 0
  PROVE  EndHeight(start, last, BlocksPerCall) \in Int /\ EndHeight(start, last, BlocksPerCall) <= last
  BY Erc20Assumption DEF EndHeight, SmallerOf, NoRow, NoStep

(* The jobs of ERC-20 tokens wait for rows that exist.                     *)
LEMMA LastHeightFacts ==
  ASSUME cp \in [Jobs -> Int], \A j \in Jobs : cp[j] >= 0
  PROVE  /\ LastHeight(cp, {"activity"}) = cp["activity"]
         /\ LastHeight(cp, {"contract", "proxy"}) \in {cp["contract"], cp["proxy"]}
         /\ LastHeight(cp, {"contract", "proxy"}) <= cp["contract"]
         /\ LastHeight(cp, {"contract", "proxy"}) <= cp["proxy"]
<1>1. \A j \in Jobs : cp[j] \in Int /\ cp[j] # NoRow
  BY DEF NoRow
<1>2. {d \in {"activity"} : cp[d] # NoRow} = {"activity"}
  BY <1>1, Zenon DEF Jobs
<1>3. {d \in {"contract", "proxy"} : cp[d] # NoRow} = {"contract", "proxy"}
  BY <1>1, Zenon DEF Jobs
<1>4. LastHeight(cp, {"activity"}) = cp["activity"]
  <2>1. (CHOOSE d \in {"activity"} : \A e \in {"activity"} : cp[d] <= cp[e]) = "activity"
    BY <1>1 DEF Jobs
  <2> QED
    BY <1>2, <2>1, Zenon DEF LastHeight
<1>5. PICK d \in {"contract", "proxy"} : \A e \in {"contract", "proxy"} : cp[d] <= cp[e]
  BY <1>1 DEF Jobs
<1> DEFINE c == CHOOSE x \in {"contract", "proxy"} : \A e \in {"contract", "proxy"} : cp[x] <= cp[e]
<1>6. c \in {"contract", "proxy"} /\ \A e \in {"contract", "proxy"} : cp[c] <= cp[e]
  BY <1>5, Zenon
<1>7. LastHeight(cp, {"contract", "proxy"}) = cp[c]
  BY <1>3, Zenon DEF LastHeight
<1> HIDE DEF c
<1> QED
  BY <1>4, <1>6, <1>7, Zenon

(* The supply that the node reports is a Total, too.                       *)
LEMMA SupplyType ==
  ASSUME Heights, NEW h \in Int
  PROVE  Supply(h) \in Int
<1> DEFINE v == [a \in Addr |-> Balance(a, h)]
           P(g) == g = [T \in SUBSET Addr |-> IF T = {} THEN 0 ELSE g[T \ {One(T)}] + Balance(One(T), h)]
           Q(g) == g = [T \in SUBSET Addr |-> IF T = {} THEN 0 ELSE g[T \ {One(T)}] + v[One(T)]]
<1>1. \A T \in SUBSET Addr : T # {} => v[One(T)] = Balance(One(T), h)
  BY OneOf, Zenon
<1>2. \A g : P(g) <=> Q(g)
  BY <1>1, Zenon
<1>3. Supply(h) = (CHOOSE g : P(g))[Addr]
  BY Zenon DEF Supply, FoldSet, MapThenFoldSet, One
<1>4. Total(v, Addr) = (CHOOSE g : Q(g))[Addr]
  BY Zenon DEF Total
<1> HIDE DEF P, Q
<1>5. (CHOOSE g : P(g)) = (CHOOSE g : Q(g))
  BY <1>2, Zenon
<1>6. Supply(h) = Total(v, Addr)
  BY <1>3, <1>4, <1>5, Zenon
<1>7. \A a \in Addr : v[a] \in Int
  BY BalanceIsWorth, Zenon
<1> HIDE DEF v
<1> QED
  BY <1>6, <1>7, TokenAssumption, TotalType, Zenon
-----------------------------------------------------------------------------
(* The inductive invariant, first without the faults.                      *)
ContractRow == [id : Nat, track : BOOLEAN, supply : Reported, last : Int]

(* No job has passed a job it waits for, nor the crawler.                  *)
Checkpoints ==
    /\ crawled \in Int /\ crawled <= head
    /\ cp \in [Jobs -> Int]
    /\ StartBlock <= cp["balance"] /\ cp["balance"] <= cp["activity"]
    /\ cp["activity"] <= cp["contract"] /\ cp["activity"] <= cp["proxy"]
    /\ cp["contract"] <= crawled /\ cp["proxy"] <= crawled

(* The ids are of events in the blocks after lo, up to hi.                 *)
Known(ids, lo, hi) ==
    \A i \in ids : i \in DOMAIN events /\ lo < events[i].height /\ events[i].height <= hi

(* The rows of the tables.                                                 *)
Stored ==
    /\ contract = NoContract \/ contract \in ContractRow
    /\ BalanceRows(balances) /\ surplus \in Int
    /\ activity \in Seq(Nat) /\ Known(Range(activity), StartBlock, crawled)

(* HANDLE_ERC20_BALANCE holds activities, and later the rows to write.     *)
Writing == job.pc = "write" /\ job.acts # <<>>

(* The run of HANDLE_ERC20_BALANCE: its range and its activities.          *)
JobTyped ==
    \/ job = Idle
    \/ /\ job.pc \in {"read", "half", "write"} /\ job.acts \in Seq(Nat) /\ job.end \in Int
       /\ cp["balance"] < job.end /\ job.end <= cp["activity"]
       /\ Known(Range(job.acts), cp["balance"], job.end)
       /\ job.pc = "half" => job.acts # <<>>

(* The balances after the commit of that run.                              *)
Result == Merged(job.balances, balances)

(* The rows it has read are those of the table, and the sum of the rows    *)
(* after its commit follows the supply it has computed, as long as no      *)
(* reindexing has given the contract another row.                          *)
Computed ==
    /\ job.pc = "half" =>
          /\ BalanceRows(job.balances) /\ job.seen \in Nat /\ job.seen <= contract.id
          /\ job.seen = contract.id => job.balances = Only(balances, Parties(job.acts))
    /\ Writing =>
          /\ job.contract \in ContractRow /\ BalanceRows(job.balances) /\ job.surplus \in Int
          /\ job.contract.id <= contract.id
          /\ /\ job.seen = job.contract.id /\ job.contract.id = contract.id
             /\ "torn" \notin faults /\ job.contract.supply # Null
             => job.contract.supply = job.surplus + Sum(Result)

(* Without a row of erc20_contract there is nothing else of it.            *)
Nothing ==
    /\ balances = <<>> /\ activity = <<>> /\ reindex = NoReindex
    /\ job # Idle => job.acts = <<>>

(* All of it, with the supply in the tables.                               *)
Typed ==
    /\ Heights /\ Checkpoints /\ Stored /\ JobTyped /\ Computed
    /\ contract = NoContract => Nothing
    /\ SupplyFollowsBalances

(* The checkpoints of a typed state.                                       *)
LEMMA TypedFacts ==
  ASSUME Heights, Checkpoints
  PROVE  /\ StartBlock \in Nat /\ head \in Int /\ crawled \in Int /\ \A j \in Jobs : cp[j] \in Int
         /\ cp["balance"] \in Int /\ cp["activity"] \in Int /\ cp["contract"] \in Int /\ cp["proxy"] \in Int
         /\ \A j \in Jobs : StartBlock <= cp[j] /\ cp[j] >= 0 /\ cp[j] <= crawled
         /\ StartBlock <= crawled /\ crawled <= head
<1>1. StartBlock \in Nat /\ head \in Int /\ crawled \in Int /\ \A j \in Jobs : cp[j] \in Int
  BY StartBlockAssumption, Zenon DEF Heights, Checkpoints
<1>2. cp["balance"] \in Int /\ cp["activity"] \in Int /\ cp["contract"] \in Int /\ cp["proxy"] \in Int
  BY <1>1, Zenon DEF Jobs
<1> QED
  BY <1>1, <1>2 DEF Checkpoints, Jobs

(* No balances at all.                                                     *)
LEMMA EmptyRows == BalanceRows(<<>>) /\ Sum(<<>>) = 0 /\ DOMAIN <<>> = {}
<1>1. BalanceRows(<<>>) /\ DOMAIN <<>> = {}
  BY DEF BalanceRows
<1> QED
  BY <1>1, SumType, Zenon

(* Typed holds initially.                                                  *)
LEMMA InitTyped == Init => Typed
<1> SUFFICES ASSUME Init PROVE Typed
  BY Zenon
<1>1. Heights
  BY StartBlockAssumption DEF Init, Heights
<1>2. Checkpoints
  BY StartBlockAssumption DEF Init, Checkpoints, Jobs
<1>3. Stored
  <2>1. activity = <<>> /\ Range(<<>>) = {}
    BY DEF Init, Range
  <2> QED
    BY <2>1, EmptyRows DEF Init, Stored, Known
<1>4. JobTyped /\ Nothing
  BY Zenon DEF Init, JobTyped, Nothing
<1>5. Computed
  BY DEF Init, Computed, Writing, Idle
<1>6. SupplyFollowsBalances
  BY Zenon DEF Init, SupplyFollowsBalances
<1> QED
  BY <1>1, <1>2, <1>3, <1>4, <1>5, <1>6, Zenon DEF Typed

(* A finished job has computed nothing.                                    *)
LEMMA IdleComputed ==
  ASSUME job' = Idle
  PROVE  Computed'
  BY DEF Computed, Writing, Idle

(* What the job has read and computed is kept by steps that leave it, the  *)
(* balances and the id of the contract alone.                              *)
LEMMA ComputedStays ==
  ASSUME Typed, job' = job, balances' = balances, contract # NoContract => contract'.id = contract.id,
         job # Idle => Parties(job.acts)' = Parties(job.acts), "torn" \in faults => "torn" \in faults'
  PROVE  Computed'
<1>1. contract = NoContract => job = Idle \/ job.acts = <<>>
  BY Zenon DEF Typed, Nothing
<1>2. job = Idle => job.pc # "half" /\ job.pc # "write"
  BY DEF Idle
<1>3. ASSUME job.pc = "half"
      PROVE  contract'.id = contract.id /\ Parties(job.acts)' = Parties(job.acts)
  BY <1>1, <1>2, <1>3, Zenon DEF Typed, JobTyped
<1>4. ASSUME Writing
      PROVE  contract'.id = contract.id
  BY <1>1, <1>2, <1>4, Zenon DEF Writing
<1>5. Result' = Result
  BY Zenon DEF Result
<1>6. (job.pc = "half" =>
          /\ BalanceRows(job.balances) /\ job.seen \in Nat /\ job.seen <= contract.id
          /\ job.seen = contract.id => job.balances = Only(balances, Parties(job.acts)))'
  BY <1>3, Zenon DEF Typed, Computed
<1>7. (Writing =>
          /\ job.contract \in ContractRow /\ BalanceRows(job.balances) /\ job.surplus \in Int
          /\ job.contract.id <= contract.id
          /\ /\ job.seen = job.contract.id /\ job.contract.id = contract.id
             /\ "torn" \notin faults /\ job.contract.supply # Null
             => job.contract.supply = job.surplus + Sum(Result))'
  <2>1. Writing' = Writing
    BY Zenon DEF Writing
  <2> QED
    BY <1>4, <1>5, <2>1, Zenon DEF Typed, Computed
<1> QED
  BY <1>6, <1>7, Zenon DEF Computed

(* The parties of the activities stay what they are.                       *)
LEMMA SameParties ==
  ASSUME events' = events, job' = job
  PROVE  Parties(job.acts)' = Parties(job.acts)
  BY Zenon DEF Parties

(* Typed is kept by steps that leave blocks, rows and the job alone.       *)
LEMMA QuietTyped ==
  ASSUME Typed, UNCHANGED <<head, events, crawled, cp, rows, job, faults>>,
         reindex' = reindex \/ contract # NoContract
  PROVE  Typed'
<1>1. UNCHANGED <<head, events>> /\ crawled' = crawled /\ cp' = cp /\ contract' = contract
      /\ balances' = balances /\ activity' = activity /\ surplus' = surplus /\ job' = job
      /\ faults' = faults
  BY Zenon DEF rows
<1>2. Heights'
  BY <1>1, ChainStays, Zenon DEF Typed
<1>3. Checkpoints' /\ Stored' /\ JobTyped' /\ Computed'
  <2>1. Computed'
    BY <1>1, SameParties, ComputedStays, Zenon
  <2> QED
    BY <1>1, <2>1, Zenon DEF Typed, Checkpoints, Stored, JobTyped, Known
<1>4. (contract = NoContract => Nothing)'
  BY <1>1, Zenon DEF Typed, Nothing
<1>5. SupplyFollowsBalances'
  BY <1>1, Zenon DEF Typed, SupplyFollowsBalances
<1> QED
  BY <1>2, <1>3, <1>4, <1>5, Zenon DEF Typed

(* A block may begin without a special event.                              *)
LEMMA NoMoves == <<>> \in Seq(Move)
  OBVIOUS

(* Typed is kept by a new block.                                           *)
LEMMA NewBlockTyped ==
  ASSUME Typed, NewBlock
  PROVE  Typed' /\ Continues
<1>1. Grow(<<>>) /\ crawled' = crawled /\ cp' = cp /\ contract' = contract /\ reindex' = reindex
      /\ balances' = balances /\ activity' = activity /\ surplus' = surplus /\ job' = job
      /\ faults' = faults
  BY Zenon DEF NewBlock, rows, reindexing
<1>2. Heights
  BY Zenon DEF Typed
<1>3. Continues
  BY <1>1, <1>2, NoMoves, GrowContinues, Zenon
<1>4. Heights' /\ head' = head + 1 /\ head \in Int
  BY <1>2, <1>3, Zenon DEF Continues, Heights
<1>5. Checkpoints'
  BY <1>1, <1>4 DEF Typed, Checkpoints
<1>6. \A i \in DOMAIN events : i \in DOMAIN events' /\ events'[i] = events[i]
  BY <1>2, <1>3, ContinuesFacts, Zenon
<1>7. Stored'
  BY <1>1, <1>6, Zenon DEF Typed, Stored, Known
<1>8. JobTyped'
  BY <1>1, <1>6, Zenon DEF Typed, JobTyped, Known
<1>p. Computed'
  <2>1. ASSUME job # Idle
        PROVE  Parties(job.acts)' = Parties(job.acts)
    <3>1. \A i \in Range(job.acts) : events'[i] = events[i]
      BY <1>6, <2>1, Zenon DEF Typed, JobTyped, Known
    <3> QED
      BY <1>1, <3>1, Zenon DEF Parties
  <2> QED
    BY <1>1, <2>1, ComputedStays, Zenon
<1>9. (contract = NoContract => Nothing)'
  BY <1>1, Zenon DEF Typed, Nothing
<1>10. SupplyFollowsBalances'
  BY <1>1, Zenon DEF Typed, SupplyFollowsBalances
<1> QED
  BY <1>3, <1>4, <1>5, <1>7, <1>8, <1>p, <1>9, <1>10 DEF Typed

(* Typed is kept by the crawler of the contracts.                          *)
LEMMA CrawlTyped ==
  ASSUME Typed, CrawlContracts
  PROVE  Typed'
<1>1. UNCHANGED <<head, events>> /\ crawled' = crawled + 1 /\ crawled < head
      /\ cp' = cp /\ contract' = contract /\ reindex' = reindex
      /\ balances' = balances /\ activity' = activity /\ surplus' = surplus /\ job' = job
      /\ faults' = faults
  BY Zenon DEF CrawlContracts, rows, reindexing
<1>2. Heights /\ Heights' /\ head \in Int /\ crawled \in Int
  BY <1>1, ChainStays, Zenon DEF Typed, Checkpoints, Heights
<1>a. cp \in [Jobs -> Int] /\ cp["contract"] \in Int /\ cp["proxy"] \in Int
  BY Zenon DEF Typed, Checkpoints, Jobs
<1>3. Checkpoints'
  BY <1>1, <1>2, <1>a DEF Typed, Checkpoints
<1>4. \A i \in DOMAIN events : events[i].height \in Int
  BY <1>2, EventTyped, Zenon
<1>5. Known(Range(activity), StartBlock, crawled)'
  BY <1>1, <1>2, <1>4 DEF Typed, Stored, Known
<1>6. Stored'
  BY <1>1, <1>5, Zenon DEF Typed, Stored
<1>7. JobTyped' /\ Computed'
  <2>1. Computed'
    BY <1>1, SameParties, ComputedStays, Zenon
  <2> QED
    BY <1>1, <2>1, Zenon DEF Typed, JobTyped, Known
<1>8. (contract = NoContract => Nothing)'
  BY <1>1, Zenon DEF Typed, Nothing
<1>9. SupplyFollowsBalances'
  BY <1>1, Zenon DEF Typed, SupplyFollowsBalances
<1> QED
  BY <1>2, <1>3, <1>6, <1>7, <1>8, <1>9, Zenon DEF Typed

(* A row is only ever added, or replaced.                                  *)
LEMMA NotNoContract ==
  ASSUME NEW id, NEW t, NEW s, NEW l
  PROVE  [id |-> id, track |-> t, supply |-> s, last |-> l] # NoContract
<1>1. DOMAIN [id |-> id, track |-> t, supply |-> s, last |-> l] # DOMAIN NoContract
  BY DEF NoContract
<1> QED
  BY <1>1, Zenon

(* The upsert of erc20_contract keeps what is stored.                      *)
LEMMA UpsertStored ==
  ASSUME Typed, NEW last \in Int, Upsert(last), UNCHANGED <<head, events, crawled>>
  PROVE  /\ Stored' /\ contract' # NoContract /\ contract' \in ContractRow /\ contract'.track
         /\ SupplyFollowsBalances' /\ balances' = balances /\ activity' = activity
         /\ contract # NoContract => contract'.id = contract.id
         /\ "torn" \in faults => "torn" \in faults'
<1>1. PICK supply \in {Supply(head), Null}, id \in Nat :
         /\ contract # NoContract => id = contract.id
         /\ contract' = [id |-> id, track |-> TRUE, supply |-> supply, last |-> last]
         /\ surplus' = IF supply = Null THEN 0 ELSE supply - Sum(balances)
  <2>1. PICK supply \in {Supply(head), Null} :
           /\ contract' = [id |-> IF contract = NoContract THEN 1 ELSE contract.id,
                           track |-> TRUE, supply |-> supply, last |-> last]
           /\ surplus' = IF supply = Null THEN 0 ELSE supply - Sum(balances)
    BY Zenon DEF Upsert
  <2>2. PICK id \in Nat : id = IF contract = NoContract THEN 1 ELSE contract.id
    BY Zenon DEF Typed, Stored, ContractRow
  <2> QED
    BY <2>1, <2>2, Zenon
<1>2. balances' = balances /\ activity' = activity /\ ("torn" \in faults => "torn" \in faults')
  BY Zenon DEF Upsert
<1>3. BalanceRows(balances) /\ Sum(balances) \in Int /\ Heights /\ head \in Int
  BY SumType, Zenon DEF Typed, Stored, Heights
<1>4. supply \in Reported /\ (supply # Null => supply \in Int)
  BY <1>1, <1>3, SupplyType, Zenon DEF Reported
<1>5. /\ contract' \in ContractRow /\ contract'.track /\ contract'.supply = supply
      /\ contract # NoContract => contract'.id = contract.id
  BY <1>1, <1>4, Zenon DEF ContractRow
<1>6. contract' # NoContract
  BY <1>1, NotNoContract, Zenon
<1>7. surplus' \in Int /\ (supply # Null => supply = surplus' + Sum(balances))
  BY <1>1, <1>3, <1>4
<1>8. Stored'
  BY <1>2, <1>5, <1>7, Zenon DEF Typed, Stored, Known
<1> QED
  BY <1>2, <1>5, <1>6, <1>7, <1>8, Zenon DEF SupplyFollowsBalances

(* Typed is kept by HANDLE_ERC20_CONTRACT, whose checkpoint stays below    *)
(* the crawler's.                                                          *)
LEMMA ContractJobTyped ==
  ASSUME Typed, HandleErc20Contract
  PROVE  Typed'
<1>1. PICK end : end = EndHeight(cp["contract"], crawled, BlocksPerCall)
  BY Zenon
<1>2. /\ UNCHANGED <<head, events>> /\ crawled' = crawled /\ job' = job /\ reindex' = reindex
      /\ end > cp["contract"] /\ cp' = [cp EXCEPT !["contract"] = end]
      /\ Upsert(StartBlock + 1) \/ UNCHANGED <<rows, faults>>
  BY <1>1, Zenon DEF HandleErc20Contract, node, reindexing
<1>3. Heights /\ Heights' /\ Checkpoints
  BY <1>2, ChainStays, Zenon DEF Typed
<1>4. end \in Int /\ end <= crawled
  <2>1. cp["contract"] \in Int /\ crawled \in Int /\ crawled >= 0
    BY <1>3, TypedFacts
  <2> QED
    BY <1>1, <2>1, EndFacts, Zenon
<1>5. Checkpoints' /\ cp'["balance"] = cp["balance"] /\ cp'["activity"] = cp["activity"]
  BY <1>2, <1>3, <1>4, TypedFacts DEF Checkpoints, Jobs
<1>6. JobTyped'
  BY <1>2, <1>5, Zenon DEF Typed, JobTyped, Known
<1>7. CASE Upsert(StartBlock + 1)
  <2>1. StartBlock + 1 \in Int
    BY StartBlockAssumption
  <2>2. /\ Stored' /\ contract' # NoContract /\ SupplyFollowsBalances' /\ balances' = balances
        /\ contract # NoContract => contract'.id = contract.id
        /\ "torn" \in faults => "torn" \in faults'
    BY <1>2, <1>7, <2>1, UpsertStored, Zenon
  <2>3. Computed'
    BY <1>2, <2>2, SameParties, ComputedStays, Zenon
  <2> QED
    BY <1>3, <1>5, <1>6, <2>2, <2>3, Zenon DEF Typed
<1>8. CASE UNCHANGED <<rows, faults>>
  <2>1. contract' = contract /\ balances' = balances /\ activity' = activity /\ surplus' = surplus
        /\ faults' = faults
    BY <1>8, Zenon DEF rows
  <2>c. Computed'
    BY <1>2, <2>1, SameParties, ComputedStays, Zenon
  <2>2. Stored'
    BY <1>2, <2>1, Zenon DEF Typed, Stored, Known
  <2>3. (contract = NoContract => Nothing)' /\ SupplyFollowsBalances'
    BY <1>2, <2>1, Zenon DEF Typed, Nothing, SupplyFollowsBalances
  <2> QED
    BY <1>3, <1>5, <1>6, <2>c, <2>2, <2>3, Zenon DEF Typed
<1> QED
  BY <1>2, <1>7, <1>8, Zenon

(* Typed is kept by HANDLE_EVM_PROXY_HISTORY.                              *)
LEMMA ProxyJobTyped ==
  ASSUME Typed, HandleProxyHistory
  PROVE  Typed'
<1>1. PICK end : end = EndHeight(cp["proxy"], crawled, BlocksPerCall)
  BY Zenon
<1>2. /\ UNCHANGED <<head, events>> /\ crawled' = crawled /\ job' = job /\ reindex' = reindex
      /\ end > cp["proxy"] /\ cp' = [cp EXCEPT !["proxy"] = end]
      /\ contract' = contract /\ balances' = balances /\ activity' = activity /\ surplus' = surplus
      /\ faults' = faults
  BY <1>1, Zenon DEF HandleProxyHistory, node, reindexing, rows
<1>3. Heights /\ Heights' /\ Checkpoints
  BY <1>2, ChainStays, Zenon DEF Typed
<1>4. end \in Int /\ end <= crawled
  <2>1. cp["proxy"] \in Int /\ crawled \in Int /\ crawled >= 0
    BY <1>3, TypedFacts
  <2> QED
    BY <1>1, <2>1, EndFacts, Zenon
<1>5. Checkpoints' /\ cp'["balance"] = cp["balance"] /\ cp'["activity"] = cp["activity"]
  BY <1>2, <1>3, <1>4, TypedFacts DEF Checkpoints, Jobs
<1>6. JobTyped' /\ Computed'
  <2>1. Computed'
    BY <1>2, SameParties, ComputedStays, Zenon
  <2> QED
    BY <1>2, <1>5, <2>1, Zenon DEF Typed, JobTyped, Known
<1>7. Stored'
  BY <1>2, Zenon DEF Typed, Stored, Known
<1>8. (contract = NoContract => Nothing)' /\ SupplyFollowsBalances'
  BY <1>2, Zenon DEF Typed, Nothing, SupplyFollowsBalances
<1> QED
  BY <1>3, <1>5, <1>6, <1>7, <1>8 DEF Typed

(* Typed is kept by the call insertNewErc20Contracts.                      *)
LEMMA InsertTyped ==
  ASSUME Typed, InsertNewErc20Contracts
  PROVE  Typed'
<1>1. /\ UNCHANGED <<head, events>> /\ crawled' = crawled /\ job' = job /\ reindex' = reindex /\ cp' = cp
      /\ Upsert(head)
  BY Zenon DEF InsertNewErc20Contracts, node, reindexing
<1>2. Heights /\ Heights' /\ Checkpoints /\ Checkpoints' /\ head \in Int
  BY <1>1, ChainStays, Zenon DEF Typed, Checkpoints, Heights
<1>3. JobTyped'
  BY <1>1, Zenon DEF Typed, JobTyped, Known
<1>4. /\ Stored' /\ contract' # NoContract /\ SupplyFollowsBalances' /\ balances' = balances
      /\ contract # NoContract => contract'.id = contract.id
      /\ "torn" \in faults => "torn" \in faults'
  BY <1>1, <1>2, UpsertStored, Zenon
<1>5. Computed'
  BY <1>1, <1>4, SameParties, ComputedStays, Zenon
<1> QED
  BY <1>2, <1>3, <1>4, <1>5, Zenon DEF Typed

(* The range of HANDLE_ERC20_ACTIVITY and the rows that it adds.           *)
LEMMA ActivityJobFacts ==
  ASSUME Typed, HandleErc20Activity
  PROVE  \E end \in Int :
            /\ cp["activity"] < end /\ end <= cp["contract"] /\ end <= cp["proxy"]
            /\ cp' = [cp EXCEPT !["activity"] = end]
            /\ faults' = IF contract = NoContract /\ InBlocks(cp["activity"], end) # {}
                         THEN faults \cup {"late"} ELSE faults
            /\ \E new \in Seq(Nat) :
                  /\ activity' = activity \o new /\ activity' \in Seq(Nat)
                  /\ Range(activity') = Range(activity) \cup Range(new)
                  /\ new = BuildErc20Activities(cp["activity"], end)
                  /\ IncreasingOn(new, Nat) /\ Range(new) \subseteq InBlocks(cp["activity"], end)
                  /\ contract # NoContract => Range(new) = InBlocks(cp["activity"], end)
                  /\ contract = NoContract => new = <<>>
<1>1. Heights /\ Checkpoints /\ activity \in Seq(Nat)
  BY Zenon DEF Typed, Stored
<1>2. PICK last : last = LastHeight(cp, {"contract", "proxy"}) /\ last \in Int /\ last >= 0
                  /\ last <= cp["contract"] /\ last <= cp["proxy"]
  BY <1>1, TypedFacts, LastHeightFacts, Zenon DEF Checkpoints, Jobs
<1>3. PICK end \in Int : end = End("activity", {"contract", "proxy"}) /\ end <= last
  BY <1>1, <1>2, TypedFacts, EndFacts, Zenon DEF End
<1>4. PICK new : new = BuildErc20Activities(cp["activity"], end)
  BY Zenon
<1>5. /\ end > cp["activity"] /\ activity' = activity \o new /\ cp' = [cp EXCEPT !["activity"] = end]
      /\ faults' = IF contract = NoContract /\ InBlocks(cp["activity"], end) # {}
                   THEN faults \cup {"late"} ELSE faults
  BY <1>3, <1>4, Zenon DEF HandleErc20Activity
<1>6. cp["activity"] < end /\ end <= cp["contract"] /\ end <= cp["proxy"]
  BY <1>1, <1>2, <1>3, <1>5, TypedFacts
<1>7. PICK ids : ids = InBlocks(cp["activity"], end)
  OBVIOUS
<1>8. PICK n \in Nat : DOMAIN events = 1 .. n
  BY <1>1, EventTyped, Zenon
<1>9. ids \subseteq 1 .. n
  BY <1>7, <1>8, Zenon DEF InBlocks
<1>10. /\ new \in Seq(1 .. n) /\ Range(new) \subseteq ids /\ IncreasingOn(new, ids)
       /\ contract # NoContract => Range(new) = ids
       /\ contract = NoContract => new = <<>>
  <2>1. CASE contract = NoContract
    <3>1. new = <<>>
      BY <1>4, <2>1, Zenon DEF BuildErc20Activities
    <3>2. Range(<<>>) = {} /\ DOMAIN <<>> = {}
      BY DEF Range
    <3> QED
      BY <2>1, <3>1, <3>2 DEF IncreasingOn
  <2>2. CASE contract # NoContract
    <3>1. new = InOrder(ids)
      BY <1>4, <1>7, <2>2, Zenon DEF BuildErc20Activities
    <3>2. InOrder(ids) \in Seq(1 .. n) /\ Range(InOrder(ids)) = ids \cap 1 .. n /\ IncreasingOn(InOrder(ids), ids)
      BY <1>8, InOrderFacts, Zenon
    <3> QED
      BY <1>9, <2>2, <3>1, <3>2, Zenon
  <2> QED
    BY <2>1, <2>2, Zenon
<1>11. new \in Seq(Nat)
  BY <1>8, <1>10
<1>12. IncreasingOn(new, Nat)
  <2>1. \A k \in DOMAIN new : new[k] \in ids
    BY <1>10, InRange, Zenon
  <2> QED
    BY <1>10, <2>1, Zenon DEF IncreasingOn
<1>13. activity' \in Seq(Nat) /\ Range(activity') = Range(activity) \cup Range(new)
  BY <1>1, <1>5, <1>11, RangeConcat
<1> QED
  BY <1>4, <1>5, <1>6, <1>7, <1>10, <1>11, <1>12, <1>13, ZenonT(40)

(* Typed is kept by HANDLE_ERC20_ACTIVITY, which passes neither of the     *)
(* jobs it waits for.                                                      *)
LEMMA ActivityJobTyped ==
  ASSUME Typed, HandleErc20Activity
  PROVE  Typed'
<1>1. PICK end \in Int :
         /\ cp["activity"] < end /\ end <= cp["contract"] /\ end <= cp["proxy"]
         /\ cp' = [cp EXCEPT !["activity"] = end]
         /\ \E new \in Seq(Nat) :
               /\ activity' \in Seq(Nat) /\ Range(activity') = Range(activity) \cup Range(new)
               /\ activity' = activity \o new
               /\ Range(new) \subseteq InBlocks(cp["activity"], end)
               /\ contract = NoContract => new = <<>>
  BY ActivityJobFacts, Zenon
<1>2. PICK new \in Seq(Nat) :
         /\ activity' \in Seq(Nat) /\ Range(activity') = Range(activity) \cup Range(new)
         /\ activity' = activity \o new
         /\ Range(new) \subseteq InBlocks(cp["activity"], end)
         /\ contract = NoContract => new = <<>>
  BY <1>1, Zenon
<1>3. /\ UNCHANGED <<head, events>> /\ crawled' = crawled /\ job' = job /\ reindex' = reindex
      /\ contract' = contract /\ balances' = balances /\ surplus' = surplus
      /\ "torn" \in faults => "torn" \in faults'
  BY Zenon DEF HandleErc20Activity, node, reindexing
<1>4. Heights /\ Heights' /\ Checkpoints
  BY <1>3, ChainStays, Zenon DEF Typed
<1>5. Checkpoints' /\ cp'["balance"] = cp["balance"] /\ cp'["activity"] = end
  BY <1>1, <1>3, <1>4, TypedFacts DEF Checkpoints, Jobs
<1>6. Known(Range(activity), StartBlock, crawled)'
  <2>1. \A i \in DOMAIN events : events[i].height \in Int
    BY <1>4, EventTyped, Zenon
  <2>2. StartBlock <= cp["activity"] /\ end <= crawled /\ StartBlock \in Int /\ crawled \in Int /\ cp["activity"] \in Int
    BY <1>1, <1>4, TypedFacts DEF Jobs
  <2>3. \A i \in Range(new) : i \in DOMAIN events /\ StartBlock < events[i].height /\ events[i].height <= crawled
    BY <1>2, <2>1, <2>2 DEF InBlocks
  <2> QED
    BY <1>2, <1>3, <2>3, Zenon DEF Typed, Stored, Known
<1>7. Stored'
  BY <1>2, <1>3, <1>6, Zenon DEF Typed, Stored
<1>8. JobTyped'
  <2>1. job # Idle => job.end <= end
    BY <1>1, <1>4, TypedFacts DEF Typed, JobTyped
  <2> QED
    BY <1>3, <1>5, <2>1, Zenon DEF Typed, JobTyped, Known
<1>c. Computed'
  BY <1>3, SameParties, ComputedStays, Zenon
<1>9. (contract = NoContract => Nothing)'
  <2>1. ASSUME contract = NoContract PROVE activity' = <<>>
    <3>1. activity = <<>> /\ new = <<>>
      BY <1>2, <2>1, Zenon DEF Typed, Nothing
    <3> QED
      BY <1>2, <3>1
  <2> QED
    BY <1>3, <2>1, Zenon DEF Typed, Nothing
<1>10. SupplyFollowsBalances'
  BY <1>3, Zenon DEF Typed, SupplyFollowsBalances
<1> QED
  BY <1>4, <1>5, <1>7, <1>8, <1>c, <1>9, <1>10, Zenon DEF Typed

(* What BalanceStart reads.                                                *)
LEMMA StartFacts ==
  ASSUME Typed, BalanceStart
  PROVE  \E end \in Int, acts \in Seq(Nat) :
            /\ cp["balance"] < end /\ end <= cp["activity"]
            /\ job' = [pc |-> "read", acts |-> acts, end |-> end]
            /\ Range(acts) \subseteq InBlocks(cp["balance"], end)
            /\ Tracked => Range(acts) = Range(activity) \cap InBlocks(cp["balance"], end)
            /\ ~ Tracked => acts = <<>>
            /\ IncreasingOn(activity, Nat) => IncreasingOn(acts, Nat)
<1>1. Heights /\ Checkpoints /\ activity \in Seq(Nat)
  BY DEF Typed, Stored
<1>2. LastHeight(cp, {"activity"}) = cp["activity"] /\ cp["activity"] \in Int /\ cp["activity"] >= 0
  BY <1>1, TypedFacts, LastHeightFacts, Zenon DEF Checkpoints, Jobs
<1>3. PICK end \in Int : end = End("balance", {"activity"}) /\ end <= cp["activity"]
  BY <1>1, <1>2, TypedFacts, EndFacts, Zenon DEF End
<1>4. PICK ids : ids = InBlocks(cp["balance"], end)
  BY Zenon
<1>5. PICK acts : acts = IF ~ Tracked THEN <<>> ELSE Those(activity, ids)
  BY Zenon
<1>6. cp["balance"] < end /\ job' = [pc |-> "read", acts |-> acts, end |-> end]
  <2>1. end > cp["balance"] /\ job' = [pc |-> "read", acts |-> acts, end |-> end]
    BY <1>3, <1>4, <1>5, Zenon DEF BalanceStart
  <2> QED
    BY <1>1, <2>1, TypedFacts, Zenon
<1>7. CASE ~ Tracked
  <2>1. acts = <<>> /\ Range(<<>>) = {} /\ DOMAIN <<>> = {} /\ <<>> \in Seq(Nat)
    BY <1>5, <1>7 DEF Range
  <2>2. IncreasingOn(acts, Nat)
    BY <2>1, Zenon DEF IncreasingOn
  <2> QED
    BY <1>3, <1>4, <1>6, <1>7, <2>1, <2>2, Zenon
<1>8. CASE Tracked
  <2>1. acts = Those(activity, ids)
    BY <1>5, <1>8, Zenon
  <2>2. /\ acts \in Seq(Nat) /\ Range(acts) = Range(activity) \cap ids
        /\ IncreasingOn(activity, ids) => IncreasingOn(acts, ids)
    <3>1. /\ Those(activity, ids) \in Seq(Nat) /\ Range(Those(activity, ids)) = Range(activity) \cap ids
          /\ Nat \subseteq Int /\ IncreasingOn(activity, ids) => IncreasingOn(Those(activity, ids), ids)
      BY <1>1, ThoseFacts, Zenon
    <3> QED
      BY <2>1, <3>1
  <2>3. IncreasingOn(activity, Nat) => IncreasingOn(activity, ids)
    BY <1>1 DEF IncreasingOn
  <2>4. IncreasingOn(acts, ids) => IncreasingOn(acts, Nat)
    <3>1. \A k \in DOMAIN acts : acts[k] \in ids
      BY <2>2, InRange, Zenon
    <3> QED
      BY <3>1, Zenon DEF IncreasingOn
  <2> QED
    BY <1>3, <1>4, <1>6, <1>8, <2>2, <2>3, <2>4, ZenonT(40)
<1> QED
  BY <1>7, <1>8, Zenon

(* Typed is kept by the first query of HANDLE_ERC20_BALANCE.               *)
LEMMA BalanceStartTyped ==
  ASSUME Typed, BalanceStart
  PROVE  Typed'
<1>1. PICK end \in Int, acts \in Seq(Nat) :
         /\ cp["balance"] < end /\ end <= cp["activity"]
         /\ job' = [pc |-> "read", acts |-> acts, end |-> end]
         /\ Range(acts) \subseteq InBlocks(cp["balance"], end)
         /\ ~ Tracked => acts = <<>>
  BY StartFacts, Zenon
<1>2. /\ UNCHANGED <<head, events>> /\ crawled' = crawled /\ cp' = cp /\ reindex' = reindex
      /\ contract' = contract /\ balances' = balances /\ activity' = activity /\ surplus' = surplus
      /\ faults' = faults
  BY Zenon DEF BalanceStart, node, reindexing, rows
<1>3. Heights' /\ Checkpoints' /\ Stored'
  <2>1. Heights'
    BY <1>2, ChainStays, Zenon DEF Typed
  <2> QED
    BY <1>2, <2>1, Zenon DEF Typed, Checkpoints, Stored, Known
<1>4. job'.pc = "read" /\ job'.acts = acts /\ job'.end = end
  BY <1>1, Zenon
<1>5. JobTyped' /\ Computed'
  <2>1. JobTyped'
    BY <1>1, <1>2, <1>4, Zenon DEF JobTyped, Known, InBlocks
  <2>2. job'.pc # "half" /\ job'.pc # "write"
    BY <1>4
  <2> QED
    BY <2>1, <2>2, Zenon DEF Computed, Writing
<1>6. (contract = NoContract => Nothing)'
  BY <1>1, <1>2, <1>4, Zenon DEF Typed, Nothing, Tracked
<1>7. SupplyFollowsBalances'
  BY <1>2, Zenon DEF Typed, SupplyFollowsBalances
<1> QED
  BY <1>3, <1>5, <1>6, <1>7, Zenon DEF Typed

(* The activities that the job holds, as a sequence of events.             *)
LEMMA JobFacts ==
  ASSUME Typed, job # Idle
  PROVE  /\ job.pc \in {"read", "half", "write"} /\ job.acts \in Seq(Nat) /\ job.end \in Int
         /\ cp["balance"] < job.end /\ job.end <= cp["activity"]
         /\ job.acts \in Seq(DOMAIN events)
         /\ Range(job.acts) \subseteq InBlocks(cp["balance"], job.end)
<1>1. /\ job.pc \in {"read", "half", "write"} /\ job.acts \in Seq(Nat) /\ job.end \in Int
      /\ cp["balance"] < job.end /\ job.end <= cp["activity"]
      /\ Known(Range(job.acts), cp["balance"], job.end)
  BY Zenon DEF Typed, JobTyped
<1>2. Range(job.acts) \subseteq InBlocks(cp["balance"], job.end)
  BY <1>1, Zenon DEF Known, InBlocks
<1>3. \A k \in 1 .. Len(job.acts) : job.acts[k] \in DOMAIN events
  <2>1. \A k \in DOMAIN job.acts : job.acts[k] \in Range(job.acts)
    BY InRange, Zenon
  <2> QED
    BY <1>1, <2>1 DEF Known
<1>4. PICK E : E = DOMAIN events
  BY Zenon
<1>5. job.acts \in Seq(E)
  BY <1>1, <1>3, <1>4, SeqOf, Zenon
<1> QED
  BY <1>1, <1>2, <1>4, <1>5

(* What the first query of the transaction reads.                          *)
LEMMA ReadFacts ==
  ASSUME Typed, BalanceRead
  PROVE  /\ job # Idle /\ job.pc = "read" /\ job'.acts = job.acts /\ job'.end = job.end /\ job' # Idle
         /\ job.acts = <<>> => job'.pc = "write"
         /\ job.acts # <<>> =>
              /\ contract \in ContractRow /\ job'.pc = "half" /\ job'.seen = contract.id
              /\ job'.balances = Only(balances, Parties(job.acts))
<1>1. job.pc = "read" /\ job # Idle
  BY DEF BalanceRead, Idle
<1>2. CASE job.acts = <<>>
  <2>1. job' = [pc |-> "write", acts |-> <<>>, end |-> job.end]
    BY <1>2, Zenon DEF BalanceRead
  <2>2. job'.pc = "write" /\ job'.acts = <<>> /\ job'.end = job.end
    BY <2>1, Zenon
  <2>3. job' # Idle
    BY <2>2 DEF Idle
  <2> QED
    BY <1>1, <1>2, <2>2, <2>3, Zenon
<1>3. CASE job.acts # <<>>
  <2>1. job' = [pc |-> "half", acts |-> job.acts, end |-> job.end,
                balances |-> Only(balances, Parties(job.acts)), seen |-> contract.id]
    BY <1>3, Zenon DEF BalanceRead
  <2>2. /\ job'.pc = "half" /\ job'.acts = job.acts /\ job'.end = job.end /\ job'.seen = contract.id
        /\ job'.balances = Only(balances, Parties(job.acts))
    BY <2>1, Zenon
  <2>3. job' # Idle
    BY <2>2 DEF Idle
  <2>4. contract \in ContractRow
    BY <1>1, <1>3, Zenon DEF Typed, Nothing, Stored
  <2> QED
    BY <1>1, <1>3, <2>2, <2>3, <2>4, Zenon
<1> QED
  BY <1>2, <1>3, Zenon

(* Typed is kept by that query.                                            *)
LEMMA BalanceReadTyped ==
  ASSUME Typed, BalanceRead
  PROVE  Typed'
<1>1. /\ UNCHANGED <<head, events>> /\ crawled' = crawled /\ cp' = cp /\ reindex' = reindex /\ faults' = faults
      /\ contract' = contract /\ balances' = balances /\ activity' = activity /\ surplus' = surplus
  BY Zenon DEF BalanceRead, node, reindexing, rows
<1>2. Heights' /\ Checkpoints' /\ Stored'
  <2>1. Heights'
    BY <1>1, ChainStays, Zenon DEF Typed
  <2> QED
    BY <1>1, <2>1, Zenon DEF Typed, Checkpoints, Stored, Known
<1>3. job # Idle /\ job'.acts = job.acts /\ job'.end = job.end /\ job' # Idle
  BY ReadFacts, Zenon
<1>4. CASE job.acts = <<>>
  <2>1. job'.pc = "write" /\ job'.pc # "half"
    BY <1>4, ReadFacts
  <2>2. JobTyped' /\ Computed'
    BY <1>1, <1>3, <1>4, <2>1, Zenon DEF Typed, JobTyped, Known, Computed, Writing
  <2>3. (contract = NoContract => Nothing)' /\ SupplyFollowsBalances'
    BY <1>1, <1>3, Zenon DEF Typed, Nothing, SupplyFollowsBalances
  <2> QED
    BY <1>2, <2>2, <2>3, Zenon DEF Typed
<1>5. CASE job.acts # <<>>
  <2>1. /\ contract \in ContractRow /\ job'.pc = "half" /\ job'.seen = contract.id
        /\ job'.balances = Only(balances, Parties(job.acts))
    BY <1>5, ReadFacts, Zenon
  <2>2. JobTyped'
    BY <1>1, <1>3, <1>5, <2>1, Zenon DEF Typed, JobTyped, Known
  <2>3. BalanceRows(job'.balances) /\ contract.id \in Nat /\ contract.id <= contract.id
    <3>1. BalanceRows(Only(balances, Parties(job.acts)))
      BY PartRows, Zenon DEF Typed, Stored
    <3>2. contract.id \in Nat
      BY <2>1, Zenon DEF ContractRow
    <3> QED
      BY <2>1, <3>1, <3>2
  <2>4. job'.balances = Only(balances', Parties(job.acts)')
    <3>1. Parties(job.acts)' = Parties(job.acts)
      BY <1>1, <1>3, Zenon DEF Parties
    <3> QED
      BY <1>1, <2>1, <3>1, Zenon
  <2>5. ~ Writing'
    BY <2>1 DEF Writing
  <2>6. Computed'
    BY <1>1, <2>1, <2>3, <2>4, <2>5, Zenon DEF Computed
  <2>7. (contract = NoContract => Nothing)' /\ SupplyFollowsBalances'
    BY <1>1, <1>3, Zenon DEF Typed, Nothing, SupplyFollowsBalances
  <2> QED
    BY <1>2, <2>2, <2>6, <2>7, Zenon DEF Typed
<1> QED
  BY <1>4, <1>5, Zenon

(* What the job holds between its two queries.                             *)
LEMMA HalfFacts ==
  ASSUME Typed, job.pc = "half"
  PROVE  /\ job # Idle /\ job.acts # <<>> /\ job.acts \in Seq(DOMAIN events)
         /\ contract \in ContractRow /\ contract # NoContract /\ BalanceRows(job.balances)
         /\ job.seen \in Nat /\ job.seen <= contract.id
         /\ job.seen = contract.id => job.balances = Only(balances, Parties(job.acts))
<1>1. job # Idle
  BY DEF Idle
<1>2. job.acts # <<>>
  BY <1>1, Zenon DEF Typed, JobTyped
<1>3. contract \in ContractRow
  BY <1>1, <1>2, Zenon DEF Typed, Nothing, Stored
<1>4. contract # NoContract
  BY <1>3, NotNoContract, Zenon DEF ContractRow
<1> QED
  BY <1>1, <1>2, <1>3, <1>4, JobFacts, Zenon DEF Typed, Computed

(* What it computes once it has read the contract.  If the contract still  *)
(* has the row it had at the first query, the balances after the commit    *)
(* are those that all rows would have given.                               *)
LEMMA ProcessFacts ==
  ASSUME Typed, BalanceProcess
  PROVE  /\ job.pc = "half" /\ job'.pc = "write" /\ job' # Idle
         /\ job'.acts = job.acts /\ job'.end = job.end /\ job'.seen = job.seen
         /\ contract' = contract /\ balances' = balances /\ events' = events /\ faults' = faults
         /\ job'.contract \in ContractRow /\ job'.contract.id = contract.id
         /\ job'.contract.track = contract.track
         /\ BalanceRows(job'.balances) /\ job'.surplus = surplus
         /\ job.seen = contract.id =>
              LET u == Processed(contract.supply, balances, job.acts)
              IN  /\ u.ok /\ job'.contract.supply = u.supply /\ Result' = u.balances
<1>1. PICK u : u = Processed(contract.supply, job.balances, job.acts)
  BY Zenon
<1>2. /\ job.pc = "half" /\ u.ok
      /\ job' = [pc |-> "write", acts |-> job.acts, end |-> job.end,
                 contract |-> [contract EXCEPT !.supply = u.supply],
                 balances |-> u.balances, surplus |-> surplus, seen |-> job.seen]
      /\ contract' = contract /\ balances' = balances /\ events' = events /\ faults' = faults
  BY <1>1, Zenon DEF BalanceProcess, node, rows
<1>3. /\ job.acts \in Seq(DOMAIN events) /\ contract \in ContractRow /\ BalanceRows(job.balances)
      /\ job.seen = contract.id => job.balances = Only(balances, Parties(job.acts))
  BY <1>2, HalfFacts, Zenon
<1>4. Heights /\ BalanceRows(balances) /\ contract.supply \in Reported
  BY <1>3, Zenon DEF Typed, Stored, ContractRow
<1>5. Accumulator(u) /\ u.supply \in Reported /\ BalanceRows(u.balances)
  <2>1. Accumulator(u)
    BY <1>1, <1>3, <1>4, ProcessedSums, Zenon
  <2> QED
    BY <2>1, AccumulatorParts, Zenon
<1>6. PICK c : c = [contract EXCEPT !.supply = u.supply]
  BY Zenon
<1>7. c \in ContractRow /\ c.id = contract.id /\ c.track = contract.track /\ c.supply = u.supply
  BY <1>3, <1>5, <1>6, Zenon DEF ContractRow
<1>8. /\ job'.pc = "write" /\ job'.acts = job.acts /\ job'.end = job.end /\ job'.contract = c
      /\ job'.balances = u.balances /\ job'.surplus = surplus /\ job'.seen = job.seen
  BY <1>2, <1>6, Zenon
<1>9. job' # Idle
  BY <1>8 DEF Idle
<1>10. ASSUME job.seen = contract.id
       PROVE  LET v == Processed(contract.supply, balances, job.acts)
              IN  v.ok /\ c.supply = v.supply /\ Result' = v.balances
  <2>1. PICK v : v = Processed(contract.supply, balances, job.acts)
    BY Zenon
  <2>2. Framed(u, v, balances)
    BY <1>1, <1>3, <1>4, <1>10, <2>1, ProcessedFrame, Zenon
  <2>3. v.ok /\ c.supply = v.supply /\ Merged(u.balances, balances) = v.balances
    BY <1>2, <1>7, <2>2, Zenon DEF Framed
  <2> QED
    BY <1>2, <1>8, <2>1, <2>3, Zenon DEF Result
<1> QED
  BY <1>2, <1>5, <1>7, <1>8, <1>9, <1>10, ZenonT(40)

(* Typed is kept by the computation of the new rows: supply and balances   *)
(* move together.                                                          *)
LEMMA BalanceProcessTyped ==
  ASSUME Typed, BalanceProcess
  PROVE  Typed'
<1>1. /\ UNCHANGED <<head, events>> /\ crawled' = crawled /\ cp' = cp /\ reindex' = reindex /\ faults' = faults
      /\ contract' = contract /\ balances' = balances /\ activity' = activity /\ surplus' = surplus
  BY Zenon DEF BalanceProcess, node, reindexing, rows
<1>2. Heights' /\ Checkpoints' /\ Stored'
  <2>1. Heights'
    BY <1>1, ChainStays, Zenon DEF Typed
  <2> QED
    BY <1>1, <2>1, Zenon DEF Typed, Checkpoints, Stored, Known
<1>3. /\ job.pc = "half" /\ job'.pc = "write" /\ job' # Idle
      /\ job'.acts = job.acts /\ job'.end = job.end /\ job'.seen = job.seen
      /\ job'.contract \in ContractRow /\ job'.contract.id = contract.id
      /\ BalanceRows(job'.balances) /\ job'.surplus = surplus
  BY ProcessFacts, Zenon
<1>4. job # Idle /\ job.acts \in Seq(DOMAIN events) /\ contract \in ContractRow /\ contract # NoContract
  BY <1>3, HalfFacts, Zenon
<1>5. JobTyped'
  <2>1. job'.pc # "half"
    BY <1>3
  <2> QED
    BY <1>1, <1>3, <1>4, <2>1, Zenon DEF Typed, JobTyped, Known
<1>6. ASSUME job.seen = contract.id, "torn" \notin faults, job'.contract.supply # Null
      PROVE  job'.contract.supply = surplus + Sum(Result')
  <2>1. PICK u : u = Processed(contract.supply, balances, job.acts)
    BY Zenon
  <2>2. job'.contract.supply = u.supply /\ Result' = u.balances
    BY <1>6, <2>1, ProcessFacts, Zenon
  <2>3. contract.supply \in Reported /\ surplus \in Int /\ BalanceRows(balances) /\ Heights
    BY <1>4, Zenon DEF ContractRow, Typed, Stored
  <2>4. /\ Accumulator(u) /\ (u.supply = Null <=> contract.supply = Null)
        /\ contract.supply # Null => Excess(u) = contract.supply - Sum(balances)
    BY <1>4, <2>1, <2>3, ProcessedSums, Zenon
  <2>5. u.supply \in Reported /\ Sum(u.balances) \in Int /\ Sum(balances) \in Int
    BY <2>3, <2>4, AccumulatorParts, SumType, Zenon
  <2>6. contract.supply # Null => contract.supply = surplus + Sum(balances)
    BY <1>4, <1>6, Zenon DEF Typed, SupplyFollowsBalances
  <2>7. u.supply # Null => u.supply = surplus + Sum(u.balances)
    BY <2>3, <2>4, <2>5, <2>6 DEF Excess, Reported
  <2> QED
    BY <1>6, <2>2, <2>7, Zenon
<1>7. Computed'
  <2>1. job'.pc # "half"
    BY <1>3
  <2>2. surplus \in Int /\ contract.id <= contract.id
    <3>1. surplus \in Int /\ contract.id \in Nat
      BY <1>4, Zenon DEF Typed, Stored, ContractRow
    <3> QED
      BY <3>1
  <2> QED
    BY <1>1, <1>3, <1>6, <2>1, <2>2, Zenon DEF Computed
<1>8. (contract = NoContract => Nothing)' /\ SupplyFollowsBalances'
  BY <1>1, <1>4, Zenon DEF Typed, SupplyFollowsBalances
<1> QED
  BY <1>2, <1>5, <1>7, <1>8, Zenon DEF Typed

(* Typed is kept by the commit of HANDLE_ERC20_BALANCE.                    *)
LEMMA BalanceWriteTyped ==
  ASSUME Typed, BalanceWrite
  PROVE  Typed'
<1>1. /\ UNCHANGED <<head, events>> /\ crawled' = crawled /\ reindex' = reindex /\ activity' = activity
      /\ job.pc = "write" /\ job' = Idle /\ cp' = [cp EXCEPT !["balance"] = job.end]
  BY Zenon DEF BalanceWrite, node, reindexing
<1>2. Heights /\ Heights' /\ Checkpoints /\ job # Idle
  BY <1>1, ChainStays DEF Typed, Idle
<1>3. job.end \in Int /\ cp["balance"] < job.end /\ job.end <= cp["activity"]
  BY <1>2, JobFacts, Zenon
<1>4. Checkpoints'
  BY <1>1, <1>2, <1>3, TypedFacts DEF Checkpoints, Jobs
<1>5. JobTyped'
  BY <1>1, Zenon DEF JobTyped
<1>6. CASE job.acts = <<>>
  <2>1. contract' = contract /\ balances' = balances /\ surplus' = surplus /\ faults' = faults
    BY <1>6, Zenon DEF BalanceWrite
  <2>2. Stored' /\ (contract = NoContract => Nothing)' /\ SupplyFollowsBalances'
    BY <1>1, <2>1, Zenon DEF Typed, Stored, Known, Nothing, SupplyFollowsBalances
  <2> QED
    BY <1>1, <1>2, <1>4, <1>5, <2>2, IdleComputed, Zenon DEF Typed
<1>7. CASE job.acts # <<>>
  <2>1. /\ contract' = job.contract /\ balances' = Result /\ surplus' = job.surplus
        /\ contract.id = job.contract.id
        /\ "torn" \notin faults' => job.seen = job.contract.id /\ "torn" \notin faults
    BY <1>7, Zenon DEF BalanceWrite, Result
  <2>2. /\ job.contract \in ContractRow /\ BalanceRows(Result) /\ job.surplus \in Int
        /\ "torn" \notin faults' /\ job.contract.supply # Null =>
              job.contract.supply = job.surplus + Sum(Result)
    <3>1. BalanceRows(job.balances) /\ BalanceRows(balances)
      BY <1>1, <1>7, Zenon DEF Typed, Stored, Computed, Writing
    <3>2. BalanceRows(Result)
      BY <3>1, PartRows, Zenon DEF Result
    <3> QED
      BY <1>1, <1>7, <2>1, <3>2, Zenon DEF Typed, Computed, Writing
  <2>3. contract' # NoContract
    BY <2>1, <2>2, NotNoContract, Zenon DEF ContractRow
  <2>4. Stored'
    BY <1>1, <2>1, <2>2, Zenon DEF Typed, Stored, Known
  <2>5. SupplyFollowsBalances'
    BY <2>1, <2>2, Zenon DEF SupplyFollowsBalances
  <2> QED
    BY <1>1, <1>2, <1>4, <1>5, <2>3, <2>4, <2>5, IdleComputed, Zenon DEF Typed
<1> QED
  BY <1>6, <1>7, Zenon

(* Typed is kept by a failure of that job.                                 *)
LEMMA BalanceAbortTyped ==
  ASSUME Typed, BalanceAbort
  PROVE  Typed'
<1>1. /\ UNCHANGED <<head, events>> /\ crawled' = crawled /\ reindex' = reindex /\ activity' = activity
      /\ job' = Idle /\ cp' = cp /\ contract' = contract /\ balances' = balances /\ surplus' = surplus
      /\ faults' = faults
  BY Zenon DEF BalanceAbort, node, reindexing, rows
<1>2. Heights' /\ Checkpoints' /\ Stored'
  <2>1. Heights'
    BY <1>1, ChainStays, Zenon DEF Typed
  <2> QED
    BY <1>1, <2>1, Zenon DEF Typed, Checkpoints, Stored, Known
<1>3. JobTyped' /\ (contract = NoContract => Nothing)' /\ SupplyFollowsBalances'
  BY <1>1, Zenon DEF Typed, JobTyped, Nothing, SupplyFollowsBalances
<1> QED
  BY <1>1, <1>2, <1>3, IdleComputed, Zenon DEF Typed

(* Typed is kept by the first step of REINDEX_ERC20.                       *)
LEMMA UntrackTyped ==
  ASSUME Typed, ReindexUntrack
  PROVE  Typed' /\ contract \in ContractRow /\ contract' = [contract EXCEPT !.track = FALSE]
<1>1. /\ UNCHANGED <<head, events>> /\ crawled' = crawled /\ activity' = activity
      /\ job' = job /\ cp' = cp /\ balances' = balances /\ surplus' = surplus
      /\ contract' = [contract EXCEPT !.track = FALSE] /\ reindex.pc = "queued" /\ faults' = faults
  BY Zenon DEF ReindexUntrack, node
<1>2. contract \in ContractRow
  <2>1. reindex # NoReindex
    BY <1>1 DEF NoReindex
  <2> QED
    BY <2>1, Zenon DEF Typed, Nothing, Stored
<1>3. contract' \in ContractRow /\ contract'.supply = contract.supply /\ contract'.id = contract.id
  BY <1>1, <1>2, Zenon DEF ContractRow
<1>4. contract' # NoContract /\ contract # NoContract
  BY <1>2, <1>3, NotNoContract, Zenon DEF ContractRow
<1>5. Heights' /\ Checkpoints'
  BY <1>1, ChainStays, Zenon DEF Typed, Checkpoints
<1>6. Stored'
  BY <1>1, <1>3, Zenon DEF Typed, Stored, Known
<1>7. JobTyped' /\ Computed'
  <2>1. Computed'
    BY <1>1, <1>3, SameParties, ComputedStays, Zenon
  <2> QED
    BY <1>1, <2>1, Zenon DEF Typed, JobTyped, Known
<1>8. SupplyFollowsBalances'
  BY <1>1, <1>3, <1>4, Zenon DEF Typed, SupplyFollowsBalances
<1> QED
  BY <1>1, <1>2, <1>4, <1>5, <1>6, <1>7, <1>8 DEF Typed

(* What REINDEX_ERC20 computes from the stored events, and what follows if *)
(* no balance was inserted after the deletion of the others.               *)
LEMMA CommitFacts ==
  ASSUME Typed, ReindexCommit
  PROVE  LET ids == InOrder(InBlocks(StartBlock, crawled))
             left == Only(balances, Addr \ reindex.holders)
             u == Processed(0, left, ids)
         IN  /\ contract' \in ContractRow /\ contract' # NoContract /\ contract'.supply = u.supply
             /\ contract \in ContractRow /\ contract'.id = contract.id + 1
             /\ balances' = u.balances /\ activity' = ids /\ surplus' = 0
             /\ ids \in Seq(Nat) /\ ids \in Seq(DOMAIN events) /\ IncreasingOn(ids, Nat)
             /\ Range(ids) = InBlocks(StartBlock, crawled)
             /\ Accumulator(u) /\ u.supply \in Int
             /\ "torn" \notin faults' => left = <<>> /\ u.supply = Sum(u.balances)
             /\ "raced" \notin faults' => "torn" \notin faults' /\ InBlocks(cp["balance"], crawled) = {}
<1>0. PICK ids, left : ids = InOrder(InBlocks(StartBlock, crawled)) /\ left = Only(balances, Addr \ reindex.holders)
  BY Zenon
<1>1. PICK u : u = Processed(0, left, ids)
  BY Zenon
<1>2. /\ contract' = [id |-> contract.id + 1, track |-> TRUE, supply |-> u.supply, last |-> head]
      /\ balances' = u.balances /\ activity' = ids /\ surplus' = 0 /\ reindex.pc = "deleting"
  BY <1>0, <1>1, Zenon DEF ReindexCommit
<1>f. /\ "torn" \notin faults' => DOMAIN left = {}
      /\ "raced" \notin faults' => "torn" \notin faults' /\ InBlocks(cp["balance"], crawled) = {}
  <2>1. PICK S : S = InBlocks(cp["balance"], crawled)
    BY Zenon
  <2>2. faults' = CASE DOMAIN left # {} -> {"raced", "torn"}
                    [] DOMAIN left = {} /\ S # {} -> {"raced"}
                    [] DOMAIN left = {} /\ S = {} -> {}
    BY <1>0, <2>1, Zenon DEF ReindexCommit
  <2> QED
    BY <2>1, <2>2
<1>3. contract \in ContractRow /\ Heights /\ head \in Int
  <2>1. reindex # NoReindex
    BY <1>2 DEF NoReindex
  <2> QED
    BY <2>1, Zenon DEF Typed, Nothing, Stored, Heights
<1>4. PICK n \in Nat : DOMAIN events = 1 .. n
  BY <1>3, EventTyped, Zenon
<1>5. PICK S : S = InBlocks(StartBlock, crawled) /\ S \subseteq 1 .. n
  BY <1>4, Zenon DEF InBlocks
<1>6. ids \in Seq(1 .. n) /\ Range(ids) = S /\ IncreasingOn(ids, S)
  <2>1. InOrder(S) \in Seq(1 .. n) /\ Range(InOrder(S)) = S \cap 1 .. n /\ IncreasingOn(InOrder(S), S)
    BY <1>4, InOrderFacts, Zenon
  <2> QED
    BY <1>0, <1>5, <2>1, Zenon
<1>7. ids \in Seq(Nat) /\ ids \in Seq(DOMAIN events)
  BY <1>4, <1>6
<1>8. IncreasingOn(ids, Nat)
  <2>1. \A k \in DOMAIN ids : ids[k] \in S
    BY <1>6, InRange, Zenon
  <2> QED
    BY <1>6, <2>1, Zenon DEF IncreasingOn
<1>9. 0 \in Reported /\ 0 # Null
  BY Erc20Assumption DEF Reported
<1>b. BalanceRows(left)
  BY <1>0, PartRows, Zenon DEF Typed, Stored
<1>10. Accumulator(u) /\ u.supply # Null /\ Excess(u) = 0 - Sum(left)
  BY <1>1, <1>3, <1>7, <1>9, <1>b, ProcessedSums
<1>11. u.supply \in Int /\ Sum(u.balances) \in Int
  BY <1>10, AccumulatorParts, SumType, Zenon DEF Reported
<1>12. "torn" \notin faults' => left = <<>> /\ u.supply = Sum(u.balances)
  <2> SUFFICES ASSUME "torn" \notin faults' PROVE left = <<>> /\ u.supply = Sum(u.balances)
    BY Zenon
  <2>1. DOMAIN left = {} /\ left = [a \in DOMAIN left |-> left[a]]
    BY <1>f, <1>b, Zenon DEF BalanceRows
  <2>2. left = <<>>
    BY <2>1
  <2> QED
    BY <1>10, <1>11, <2>2, EmptyRows DEF Excess
<1>13. contract' \in ContractRow /\ contract'.supply = u.supply /\ contract'.id = contract.id + 1
  BY <1>2, <1>3, <1>11 DEF ContractRow, Reported
<1>14. contract' # NoContract
  BY <1>2, NotNoContract, Zenon
<1> QED
  BY <1>0, <1>1, <1>2, <1>3, <1>f, <1>5, <1>6, <1>7, <1>8, <1>10, <1>11, <1>12, <1>13, <1>14, ZenonT(40)

(* Typed is kept by the transaction of REINDEX_ERC20.                      *)
LEMMA ReindexCommitTyped ==
  ASSUME Typed, ReindexCommit
  PROVE  Typed'
<1>1. PICK ids \in Seq(Nat) : activity' = ids /\ Range(ids) = InBlocks(StartBlock, crawled)
  BY CommitFacts, Zenon
<1>2. PICK u : /\ contract' \in ContractRow /\ contract' # NoContract /\ contract'.supply = u.supply
               /\ contract \in ContractRow /\ contract'.id = contract.id + 1
               /\ balances' = u.balances /\ surplus' = 0
               /\ Accumulator(u) /\ u.supply \in Int
               /\ "torn" \notin faults' => u.supply = Sum(u.balances)
  BY CommitFacts, Zenon
<1>3. UNCHANGED <<head, events>> /\ crawled' = crawled /\ job' = job /\ cp' = cp
  BY Zenon DEF ReindexCommit, node
<1>4. Heights' /\ Checkpoints'
  BY <1>3, ChainStays, Zenon DEF Typed, Checkpoints
<1>5. Stored'
  <2>1. Known(Range(activity), StartBlock, crawled)'
    BY <1>1, <1>3, Zenon DEF Known, InBlocks
  <2>2. BalanceRows(u.balances)
    BY <1>2, AccumulatorParts, Zenon
  <2> QED
    BY <1>1, <1>2, <2>1, <2>2 DEF Stored
<1>6. JobTyped'
  BY <1>3, Zenon DEF Typed, JobTyped, Known
<1>7. Computed'
  <2>1. contract.id \in Nat /\ contract'.id = contract.id + 1
    BY <1>2, Zenon DEF ContractRow
  <2>2. job.pc = "half" => job.seen \in Nat /\ job.seen <= contract.id /\ BalanceRows(job.balances)
    BY Zenon DEF Typed, Computed
  <2>3. job.pc = "half" => job.seen <= contract'.id /\ job.seen # contract'.id
    BY <2>1, <2>2
  <2>4. Writing => /\ job.contract \in ContractRow /\ BalanceRows(job.balances) /\ job.surplus \in Int
                   /\ job.contract.id <= contract.id /\ job.contract.id \in Nat
    BY Zenon DEF Typed, Computed, ContractRow
  <2>5. Writing => job.contract.id <= contract'.id /\ job.contract.id # contract'.id
    BY <2>1, <2>4
  <2>6. Writing' = Writing
    BY <1>3, Zenon DEF Writing
  <2> QED
    BY <1>3, <2>2, <2>3, <2>4, <2>5, <2>6, Zenon DEF Computed
<1>8. SupplyFollowsBalances'
  <2>1. "torn" \notin faults' => u.supply = 0 + Sum(u.balances)
    <3>1. BalanceRows(u.balances)
      BY <1>2, AccumulatorParts, Zenon
    <3>2. Sum(u.balances) \in Int
      BY <3>1, SumType, Zenon
    <3> QED
      BY <1>2, <3>2
  <2> QED
    BY <1>2, <2>1, Zenon DEF SupplyFollowsBalances
<1> QED
  BY <1>2, <1>4, <1>5, <1>6, <1>7, <1>8, Zenon DEF Typed

(* Every action keeps Typed.                                               *)
LEMMA TypedStep == Typed /\ [Next]_vars => Typed'
<1> SUFFICES ASSUME Typed, [Next]_vars PROVE Typed'
  BY Zenon
<1>1. CASE UNCHANGED vars \/ NewAccount \/ LoseCall \/ ReindexRequest \/ ReindexDelete \/ ReindexFail
  <2>1. /\ UNCHANGED <<head, events, crawled, cp, rows, job, faults>>
        /\ reindex' = reindex \/ contract # NoContract
    <3>1. UNCHANGED <<head, events, crawled, cp, rows, job, faults>>
      BY <1>1, Zenon DEF vars, NewAccount, LoseCall, ReindexRequest, ReindexDelete, ReindexFail, node, rows
    <3>2. reindex.pc \in {"untracked", "deleting"} => contract # NoContract
      <4>1. reindex.pc \in {"untracked", "deleting"} => reindex # NoReindex
        BY DEF NoReindex
      <4> QED
        BY <4>1, Zenon DEF Typed, Nothing
    <3>3. reindex' = reindex \/ contract # NoContract
      BY <1>1, <3>2, Zenon DEF vars, NewAccount, LoseCall, ReindexRequest, ReindexDelete, ReindexFail, reindexing
    <3> QED
      BY <3>1, <3>3, Zenon
  <2> QED
    BY <2>1, QuietTyped, Zenon
<1>2. CASE NewBlock
  BY <1>2, NewBlockTyped, Zenon
<1>3. CASE CrawlContracts
  BY <1>3, CrawlTyped, Zenon
<1>4. CASE HandleErc20Contract
  BY <1>4, ContractJobTyped
<1>5. CASE HandleProxyHistory
  BY <1>5, ProxyJobTyped
<1>6. CASE InsertNewErc20Contracts
  BY <1>6, InsertTyped
<1>7. CASE HandleErc20Activity
  BY <1>7, ActivityJobTyped
<1>8. CASE BalanceStart
  BY <1>8, BalanceStartTyped
<1>9. CASE BalanceRead
  BY <1>9, BalanceReadTyped
<1>p. CASE BalanceProcess
  BY <1>p, BalanceProcessTyped
<1>10. CASE BalanceWrite
  BY <1>10, BalanceWriteTyped
<1>11. CASE BalanceAbort
  BY <1>11, BalanceAbortTyped
<1>12. CASE ReindexUntrack
  BY <1>12, UntrackTyped, Zenon
<1>13. CASE ReindexCommit
  BY <1>13, ReindexCommitTyped
<1> QED
  BY <1>1, <1>2, <1>3, <1>4, <1>5, <1>6, <1>7, <1>8, <1>9, <1>p, <1>10, <1>11, <1>12, <1>13, ZenonT(40) DEF Next

(* The supply of the contract row moves with the balances, but for the two *)
(* races of the balance job with a reindexing.                             *)
THEOREM SupplyHolds == Spec => []SupplyFollowsBalances
<1>1. Typed => SupplyFollowsBalances
  BY Zenon DEF Typed
<1> QED
  BY <1>1, InitTyped, TypedStep, PTL DEF Spec
=============================================================================
