------------------------- MODULE Erc20BalanceProofs -------------------------
(***************************************************************************)
(* For every chain, every set of accounts and any number of upgrades and   *)
(* reindexings of an ERC-20 contract: the balance job never throws, the    *)
(* history has every event once, and the balances are those of the chain   *)
(* at the checkpoint, in each case unless a recorded fault intervened.     *)
(***************************************************************************)
EXTENDS Erc20Proofs

(* The provers that try a leaf, one after the other, and their time in     *)
(* seconds.                                                                *)
USE SMTT(40), ZenonT(40)

(* Balances that follow the first n activities of r, one by one.           *)
Follows(f, r, n) ==
    \A k \in 1 .. n : \A a \in Addr :
        Held(f[k].balances, a) = Held(f[k - 1].balances, a)
                                 + Credit(events[r[k]], a) - Debit(events[r[k]], a)

(* In the order of the blocks no activity is refused, and every balance    *)
(* gains what the activities give it.                                      *)
LEMMA ProcessedInOrder ==
  ASSUME Heights, NEW supply \in Reported, NEW bs, BalanceRows(bs), NEW r \in Seq(DOMAIN events),
         \A j, k \in 1 .. Len(r) : j < k => r[j] < r[k],
         NEW lo \in Int, NEW hi \in Int, lo <= hi,
         \A k \in 1 .. Len(r) : lo <= events[r[k]].height /\ events[r[k]].height <= hi,
         \A a \in DOMAIN bs : bs[a].last <= lo
  PROVE  /\ Processed(supply, bs, r).ok
         /\ \A a \in DOMAIN Processed(supply, bs, r).balances :
               Processed(supply, bs, r).balances[a].last <= hi
         /\ \E f : ProcessedTrace(f, supply, bs, r, Len(r)) /\ Follows(f, r, Len(r))
<1>1. PICK n \in Nat : n = Len(r) /\ DOMAIN r = 1 .. n
  OBVIOUS
<1>2. PICK l \in Nat : l = Len(events) /\ DOMAIN events = 1 .. l
  BY EventTyped, Zenon
<1>3. PICK f : ProcessedTrace(f, supply, bs, r, n)
  BY <1>1, ProcessedSteps, Zenon
<1> DEFINE upTo(k) == IF k = 0 THEN lo ELSE events[r[k]].height
           Ok(k) == /\ Accumulator(f[k]) /\ f[k].ok
                    /\ \A a \in DOMAIN f[k].balances : f[k].balances[a].last <= upTo(k)
           G == {k \in Nat : k <= n => Ok(k)}
<1>4. \A k \in 1 .. n : /\ r[k] \in 1 .. l /\ events[r[k]] \in Event /\ events[r[k]].height \in Int
                        /\ lo <= events[r[k]].height /\ events[r[k]].height <= hi
  BY <1>1, <1>2, EventTyped
<1>5. \A k \in 0 .. n : upTo(k) \in Int /\ upTo(k) <= hi
  BY <1>4
<1>6. \A k \in 1 .. n : upTo(k - 1) <= upTo(k)
  <2> SUFFICES ASSUME NEW k \in 1 .. n PROVE upTo(k - 1) <= upTo(k)
    BY Zenon
  <2>1. CASE k = 1
    BY <1>4, <2>1
  <2>2. CASE k # 1
    <3>1. PICK j \in 1 .. n : j = k - 1 /\ j < k /\ j # 0 /\ k # 0
      BY <2>2
    <3>2. r[j] \in 1 .. l /\ r[k] \in 1 .. l /\ r[j] < r[k]
      BY <1>1, <1>4, <3>1, Zenon
    <3>3. r[j] <= r[k]
      BY <3>2
    <3>4. events[r[j]].height <= events[r[k]].height
      BY <1>2, <3>2, <3>3, Zenon DEF Heights
    <3> QED
      BY <3>1, <3>4, Zenon
  <2> QED
    BY <2>1, <2>2, Zenon
<1>7. 0 \in G
  <2>1. f[0] = [supply |-> supply, balances |-> bs, ok |-> TRUE]
    BY <1>3, Zenon DEF ProcessedTrace, Unapplied
  <2>2. Accumulator(f[0])
    BY <2>1 DEF Accumulator
  <2> QED
    BY <2>1, <2>2
<1> HIDE DEF upTo
<1>8. ASSUME NEW k \in Nat, Ok(k), k + 1 <= n
      PROVE  /\ Ok(k + 1)
             /\ \A a \in Addr : Held(f[k + 1].balances, a) = Held(f[k].balances, a)
                     + Credit(events[r[k + 1]], a) - Debit(events[r[k + 1]], a)
  <2>1. k + 1 \in 1 .. n /\ (k + 1) - 1 = k /\ k \in 0 .. n /\ k + 1 \in 0 .. n /\ k + 1 # 0
    BY <1>8
  <2>2. PICK e \in Event : e = events[r[k + 1]] /\ upTo(k + 1) = e.height
    BY <1>4, <2>1, Zenon DEF upTo
  <2>3. f[k + 1] = HandlerErc20Transfer(f[k], e)
    BY <1>3, <1>8, <2>1, <2>2, Zenon DEF ProcessedTrace
  <2>4. \A a \in DOMAIN f[k].balances : f[k].balances[a].last <= e.height
    <3>1. upTo(k) <= e.height /\ upTo(k) \in Int /\ e.height \in Int
      BY <1>5, <1>6, <2>1, <2>2, Zenon
    <3>2. \A a \in DOMAIN f[k].balances : f[k].balances[a].last \in Int
      BY <1>8, AccumulatorParts, Zenon DEF BalanceRows, BalanceRow
    <3> QED
      BY <1>8, <3>1, <3>2
  <2>5. Accumulator(f[k])
    BY <1>8, Zenon
  <2> QED
    BY <1>8, <2>2, <2>3, <2>4, <2>5, TransferFacts
<1>9. ASSUME NEW k \in Nat, k \in G
      PROVE  k + 1 \in G
  BY <1>8, <1>9
<1> HIDE DEF G
<1>10. Nat \subseteq G
  BY <1>7, <1>9, NatInd, Zenon
<1>11. \A k \in 0 .. n : Ok(k)
  BY <1>10 DEF G
<1>12. ASSUME NEW k \in 1 .. n
       PROVE  \A a \in Addr : Held(f[k].balances, a) = Held(f[k - 1].balances, a)
                                + Credit(events[r[k]], a) - Debit(events[r[k]], a)
  <2>1. PICK j \in Nat : j = k - 1 /\ j + 1 = k /\ j \in 0 .. n /\ j + 1 <= n
    OBVIOUS
  <2>2. Ok(j)
    BY <1>11, <2>1, Zenon
  <2> HIDE DEF Ok
  <2>3. \A a \in Addr : Held(f[j + 1].balances, a) = Held(f[j].balances, a)
             + Credit(events[r[j + 1]], a) - Debit(events[r[j + 1]], a)
    BY <1>8, <2>1, <2>2, Zenon
  <2> QED
    BY <2>1, <2>3, Zenon
<1>13. /\ f[n].ok /\ f[n] = Processed(supply, bs, r)
       /\ \A a \in DOMAIN f[n].balances : f[n].balances[a].last <= hi
  <2>1. n \in 0 .. n
    OBVIOUS
  <2>2. f[n].ok /\ BalanceRows(f[n].balances) /\ \A a \in DOMAIN f[n].balances : f[n].balances[a].last <= upTo(n)
    BY <1>11, <2>1, AccumulatorParts, Zenon
  <2>3. upTo(n) \in Int /\ upTo(n) <= hi
    BY <1>5, <2>1, Zenon
  <2>4. \A a \in DOMAIN f[n].balances : f[n].balances[a].last \in Int
    BY <2>2, Zenon DEF BalanceRows, BalanceRow
  <2> QED
    BY <1>3, <2>2, <2>3, <2>4 DEF ProcessedTrace
<1> QED
  BY <1>1, <1>3, <1>12, <1>13, Zenon DEF Follows

(* The activities of a range of blocks, in order, take balances of the     *)
(* chain before the range to those after it.                               *)
LEMMA ProcessedBlocks ==
  ASSUME Heights, NEW supply \in Reported, NEW bs, BalanceRows(bs),
         NEW lo \in Int, NEW hi \in Int, lo <= hi,
         NEW r \in Seq(Nat), IncreasingOn(r, Nat), Range(r) \subseteq InBlocks(lo, hi),
         \A a \in DOMAIN bs : bs[a].last <= lo
  PROVE  /\ Processed(supply, bs, r).ok
         /\ \A a \in DOMAIN Processed(supply, bs, r).balances :
               Processed(supply, bs, r).balances[a].last <= hi
         /\ InBlocks(lo, hi) \subseteq Range(r) /\ (\A a \in Addr : Held(bs, a) = Balance(a, lo)) =>
               \A a \in Addr : Held(Processed(supply, bs, r).balances, a) = Balance(a, hi)
<1>1. PICK n \in Nat : n = Len(r) /\ DOMAIN r = 1 .. n
  OBVIOUS
<1>2. \A k \in 1 .. n : r[k] \in Nat /\ r[k] \in InBlocks(lo, hi)
  <2>1. \A k \in DOMAIN r : r[k] \in Range(r)
    BY InRange, Zenon
  <2> QED
    BY <1>1, <2>1
<1>3. \A k \in 1 .. n : r[k] \in DOMAIN events /\ lo <= events[r[k]].height /\ events[r[k]].height <= hi
  <2>1. \A i \in DOMAIN events : events[i].height \in Int
    BY EventTyped, Zenon
  <2> QED
    BY <1>2, <2>1 DEF InBlocks
<1>4. r \in Seq(DOMAIN events)
  <2>1. PICK E : E = DOMAIN events
    BY Zenon
  <2> QED
    BY <1>1, <1>3, <2>1, SeqOf, Zenon
<1>5. \A j, k \in 1 .. n : j < k => r[j] < r[k]
  BY <1>1, <1>2, Zenon DEF IncreasingOn
<1>6. /\ Processed(supply, bs, r).ok
      /\ \A a \in DOMAIN Processed(supply, bs, r).balances :
            Processed(supply, bs, r).balances[a].last <= hi
      /\ \E f : ProcessedTrace(f, supply, bs, r, n) /\ Follows(f, r, n)
  <2>1. /\ \A j, k \in 1 .. Len(r) : j < k => r[j] < r[k]
        /\ \A k \in 1 .. Len(r) : lo <= events[r[k]].height /\ events[r[k]].height <= hi
    BY <1>1, <1>3, <1>5, Zenon
  <2>2. /\ Processed(supply, bs, r).ok
        /\ \A a \in DOMAIN Processed(supply, bs, r).balances :
              Processed(supply, bs, r).balances[a].last <= hi
        /\ \E f : ProcessedTrace(f, supply, bs, r, Len(r)) /\ Follows(f, r, Len(r))
    BY <1>4, <2>1, ProcessedInOrder, Zenon
  <2> QED
    BY <1>1, <2>2, Zenon
<1>7. ASSUME InBlocks(lo, hi) \subseteq Range(r), \A a \in Addr : Held(bs, a) = Balance(a, lo),
             NEW a \in Addr
      PROVE  Held(Processed(supply, bs, r).balances, a) = Balance(a, hi)
  <2>1. PICK f : ProcessedTrace(f, supply, bs, r, n) /\ Follows(f, r, n)
    BY <1>6, Zenon
  <2>2. PICK x \in Int, y \in Int : x = EventsTo(lo) /\ y = EventsTo(hi) /\ 0 <= x /\ x <= y /\ y <= Len(events)
    <3>1. EventsTo(lo) \in 0 .. Len(events) /\ EventsTo(hi) \in 0 .. Len(events) /\ EventsTo(lo) <= EventsTo(hi)
      BY EventsToFacts, EventsToOrder, Zenon
    <3>2. Len(events) \in Nat
      BY EventTyped, Zenon
    <3> QED
      BY <3>1, <3>2
  <2>3. InBlocks(lo, hi) = x + 1 .. y
    BY <2>2, InBlocksInterval, Zenon
  <2>4. Range(r) = x + 1 .. y
    BY <1>7, <2>3, Zenon
  <2>5. n = y - x /\ \A k \in 1 .. n : r[k] = x + k
    <3>1. r \in Seq(Int) /\ Range(r) \subseteq Nat
      BY <1>2, <2>2, <2>4
    <3>2. Len(r) = y - x /\ \A k \in 1 .. Len(r) : r[k] = x + k
      BY <2>2, <2>4, <3>1, Consecutive, Zenon
    <3> QED
      BY <1>1, <3>2, Zenon
  <2>6. /\ \A k \in 1 .. Len(events) :
              Worth(a, k) = Worth(a, k - 1) + Credit(events[k], a) - Debit(events[k], a)
        /\ \A k \in 0 .. Len(events) : Worth(a, k) \in Int
    BY WorthSteps, Zenon
  <2> DEFINE G == {k \in Nat : k <= n => Held(f[k].balances, a) = Worth(a, x + k)}
  <2>7. 0 \in G
    <3>1. f[0].balances = bs
      BY <2>1 DEF ProcessedTrace, Unapplied
    <3>2. Held(bs, a) = Worth(a, x) /\ x + 0 = x
      BY <1>7, <2>2, BalanceIsWorth
    <3> QED
      BY <3>1, <3>2, Zenon
  <2>8. ASSUME NEW k \in Nat, k \in G
        PROVE  k + 1 \in G
    <3> SUFFICES ASSUME k + 1 <= n PROVE Held(f[k + 1].balances, a) = Worth(a, x + (k + 1))
      OBVIOUS
    <3>1. PICK i \in 1 .. Len(events) : i = x + (k + 1) /\ i - 1 = x + k
      <4>1. Len(events) \in Nat /\ x + (k + 1) \in Int /\ x + (k + 1) - 1 = x + k /\ x + (k + 1) <= y
        BY <2>2, <2>5, EventTyped
      <4> QED
        BY <2>2, <4>1
    <3>2. r[k + 1] = i /\ k + 1 \in 1 .. n /\ (k + 1) - 1 = k
      <4>1. k + 1 \in 1 .. n /\ (k + 1) - 1 = k
        OBVIOUS
      <4> QED
        BY <2>5, <3>1, <4>1, Zenon
    <3>3. Held(f[k].balances, a) = Worth(a, i - 1)
      BY <2>8, <3>1, <3>2
    <3>4. Held(f[k + 1].balances, a) = Held(f[k].balances, a) + Credit(events[i], a) - Debit(events[i], a)
      <4>1. Held(f[k + 1].balances, a) = Held(f[(k + 1) - 1].balances, a)
                                         + Credit(events[r[k + 1]], a) - Debit(events[r[k + 1]], a)
        BY <2>1, <3>2, Zenon DEF Follows
      <4> QED
        BY <3>2, <4>1, Zenon
    <3> QED
      BY <2>6, <3>1, <3>3, <3>4
  <2> HIDE DEF G
  <2>9. Nat \subseteq G
    BY <2>7, <2>8, NatInd, Zenon
  <2>10. Held(f[n].balances, a) = Worth(a, x + n)
    BY <2>9 DEF G
  <2>11. x + n = y
    BY <2>2, <2>5
  <2> QED
    BY <2>1, <2>2, <2>10, <2>11, BalanceIsWorth, Zenon DEF ProcessedTrace
<1> QED
  BY <1>6, <1>7, Zenon

-----------------------------------------------------------------------------
(* While no reindexing has overtaken the balance job, activities and       *)
(* balances follow the order of the blocks.                                *)
NoLater(bs, h) == \A a \in DOMAIN bs : bs[a].last <= h

(* The order of the history, and of the last updates.                      *)
Orderly ==
    "raced" \notin faults =>
        /\ IncreasingOn(activity, Nat) /\ Known(Range(activity), StartBlock, cp["activity"])
        /\ NoLater(balances, cp["balance"])
        /\ job # Idle => IncreasingOn(job.acts, Nat)
        /\ job.pc = "half" => job.seen = contract.id
        /\ Writing => NoLater(Result, job.end)

(* No rows are in order.                                                   *)
LEMMA EmptySequence ==
  /\ <<>> \in Seq(Nat) /\ Range(<<>>) = {} /\ IncreasingOn(<<>>, Nat)
  /\ \A h : NoLater(<<>>, h)
<1>1. <<>> \in Seq(Nat) /\ Range(<<>>) = {} /\ DOMAIN <<>> = {}
  BY DEF Range
<1> QED
  BY <1>1, Zenon DEF IncreasingOn, NoLater

(* Orderly holds initially.                                                *)
LEMMA InitOrderly == Init => Orderly
<1> SUFFICES ASSUME Init PROVE Orderly
  BY Zenon
<1>1. activity = <<>> /\ balances = <<>> /\ job = Idle /\ job.pc = "idle"
  BY Zenon DEF Init, Idle
<1> QED
  BY <1>1, EmptySequence DEF Orderly, Known, Writing

(* The rows that BalanceProcess computes are no later than the job's range.   *)
LEMMA ProcessedJob ==
  ASSUME Typed, Orderly, "raced" \notin faults, job # Idle, contract \in ContractRow
  PROVE  LET u == Processed(contract.supply, balances, job.acts)
         IN  /\ u.ok /\ NoLater(u.balances, job.end)
             /\ /\ InBlocks(cp["balance"], job.end) \subseteq Range(job.acts)
                /\ \A a \in Addr : Held(balances, a) = Balance(a, cp["balance"])
                => \A a \in Addr : Held(u.balances, a) = Balance(a, job.end)
<1>1. PICK r \in Seq(Nat) : r = job.acts
  BY JobFacts, Zenon
<1>2. PICK lo \in Int, hi \in Int : lo = cp["balance"] /\ hi = job.end /\ lo <= hi
  BY JobFacts, TypedFacts DEF Typed
<1>3. PICK s \in Reported : s = contract.supply
  BY Zenon DEF ContractRow
<1>4. Heights /\ BalanceRows(balances)
  BY Zenon DEF Typed, Stored
<1>5. IncreasingOn(r, Nat) /\ Range(r) \subseteq InBlocks(lo, hi)
  BY <1>1, <1>2, JobFacts, Zenon DEF Orderly
<1>6. \A a \in DOMAIN balances : balances[a].last <= lo
  BY <1>2, Zenon DEF Orderly, NoLater
<1>7. PICK u : u = Processed(s, balances, r)
  BY Zenon
<1>8. /\ u.ok /\ \A a \in DOMAIN u.balances : u.balances[a].last <= hi
      /\ InBlocks(lo, hi) \subseteq Range(r) /\ (\A a \in Addr : Held(balances, a) = Balance(a, lo)) =>
            \A a \in Addr : Held(u.balances, a) = Balance(a, hi)
  BY <1>2, <1>4, <1>5, <1>6, <1>7, ProcessedBlocks
<1> QED
  BY <1>1, <1>2, <1>3, <1>7, <1>8, Zenon DEF NoLater

(* Orderly is kept by steps that leave rows, checkpoints and the job       *)
(* alone.                                                                  *)
LEMMA QuietOrderly ==
  ASSUME Orderly, "raced" \in faults => "raced" \in faults', cp'["balance"] = cp["balance"], cp'["activity"] = cp["activity"],
         UNCHANGED <<events, balances, activity, job>>, job.pc = "half" => contract'.id = contract.id
  PROVE  Orderly'
  BY Zenon DEF Orderly, Known, Writing, Result

(* Orderly is kept by a new block.                                         *)
LEMMA NewBlockOrderly ==
  ASSUME Typed, Orderly, NewBlock
  PROVE  Orderly'
<1>1. cp' = cp /\ balances' = balances /\ activity' = activity /\ job' = job /\ faults' = faults
      /\ contract' = contract
  BY Zenon DEF NewBlock, rows
<1>2. \A i \in DOMAIN events : i \in DOMAIN events' /\ events'[i] = events[i]
  BY NewBlockTyped, ContinuesFacts, Zenon DEF Typed
<1> QED
  BY <1>1, <1>2, Zenon DEF Orderly, Known, Writing, Result

(* HANDLE_ERC20_ACTIVITY adds events above its checkpoint, so behind those *)
(* that have rows.                                                         *)
LEMMA ActivityOrderly ==
  ASSUME Typed, Orderly, HandleErc20Activity
  PROVE  Orderly'
<1>1. PICK end \in Int :
         /\ cp["activity"] < end
         /\ cp' = [cp EXCEPT !["activity"] = end]
         /\ faults' = faults \/ faults' = faults \cup {"late"}
         /\ \E new \in Seq(Nat) :
               /\ activity' = activity \o new /\ Range(activity') = Range(activity) \cup Range(new)
               /\ IncreasingOn(new, Nat) /\ Range(new) \subseteq InBlocks(cp["activity"], end)
  BY ActivityJobFacts, Zenon
<1>2. PICK new \in Seq(Nat) :
         /\ activity' = activity \o new /\ Range(activity') = Range(activity) \cup Range(new)
         /\ IncreasingOn(new, Nat) /\ Range(new) \subseteq InBlocks(cp["activity"], end)
  BY <1>1, Zenon
<1>3. events' = events /\ balances' = balances /\ job' = job /\ contract' = contract
  BY Zenon DEF HandleErc20Activity, node
<1>4. SUFFICES ASSUME "raced" \notin faults'
               PROVE  /\ IncreasingOn(activity', Nat) /\ Known(Range(activity), StartBlock, cp["activity"])'
                      /\ NoLater(balances, cp["balance"])
                      /\ job # Idle => IncreasingOn(job.acts, Nat)
                      /\ job.pc = "half" => job.seen = contract.id
                      /\ Writing => NoLater(Result, job.end)
  <2>1. cp'["balance"] = cp["balance"]
    BY <1>1, Zenon DEF Typed, Checkpoints, Jobs
  <2> QED
    BY <1>3, <1>4, <2>1, Zenon DEF Orderly, Writing, Result
<1>5. "raced" \notin faults
  BY <1>1, <1>4, Zenon
<1>6. /\ IncreasingOn(activity, Nat) /\ Known(Range(activity), StartBlock, cp["activity"])
      /\ NoLater(balances, cp["balance"]) /\ (job # Idle => IncreasingOn(job.acts, Nat))
      /\ job.pc = "half" => job.seen = contract.id
      /\ Writing => NoLater(Result, job.end)
  BY <1>5, Zenon DEF Orderly
<1>7. Heights /\ Checkpoints /\ activity \in Seq(Nat)
  BY Zenon DEF Typed, Stored
<1>8. PICK n \in Nat : DOMAIN events = 1 .. n /\ \A i \in 1 .. n : events[i].height \in Int
  BY <1>7, EventTyped, Zenon
<1>9. \A x \in Range(activity) \cap Nat, y \in Range(new) \cap Nat : x < y
  <2> SUFFICES ASSUME NEW x \in Range(activity), NEW y \in Range(new) PROVE x < y
    BY Zenon
  <2>1. x \in 1 .. n /\ events[x].height <= cp["activity"]
    BY <1>6, <1>8, Zenon DEF Known
  <2>2. y \in 1 .. n /\ cp["activity"] < events[y].height
    BY <1>2, <1>8, Zenon DEF InBlocks
  <2>3. events[x].height < events[y].height
    BY <1>7, <1>8, <2>1, <2>2, TypedFacts
  <2>4. ~ y <= x
    <3>1. y <= x => events[y].height <= events[x].height
      BY <1>7, <1>8, <2>1, <2>2, Zenon DEF Heights
    <3> QED
      BY <1>8, <2>1, <2>2, <2>3, <3>1
  <2> QED
    BY <2>1, <2>2, <2>4
<1>10. IncreasingOn(activity \o new, Nat)
  <2>1. Range(new) \subseteq Nat /\ Nat \subseteq Int
    BY <1>2, RangeTyped
  <2> QED
    BY <1>2, <1>6, <1>7, <1>9, <2>1, IncreasingConcat, ZenonT(40)
<1>11. Known(Range(activity), StartBlock, cp["activity"])'
  <2>1. cp["activity"] \in Int /\ StartBlock \in Int /\ StartBlock <= cp["activity"] /\ cp'["activity"] = end
    BY <1>1, <1>7, TypedFacts DEF Checkpoints, Jobs
  <2>2. \A i \in Range(activity) : i \in DOMAIN events /\ StartBlock < events[i].height /\ events[i].height <= end
    BY <1>1, <1>6, <1>8, <2>1 DEF Known
  <2>3. \A i \in Range(new) : i \in DOMAIN events /\ StartBlock < events[i].height /\ events[i].height <= end
    BY <1>2, <1>8, <2>1 DEF InBlocks
  <2> QED
    BY <1>2, <1>3, <2>1, <2>2, <2>3, ZenonT(40) DEF Known
<1> QED
  BY <1>2, <1>6, <1>10, <1>11, Zenon

(* HANDLE_ERC20_BALANCE reads the activities in their order.               *)
LEMMA StartOrderly ==
  ASSUME Typed, Orderly, BalanceStart
  PROVE  Orderly'
<1>1. PICK acts \in Seq(Nat) :
         job'.pc = "read" /\ job'.acts = acts /\ (IncreasingOn(activity, Nat) => IncreasingOn(acts, Nat))
  BY StartFacts
<1>2. cp' = cp /\ events' = events /\ balances' = balances /\ activity' = activity /\ faults' = faults
  BY Zenon DEF BalanceStart, node, rows
<1>3. job'.pc # "half" /\ job'.pc # "write"
  BY <1>1
<1> QED
  BY <1>1, <1>2, <1>3, Zenon DEF Orderly, Known, Writing

(* Its first query remembers which row the contract has.                   *)
LEMMA ReadOrderly ==
  ASSUME Typed, Orderly, BalanceRead
  PROVE  Orderly'
<1>1. cp' = cp /\ events' = events /\ balances' = balances /\ activity' = activity /\ faults' = faults
      /\ contract' = contract
  BY Zenon DEF BalanceRead, node, rows
<1>2. job # Idle /\ job'.acts = job.acts /\ job'.end = job.end
  BY ReadFacts, Zenon
<1>3. CASE job.acts = <<>>
  <2>1. job'.pc # "half" /\ ~ Writing'
    BY <1>2, <1>3, ReadFacts DEF Writing
  <2> QED
    BY <1>1, <1>2, <2>1, Zenon DEF Orderly, Known
<1>4. CASE job.acts # <<>>
  <2>1. job'.seen = contract.id /\ ~ Writing'
    BY <1>4, ReadFacts DEF Writing
  <2> QED
    BY <1>1, <1>2, <2>1, Zenon DEF Orderly, Known
<1> QED
  BY <1>3, <1>4, Zenon

(* Its computation updates no balance later than its range.                *)
LEMMA ProcessOrderly ==
  ASSUME Typed, Orderly, BalanceProcess
  PROVE  Orderly'
<1>1. cp' = cp /\ events' = events /\ balances' = balances /\ activity' = activity /\ faults' = faults
  BY Zenon DEF BalanceProcess, node, rows
<1>2. job.pc = "half" /\ job'.pc = "write" /\ job'.acts = job.acts /\ job'.end = job.end
  BY ProcessFacts, Zenon
<1>3. job # Idle /\ contract \in ContractRow
  BY <1>2, HalfFacts, Zenon
<1>4. ASSUME "raced" \notin faults PROVE NoLater(Result', job'.end)
  <2>1. PICK u : u = Processed(contract.supply, balances, job.acts)
    BY Zenon
  <2>2. job.seen = contract.id
    BY <1>2, <1>4, Zenon DEF Orderly
  <2>3. Result' = u.balances
    BY <2>1, <2>2, ProcessFacts, Zenon
  <2>4. NoLater(u.balances, job.end)
    BY <1>3, <1>4, <2>1, ProcessedJob, Zenon
  <2> QED
    BY <1>2, <2>3, <2>4, Zenon
<1>5. job'.pc # "half"
  BY <1>2
<1> QED
  BY <1>1, <1>2, <1>3, <1>4, <1>5, Zenon DEF Orderly, Known

(* Its commit moves the checkpoint to the end of the range.                *)
LEMMA WriteOrderly ==
  ASSUME Typed, Orderly, BalanceWrite
  PROVE  Orderly'
<1>1. /\ events' = events /\ activity' = activity /\ job' = Idle /\ job.pc = "write"
      /\ cp' = [cp EXCEPT !["balance"] = job.end] /\ ("raced" \in faults => "raced" \in faults')
  BY Zenon DEF BalanceWrite, node
<1>2. job # Idle /\ job'.pc # "half" /\ job'.pc # "write"
  BY <1>1 DEF Idle
<1>3. job.end \in Int /\ cp["balance"] \in Int /\ cp["balance"] < job.end
  BY <1>2, JobFacts, TypedFacts, Zenon DEF Typed
<1>4. cp'["activity"] = cp["activity"] /\ cp'["balance"] = job.end
  BY <1>1, Zenon DEF Typed, Checkpoints, Jobs
<1>5. ASSUME "raced" \notin faults PROVE NoLater(balances', job.end)
  <2>1. CASE job.acts = <<>>
    <3>1. balances' = balances /\ NoLater(balances, cp["balance"])
      BY <1>5, <2>1, Zenon DEF BalanceWrite, Orderly
    <3>2. \A a \in DOMAIN balances : balances[a].last \in Int
      BY Zenon DEF Typed, Stored, BalanceRows, BalanceRow
    <3> QED
      BY <1>3, <3>1, <3>2 DEF NoLater
  <2>2. CASE job.acts # <<>>
    BY <1>1, <1>5, <2>2, Zenon DEF BalanceWrite, Orderly, Writing, Result
  <2> QED
    BY <2>1, <2>2, Zenon
<1> QED
  BY <1>1, <1>2, <1>4, <1>5, Zenon DEF Orderly, Known, Writing

(* Orderly is kept by a failure of that job.                               *)
LEMMA AbortOrderly ==
  ASSUME Typed, Orderly, BalanceAbort
  PROVE  Orderly'
<1>1. cp' = cp /\ events' = events /\ balances' = balances /\ activity' = activity /\ faults' = faults
      /\ job' = Idle
  BY Zenon DEF BalanceAbort, node, rows
<1>2. job'.pc # "half" /\ job'.pc # "write"
  BY <1>1 DEF Idle
<1> QED
  BY <1>1, <1>2, Zenon DEF Orderly, Known, Writing

(* Before the first event nobody owns anything.                            *)
LEMMA NothingOwned ==
  ASSUME Heights, NEW h \in Int, NEW a \in Addr, \A i \in DOMAIN events : ~ events[i].height <= h
  PROVE  Balance(a, h) = 0 /\ Held(<<>>, a) = 0
<1>1. Len(events) \in Nat /\ DOMAIN events = 1 .. Len(events)
  BY EventTyped, Zenon
<1>2. PICK m \in 0 .. Len(events) : m = 0
  BY <1>1
<1>3. EventsTo(h) = m
  <2>1. \A i \in DOMAIN events : events[i].height <= h <=> i <= m
    BY <1>1, <1>2
  <2> QED
    BY <2>1, EventsToIs, Zenon
<1>4. Balance(a, h) = Worth(a, 0)
  BY <1>2, <1>3, BalanceIsWorth, Zenon
<1>5. Worth(a, 0) = 0
  BY WorthSteps, Erc20Assumption, Zenon
<1> QED
  BY <1>4, <1>5 DEF Held

(* Blocks without events change no balance.                                *)
LEMMA SameBalance ==
  ASSUME Heights, NEW g \in Int, NEW h \in Int, g <= h, InBlocks(g, h) = {}, NEW a \in Addr
  PROVE  Balance(a, g) = Balance(a, h)
<1>1. \A i \in DOMAIN events : events[i].height \in Int
  BY EventTyped, Zenon
<1>2. \A i \in DOMAIN events : events[i].height <= g <=> events[i].height <= h
  BY <1>1 DEF InBlocks
<1>3. EventsTo(g) = EventsTo(h)
  BY <1>2, EventsToFacts, EventsToIs, Zenon
<1> QED
  BY <1>3, BalanceIsWorth, Zenon

(* A reindexing that overtakes nobody leaves the balances of the           *)
(* checkpoint, and a waiting job nothing to do.                            *)
LEMMA CleanCommit ==
  ASSUME Typed, ReindexCommit, "raced" \notin faults'
  PROVE  /\ IncreasingOn(activity', Nat) /\ Range(activity') = InBlocks(StartBlock, crawled)
         /\ \A i \in DOMAIN events : events[i].height <= crawled => events[i].height <= cp["balance"]
         /\ job # Idle => job.acts = <<>>
         /\ NoLater(balances', cp["balance"])
         /\ \A a \in Addr : Held(balances', a) = Balance(a, cp["balance"])
<1>1. PICK ids \in Seq(Nat) :
         /\ ids = InOrder(InBlocks(StartBlock, crawled)) /\ activity' = ids /\ IncreasingOn(ids, Nat)
         /\ Range(ids) = InBlocks(StartBlock, crawled) /\ balances' = Processed(0, <<>>, ids).balances
  BY CommitFacts, Zenon
<1>c. InBlocks(cp["balance"], crawled) = {}
  BY CommitFacts, Zenon
<1>2. Heights /\ Checkpoints
  BY Zenon DEF Typed
<1>3. PICK c \in Int : c = cp["balance"] /\ StartBlock <= c /\ c <= crawled /\ crawled \in Int
  BY <1>2, TypedFacts, Zenon DEF Jobs
<1>4. \A i \in DOMAIN events : events[i].height \in Int /\ StartBlock < events[i].height
  BY <1>2, EventTyped, Zenon DEF Heights
<1>5. \A i \in DOMAIN events : events[i].height <= crawled => events[i].height <= c
  BY <1>c, <1>3, <1>4 DEF InBlocks
<1>6. InBlocks(StartBlock, crawled) = InBlocks(StartBlock, c)
  BY <1>3, <1>4, <1>5 DEF InBlocks
<1>7. PICK b \in Int : b = StartBlock
  BY StartBlockAssumption
<1>8. \A a \in Addr : Held(<<>>, a) = Balance(a, b)
  <2>1. \A i \in DOMAIN events : ~ events[i].height <= b
    BY <1>4, <1>7
  <2> QED
    BY <1>2, <2>1, NothingOwned, Zenon
<1>9. PICK u : u = Processed(0, <<>>, ids)
  BY Zenon
<1>10. /\ \A a \in DOMAIN u.balances : u.balances[a].last <= c
       /\ \A a \in Addr : Held(u.balances, a) = Balance(a, c)
  <2>1. 0 \in Reported /\ BalanceRows(<<>>) /\ \A a \in DOMAIN <<>> : <<>>[a].last <= b
    BY EmptyRows DEF Reported
  <2>2. PICK e : e = <<>> /\ BalanceRows(e) /\ (\A a \in DOMAIN e : e[a].last <= b)
                 /\ \A a \in Addr : Held(e, a) = Balance(a, b)
    BY <1>8, <2>1, Zenon
  <2>3. u = Processed(0, e, ids)
    BY <1>9, <2>2, Zenon
  <2>4. Range(ids) \subseteq InBlocks(b, c) /\ InBlocks(b, c) \subseteq Range(ids) /\ b <= c
    BY <1>1, <1>3, <1>6, <1>7, Zenon
  <2> QED
    BY <1>1, <1>2, <2>1, <2>2, <2>3, <2>4, ProcessedBlocks
<1>11. job # Idle => job.acts = <<>>
  <2> SUFFICES ASSUME job # Idle PROVE job.acts = <<>>
    BY Zenon
  <2>1. job.acts \in Seq(Nat) /\ job.end <= cp["activity"] /\ job.end \in Int
        /\ Range(job.acts) \subseteq InBlocks(cp["balance"], job.end)
    BY JobFacts, Zenon
  <2>2. job.end <= crawled
    BY <1>2, <2>1, TypedFacts DEF Jobs
  <2>3. InBlocks(cp["balance"], job.end) = {}
    BY <1>3, <1>4, <1>5, <2>1, <2>2 DEF InBlocks
  <2>4. \A k \in DOMAIN job.acts : FALSE
    BY <2>1, <2>3, InRange, Zenon
  <2>5. Len(job.acts) = 0
    <3>1. PICK n \in Nat : n = Len(job.acts) /\ DOMAIN job.acts = 1 .. n
      BY <2>1
    <3>2. n = 0 \/ 1 \in 1 .. n
      BY <3>1
    <3> QED
      BY <2>4, <3>1, <3>2, Zenon
  <2> QED
    BY <2>1, <2>5
<1> QED
  BY <1>1, <1>3, <1>5, <1>9, <1>10, <1>11 DEF NoLater

(* A reindexing restores the order, unless there are blocks that           *)
(* HANDLE_ERC20_BALANCE has not done: then the fault is recorded.          *)
LEMMA CommitOrderly ==
  ASSUME Typed, ReindexCommit
  PROVE  Orderly'
<1>1. cp' = cp /\ events' = events /\ job' = job /\ crawled' = crawled
  BY Zenon DEF ReindexCommit, node
<1> SUFFICES ASSUME "raced" \notin faults' PROVE Orderly'
  BY Zenon DEF Orderly
<1>3. /\ IncreasingOn(activity', Nat) /\ Range(activity') = InBlocks(StartBlock, crawled)
      /\ \A i \in DOMAIN events : events[i].height <= crawled => events[i].height <= cp["balance"]
      /\ (job # Idle => job.acts = <<>>) /\ NoLater(balances', cp["balance"])
  BY CleanCommit, Zenon
<1>4. \A i \in DOMAIN events : events[i].height \in Int
  BY EventTyped, Zenon DEF Typed
<1>5. cp["balance"] \in Int /\ cp["activity"] \in Int /\ cp["balance"] <= cp["activity"]
  BY TypedFacts, Zenon DEF Typed, Checkpoints
<1>6. Known(Range(activity), StartBlock, cp["activity"])'
  BY <1>1, <1>3, <1>4, <1>5 DEF Known, InBlocks
<1>7. ~ Writing' /\ job'.pc # "half"
  <2>1. job = Idle => job.pc # "write" /\ job.pc # "half"
    BY DEF Idle
  <2> QED
    BY <1>1, <1>3, <2>1, HalfFacts, Zenon DEF Writing
<1> QED
  BY <1>1, <1>3, <1>6, <1>7, EmptySequence DEF Orderly

(* Every action keeps Orderly.                                             *)
LEMMA OrderlyStep == Typed /\ Orderly /\ [Next]_vars => Orderly'
<1> SUFFICES ASSUME Typed, Orderly, [Next]_vars PROVE Orderly'
  BY Zenon
<1>1. CASE UNCHANGED vars \/ CrawlContracts \/ NewAccount \/ LoseCall \/ ReindexRequest \/ ReindexFail
           \/ ReindexDelete \/ ReindexUntrack
  <2>1. UNCHANGED <<events, balances, activity, job, cp, faults>>
    BY <1>1, Zenon DEF vars, CrawlContracts, NewAccount, LoseCall, ReindexRequest, ReindexFail, ReindexDelete,
       ReindexUntrack, node, rows
  <2>2. contract'.id = contract.id
    <3>1. CASE ReindexUntrack
      <4>1. contract \in ContractRow /\ contract' = [contract EXCEPT !.track = FALSE]
        BY <3>1, UntrackTyped, Zenon
      <4> QED
        BY <4>1 DEF ContractRow
    <3>2. CASE ~ ReindexUntrack
      <4>1. contract' = contract
        BY <1>1, <3>2, Zenon DEF vars, CrawlContracts, NewAccount, LoseCall, ReindexRequest, ReindexFail,
           ReindexDelete, rows
      <4> QED
        BY <4>1, Zenon
    <3> QED
      BY <3>1, <3>2, Zenon
  <2> QED
    BY <2>1, <2>2, QuietOrderly, Zenon
<1>2. CASE HandleErc20Contract \/ HandleProxyHistory \/ InsertNewErc20Contracts
  <2>1. UNCHANGED <<events, balances, activity, job>>
    BY <1>2, Zenon DEF HandleErc20Contract, HandleProxyHistory, InsertNewErc20Contracts, Upsert, node, rows
  <2>2. cp'["balance"] = cp["balance"] /\ cp'["activity"] = cp["activity"]
    BY <1>2, Zenon DEF HandleErc20Contract, HandleProxyHistory, InsertNewErc20Contracts, Typed, Checkpoints, Jobs
  <2>3. "raced" \in faults => "raced" \in faults'
    BY <1>2, Zenon DEF HandleErc20Contract, HandleProxyHistory, InsertNewErc20Contracts, Upsert
  <2>4. ASSUME job.pc = "half" PROVE contract'.id = contract.id
    <3>1. contract # NoContract
      BY <2>4, HalfFacts, Zenon
    <3>2. ASSUME NEW last, Upsert(last) PROVE contract'.id = contract.id
      <4>1. PICK supply : contract' = [id |-> contract.id, track |-> TRUE, supply |-> supply, last |-> last]
        BY <3>1, <3>2, Zenon DEF Upsert
      <4> QED
        BY <4>1, Zenon
    <3> QED
      BY <1>2, <3>2, Zenon DEF HandleErc20Contract, HandleProxyHistory, InsertNewErc20Contracts, rows
  <2> QED
    BY <2>1, <2>2, <2>3, <2>4, QuietOrderly
<1>3. CASE NewBlock
  BY <1>3, NewBlockOrderly, Zenon
<1>4. CASE HandleErc20Activity
  BY <1>4, ActivityOrderly
<1>5. CASE BalanceStart
  BY <1>5, StartOrderly
<1>6. CASE BalanceRead
  BY <1>6, ReadOrderly
<1>p. CASE BalanceProcess
  BY <1>p, ProcessOrderly
<1>7. CASE BalanceWrite
  BY <1>7, WriteOrderly
<1>8. CASE BalanceAbort
  BY <1>8, AbortOrderly
<1>9. CASE ReindexCommit
  BY <1>9, CommitOrderly, Zenon
<1> QED
  BY <1>1, <1>2, <1>3, <1>4, <1>5, <1>6, <1>p, <1>7, <1>8, <1>9, ZenonT(40) DEF Next

(* HANDLE_ERC20_BALANCE never meets a balance that was updated later.      *)
THEOREM NeverThrowsHolds == Spec => []NeverThrows
<1>1. Typed /\ Orderly => NeverThrows
  <2> SUFFICES ASSUME Typed, Orderly, "raced" \notin faults, job.pc = "half"
               PROVE  Processed(contract.supply, job.balances, job.acts).ok
    BY Zenon DEF NeverThrows
  <2>1. job # Idle /\ contract \in ContractRow /\ job.acts \in Seq(DOMAIN events)
        /\ job.balances = Only(balances, Parties(job.acts))
    BY HalfFacts, Zenon DEF Orderly
  <2>2. PICK u, v : /\ u = Processed(contract.supply, job.balances, job.acts)
                    /\ v = Processed(contract.supply, balances, job.acts)
    BY Zenon
  <2>3. Framed(u, v, balances)
    <3>1. Heights /\ BalanceRows(balances) /\ contract.supply \in Reported
      BY <2>1, Zenon DEF Typed, Stored, ContractRow
    <3> QED
      BY <2>1, <2>2, <3>1, ProcessedFrame, Zenon
  <2>4. v.ok
    BY <2>1, <2>2, ProcessedJob, Zenon
  <2> QED
    BY <2>2, <2>3, <2>4, Zenon DEF Framed
<1> QED
  BY <1>1, InitTyped, InitOrderly, TypedStep, OrderlyStep, PTL DEF Spec
-----------------------------------------------------------------------------
(* While nothing has gone wrong, activities and balances are complete.     *)
All(ids, lo, hi) ==
    \A i \in DOMAIN events : lo < events[i].height /\ events[i].height <= hi => i \in ids

(* The balances of block h.                                                *)
BalancesAt(bs, h) == \A a \in Addr : Held(bs, a) = Balance(a, h)

(* Up to its checkpoint each job has done everything.                      *)
Exact ==
    faults = {} =>
        /\ All(Range(activity), StartBlock, cp["activity"])
        /\ Tracked => \A h \in Int : h = cp["balance"] => BalancesAt(balances, h)
        /\ Tracked /\ job # Idle => All(Range(job.acts), cp["balance"], job.end)
        /\ Writing /\ job.contract.track => \A h \in Int : h = job.end => BalancesAt(Result, h)

(* Exact holds initially.                                                  *)
LEMMA InitExact == Init => Exact
<1> SUFFICES ASSUME Init PROVE Exact
  OBVIOUS
<1>1. events = <<>> /\ contract = NoContract /\ job = Idle /\ job.pc = "idle" /\ DOMAIN <<>> = {}
  BY DEF Init, Idle
<1> QED
  BY <1>1, Zenon DEF Exact, All, Tracked, Writing

(* Exact is kept by steps that leave rows, checkpoints and the job alone   *)
(* and start to track nothing.                                             *)
LEMMA QuietExact ==
  ASSUME Exact, faults' = {} => faults = {} , cp'["balance"] = cp["balance"], cp'["activity"] = cp["activity"],
         UNCHANGED <<head, events, balances, activity, job>>, Tracked' => Tracked
  PROVE  Exact'
<1>1. \A a, h : Balance(a, h)' = Balance(a, h)
  BY ChainStays, Zenon
<1>2. \A bs, h : BalancesAt(bs, h)' <=> BalancesAt(bs, h)
  BY <1>1, Zenon DEF BalancesAt
<1> SUFFICES ASSUME faults = {}, faults' = {} PROVE Exact'
  BY Zenon DEF Exact
<1>3. All(Range(activity), StartBlock, cp["activity"])'
  BY Zenon DEF Exact, All
<1>4. Tracked' => \A h \in Int : h = cp'["balance"] => BalancesAt(balances, h)'
  BY <1>1, Zenon DEF Exact, BalancesAt
<1>5. (Tracked /\ job # Idle)' => All(Range(job.acts), cp["balance"], job.end)'
  BY Zenon DEF Exact, All
<1>6. (Writing /\ job.contract.track)' => \A h \in Int : h = job'.end => BalancesAt(Result, h)'
  BY <1>1, Zenon DEF Exact, BalancesAt, Writing, Result
<1> QED
  BY <1>3, <1>4, <1>5, <1>6 DEF Exact

(* A new block is above every checkpoint.                                  *)
LEMMA NewBlockExact ==
  ASSUME Typed, Exact, NewBlock
  PROVE  Exact'
<1>1. cp' = cp /\ balances' = balances /\ activity' = activity /\ job' = job /\ faults' = faults /\ contract' = contract
  BY Zenon DEF NewBlock, rows
<1>2. Heights /\ Continues /\ head \in Int
  BY NewBlockTyped, Zenon DEF Typed, Heights
<1>3. /\ \A h \in Int, a \in Addr : h <= head => Balance(a, h)' = Balance(a, h)
      /\ \A i \in DOMAIN events' : (i \in DOMAIN events /\ events'[i] = events[i]) \/ events'[i].height = head + 1
  <2>1. \A h \in Int, a \in Addr : h <= head => Balance(a, h)' = Balance(a, h)
    BY <1>2, ContinuesFacts, Zenon
  <2>2. \A i \in DOMAIN events' : (i \in DOMAIN events /\ events'[i] = events[i]) \/ events'[i].height = head + 1
    BY <1>2 DEF Continues
  <2> QED
    BY <2>1, <2>2, Zenon
<1>4. cp["balance"] \in Int /\ cp["activity"] \in Int /\ cp["balance"] <= head /\ cp["activity"] <= head
  BY <1>2, TypedFacts DEF Typed, Jobs
<1>5. job # Idle => job.end \in Int /\ job.end <= head
  BY <1>2, <1>4, JobFacts
<1> SUFFICES ASSUME faults = {} PROVE Exact'
  BY <1>1, Zenon DEF Exact
<1>6. All(Range(activity), StartBlock, cp["activity"])'
  BY <1>1, <1>2, <1>3, <1>4 DEF Exact, All
<1>7. Tracked' => \A h \in Int : h = cp'["balance"] => BalancesAt(balances, h)'
  BY <1>1, <1>3, <1>4, ZenonT(40) DEF Exact, BalancesAt, Tracked
<1>8. (Tracked /\ job # Idle)' => All(Range(job.acts), cp["balance"], job.end)'
  BY <1>1, <1>2, <1>3, <1>5 DEF Exact, All, Tracked
<1>9. (Writing /\ job.contract.track)' => \A h \in Int : h = job'.end => BalancesAt(Result, h)'
  <2>1. Writing => job # Idle
    BY DEF Writing, Idle
  <2> QED
    BY <1>1, <1>3, <1>5, <2>1, ZenonT(40) DEF Exact, BalancesAt, Writing, Result
<1> QED
  BY <1>6, <1>7, <1>8, <1>9 DEF Exact

(* A contract that gets its row before its first event is known, or that   *)
(* is tracked already, keeps the balances of the checkpoint.               *)
LEMMA UpsertExact ==
  ASSUME Typed, Exact, NEW last \in Int, Upsert(last), UNCHANGED <<head, events, job, crawled>>,
         cp'["balance"] = cp["balance"], cp'["activity"] = cp["activity"]
  PROVE  Exact'
<1>1. /\ balances' = balances /\ activity' = activity
      /\ faults' = IF contract # NoContract /\ ~ contract.track THEN faults \cup {"resumed"} ELSE faults
  BY Zenon DEF Upsert
<1>2. CASE Tracked
  BY <1>1, <1>2, QuietExact, ZenonT(40) DEF Tracked
<1>3. CASE contract # NoContract /\ ~ contract.track
  BY <1>1, <1>3, Zenon DEF Exact
<1>4. CASE contract = NoContract
  <2>1. balances = <<>> /\ activity = <<>> /\ (job # Idle => job.acts = <<>>) /\ faults' = faults
    BY <1>1, <1>4, Zenon DEF Typed, Nothing
  <2> SUFFICES ASSUME faults = {} PROVE Exact'
    BY <2>1, Zenon DEF Exact
  <2>2. Heights /\ Checkpoints
    BY Zenon DEF Typed
  <2>3. PICK c \in Int, d \in Int : c = cp["balance"] /\ d = cp["activity"] /\ StartBlock <= c /\ c <= d /\ StartBlock \in Int
    BY <2>2, TypedFacts DEF Checkpoints
  <2>4. \A i \in DOMAIN events : events[i].height \in Int /\ ~ events[i].height <= d
    <3>1. \A i \in DOMAIN events : events[i].height \in Int /\ StartBlock < events[i].height
      BY <2>2, EventTyped, Zenon DEF Heights
    <3> QED
      BY <2>1, <2>3, <3>1, EmptySequence DEF Exact, All
  <2>5. \A i \in DOMAIN events : ~ events[i].height <= c
    BY <2>3, <2>4
  <2>6. \A a \in Addr : Balance(a, c) = 0 /\ Held(<<>>, a) = 0
    BY <2>2, <2>5, NothingOwned, Zenon
  <2>7. \A a, h : Balance(a, h)' = Balance(a, h)
    BY ChainStays, Zenon
  <2>8. \A h \in Int : h = cp'["balance"] => BalancesAt(balances, h)'
    BY <1>1, <2>1, <2>3, <2>6, <2>7 DEF BalancesAt
  <2>9. All(Range(activity), StartBlock, cp["activity"])'
    BY <2>3, <2>4, Zenon DEF All
  <2>10. (job # Idle)' => All(Range(job.acts), cp["balance"], job.end)'
    <3> SUFFICES ASSUME job # Idle PROVE All(Range(job.acts), cp["balance"], job.end)'
      BY Zenon
    <3>1. job.end \in Int /\ job.end <= d
      BY <2>3, JobFacts, Zenon
    <3> QED
      BY <2>3, <2>4, <3>1 DEF All
  <2>11. ~ Writing'
    BY <2>1 DEF Writing, Idle
  <2> QED
    BY <2>8, <2>9, <2>10, <2>11 DEF Exact
<1> QED
  BY <1>2, <1>3, <1>4, Zenon DEF Tracked

(* HANDLE_ERC20_ACTIVITY adds all events of its range, or the fault is     *)
(* recorded.                                                               *)
LEMMA ActivityExact ==
  ASSUME Typed, Exact, HandleErc20Activity
  PROVE  Exact'
<1>1. PICK end \in Int :
         /\ cp["activity"] < end
         /\ cp' = [cp EXCEPT !["activity"] = end]
         /\ faults' = IF contract = NoContract /\ InBlocks(cp["activity"], end) # {}
                      THEN faults \cup {"late"} ELSE faults
         /\ \E new \in Seq(Nat) :
               /\ Range(activity') = Range(activity) \cup Range(new)
               /\ contract # NoContract => Range(new) = InBlocks(cp["activity"], end)
  BY ActivityJobFacts, Zenon
<1>2. PICK new \in Seq(Nat) :
         /\ Range(activity') = Range(activity) \cup Range(new)
         /\ contract # NoContract => Range(new) = InBlocks(cp["activity"], end)
  BY <1>1, Zenon
<1>3. head' = head /\ events' = events /\ balances' = balances /\ job' = job /\ contract' = contract
  BY Zenon DEF HandleErc20Activity, node
<1>4. cp'["balance"] = cp["balance"] /\ cp'["activity"] = end /\ cp["activity"] \in Int
  BY <1>1, Zenon DEF Typed, Checkpoints, Jobs
<1>5. \A a, h : Balance(a, h)' = Balance(a, h)
  BY <1>3, ChainStays, Zenon
<1> SUFFICES ASSUME faults' = {} PROVE Exact'
  BY Zenon DEF Exact
<1>6. faults = {} /\ InBlocks(cp["activity"], end) \subseteq Range(new)
  BY <1>1, <1>2, Zenon
<1>7. All(Range(activity), StartBlock, cp["activity"])'
  <2>1. \A i \in DOMAIN events : events[i].height \in Int
    BY EventTyped, Zenon DEF Typed
  <2>2. ASSUME NEW i \in DOMAIN events, StartBlock < events[i].height, events[i].height <= end
        PROVE  i \in Range(activity')
    <3>1. CASE events[i].height <= cp["activity"]
      BY <1>2, <1>6, <2>2, <3>1, ZenonT(40) DEF Exact, All
    <3>2. CASE cp["activity"] < events[i].height
      <4>1. i \in InBlocks(cp["activity"], end)
        BY <2>2, <3>2, ZenonT(40) DEF InBlocks
      <4> QED
        BY <1>2, <1>6, <4>1, Zenon
    <3> QED
      BY <1>4, <2>1, <3>1, <3>2
  <2> QED
    BY <1>3, <1>4, <2>2, Zenon DEF All
<1>8. Tracked' => \A h \in Int : h = cp'["balance"] => BalancesAt(balances, h)'
  BY <1>3, <1>4, <1>5, <1>6 DEF Exact, BalancesAt, Tracked
<1>9. (Tracked /\ job # Idle)' => All(Range(job.acts), cp["balance"], job.end)'
  BY <1>3, <1>4, <1>6, ZenonT(40) DEF Exact, All, Tracked
<1>10. (Writing /\ job.contract.track)' => \A h \in Int : h = job'.end => BalancesAt(Result, h)'
  BY <1>3, <1>5, <1>6, ZenonT(40) DEF Exact, BalancesAt, Writing, Result
<1> QED
  BY <1>7, <1>8, <1>9, <1>10 DEF Exact

(* HANDLE_ERC20_BALANCE reads all activities of its range.                 *)
LEMMA StartExact ==
  ASSUME Typed, Exact, BalanceStart
  PROVE  Exact'
<1>1. PICK end \in Int, acts \in Seq(Nat) :
         /\ end <= cp["activity"] /\ job' = [pc |-> "read", acts |-> acts, end |-> end]
         /\ Tracked => Range(acts) = Range(activity) \cap InBlocks(cp["balance"], end)
  BY StartFacts, Zenon
<1>2. /\ cp' = cp /\ head' = head /\ events' = events /\ balances' = balances /\ activity' = activity
      /\ faults' = faults /\ contract' = contract
  BY Zenon DEF BalanceStart, node, rows
<1>3. job'.pc = "read" /\ job'.acts = acts /\ job'.end = end
  BY <1>1, Zenon
<1>4. \A a, h : Balance(a, h)' = Balance(a, h)
  BY <1>2, ChainStays, Zenon
<1> SUFFICES ASSUME faults = {} PROVE Exact'
  BY <1>2, Zenon DEF Exact
<1>5. All(Range(activity), StartBlock, cp["activity"])'
  BY <1>2, Zenon DEF Exact, All
<1>6. Tracked' => \A h \in Int : h = cp'["balance"] => BalancesAt(balances, h)'
  BY <1>2, <1>4, ZenonT(40) DEF Exact, BalancesAt, Tracked
<1>7. Tracked => All(Range(acts), cp["balance"], end)
  <2>1. \A i \in DOMAIN events : events[i].height \in Int
    BY EventTyped, Zenon DEF Typed
  <2>2. StartBlock \in Int /\ cp["balance"] \in Int /\ StartBlock <= cp["balance"] /\ cp["activity"] \in Int
    BY TypedFacts DEF Typed, Checkpoints
  <2> QED
    BY <1>1, <2>1, <2>2 DEF Exact, All, InBlocks
<1>8. (Tracked /\ job # Idle)' => All(Range(job.acts), cp["balance"], job.end)'
  BY <1>2, <1>3, <1>7, Zenon DEF All, Tracked
<1>9. ~ Writing'
  BY <1>3, Zenon DEF Writing
<1> QED
  BY <1>5, <1>6, <1>8, <1>9 DEF Exact

(* Its first query changes nothing.                                        *)
LEMMA ReadExact ==
  ASSUME Typed, Exact, BalanceRead
  PROVE  Exact'
<1>1. /\ cp' = cp /\ head' = head /\ events' = events /\ balances' = balances /\ activity' = activity
      /\ faults' = faults /\ contract' = contract
  BY Zenon DEF BalanceRead, node, rows
<1>2. job # Idle /\ job'.acts = job.acts /\ job'.end = job.end
  BY ReadFacts, Zenon
<1>3. \A a, h : Balance(a, h)' = Balance(a, h)
  BY <1>1, ChainStays, Zenon
<1> SUFFICES ASSUME faults = {} PROVE Exact'
  BY <1>1, Zenon DEF Exact
<1>4. All(Range(activity), StartBlock, cp["activity"])'
  BY <1>1, Zenon DEF Exact, All
<1>5. Tracked' => \A h \in Int : h = cp'["balance"] => BalancesAt(balances, h)'
  BY <1>1, <1>3, Zenon DEF Exact, BalancesAt, Tracked
<1>6. (Tracked /\ job # Idle)' => All(Range(job.acts), cp["balance"], job.end)'
  BY <1>1, <1>2, Zenon DEF Exact, All, Tracked
<1>7. ~ Writing'
  BY <1>2, ReadFacts DEF Writing
<1> QED
  BY <1>4, <1>5, <1>6, <1>7 DEF Exact

(* It computes the balances of the chain at the end of its range.          *)
LEMMA ProcessExact ==
  ASSUME Typed, Orderly, Exact, BalanceProcess
  PROVE  Exact'
<1>1. /\ cp' = cp /\ head' = head /\ events' = events /\ balances' = balances /\ activity' = activity
      /\ faults' = faults /\ contract' = contract
  BY Zenon DEF BalanceProcess, node, rows
<1>2. job.pc = "half" /\ job'.acts = job.acts /\ job'.end = job.end /\ job'.contract.track = contract.track
  BY ProcessFacts, Zenon
<1>3. \A a, h : Balance(a, h)' = Balance(a, h)
  BY <1>1, ChainStays, Zenon
<1>i. job # Idle /\ contract \in ContractRow /\ contract # NoContract
  BY <1>2, HalfFacts, Zenon
<1> SUFFICES ASSUME faults = {} PROVE Exact'
  BY <1>1, Zenon DEF Exact
<1>4. All(Range(activity), StartBlock, cp["activity"])'
  BY <1>1, Zenon DEF Exact, All
<1>5. Tracked' => \A h \in Int : h = cp'["balance"] => BalancesAt(balances, h)'
  BY <1>1, <1>3, Zenon DEF Exact, BalancesAt, Tracked
<1>6. (Tracked /\ job # Idle)' => All(Range(job.acts), cp["balance"], job.end)'
  BY <1>1, <1>2, <1>i, Zenon DEF Exact, All, Tracked
<1>7. ASSUME job'.contract.track, NEW h \in Int, h = job.end
      PROVE  BalancesAt(Result, h)'
  <2>1. PICK u : u = Processed(contract.supply, balances, job.acts)
    BY Zenon
  <2>2. "raced" \notin faults /\ job.seen = contract.id
    BY <1>2, Zenon DEF Orderly
  <2>3. Result' = u.balances
    BY <2>1, <2>2, ProcessFacts, Zenon
  <2>4. Tracked
    BY <1>2, <1>i, <1>7, Zenon DEF Tracked
  <2>5. cp["balance"] \in Int /\ All(Range(job.acts), cp["balance"], job.end) /\ BalancesAt(balances, cp["balance"])
    <3>1. cp["balance"] \in Int
      BY TypedFacts, Zenon DEF Typed
    <3> QED
      BY <1>i, <2>4, <3>1, Zenon DEF Exact
  <2>6. InBlocks(cp["balance"], job.end) \subseteq Range(job.acts)
    BY <2>5, Zenon DEF All, InBlocks
  <2>7. \A a \in Addr : Held(balances, a) = Balance(a, cp["balance"])
    BY <2>5, Zenon DEF BalancesAt
  <2>8. \A a \in Addr : Held(u.balances, a) = Balance(a, job.end)
    BY <1>i, <2>1, <2>2, <2>6, <2>7, ProcessedJob, ZenonT(40)
  <2> QED
    BY <1>3, <1>7, <2>3, <2>8, ZenonT(40) DEF BalancesAt
<1>8. (Writing /\ job.contract.track)' => \A h \in Int : h = job'.end => BalancesAt(Result, h)'
  BY <1>2, <1>7, Zenon
<1> QED
  BY <1>4, <1>5, <1>6, <1>8 DEF Exact

(* With the rows it writes the checkpoint that they belong to; a range     *)
(* without activities changes no balance.                                  *)
LEMMA WriteExact ==
  ASSUME Typed, Exact, BalanceWrite
  PROVE  Exact'
<1>1. /\ head' = head /\ events' = events /\ activity' = activity /\ (faults' = {} => faults = {})
      /\ job' = Idle /\ job.pc = "write" /\ cp' = [cp EXCEPT !["balance"] = job.end]
  BY Zenon DEF BalanceWrite, node
<1>2. job # Idle /\ job'.pc = "idle"
  BY <1>1 DEF Idle
<1>3. PICK c \in Int, e \in Int : c = cp["balance"] /\ e = job.end /\ c < e /\ c <= e
  BY <1>2, JobFacts, TypedFacts DEF Typed
<1>4. cp'["activity"] = cp["activity"] /\ cp'["balance"] = e
  BY <1>1, <1>3, Zenon DEF Typed, Checkpoints, Jobs
<1>5. \A a, h : Balance(a, h)' = Balance(a, h)
  BY <1>1, ChainStays, Zenon
<1> SUFFICES ASSUME faults = {} PROVE Exact'
  BY <1>1, Zenon DEF Exact
<1>6. All(Range(activity), StartBlock, cp["activity"])'
  BY <1>1, <1>4, Zenon DEF Exact, All
<1>7. ASSUME Tracked' PROVE \A a \in Addr : Held(balances', a) = Balance(a, e)
  <2>1. CASE job.acts = <<>>
    <3>1. contract' = contract /\ balances' = balances
      BY <2>1, Zenon DEF BalanceWrite
    <3>2. BalancesAt(balances, c) /\ All({}, c, e)
      BY <1>2, <1>3, <1>7, <2>1, <3>1, EmptySequence, ZenonT(40) DEF Exact, Tracked
    <3>3. InBlocks(c, e) = {}
      BY <3>2, Zenon DEF All, InBlocks
    <3>4. \A a \in Addr : Balance(a, c) = Balance(a, e)
      BY <1>3, <3>3, SameBalance, Zenon DEF Typed
    <3> QED
      BY <3>1, <3>2, <3>4, Zenon DEF BalancesAt
  <2>2. CASE job.acts # <<>>
    <3>1. contract' = job.contract /\ balances' = Result
      BY <2>2, Zenon DEF BalanceWrite, Result
    <3>2. BalancesAt(Result, e)
      BY <1>1, <1>3, <1>7, <2>2, <3>1, ZenonT(40) DEF Exact, Tracked, Writing
    <3> QED
      BY <3>1, <3>2, Zenon DEF BalancesAt
  <2> QED
    BY <2>1, <2>2, Zenon
<1>8. Tracked' => \A h \in Int : h = cp'["balance"] => BalancesAt(balances, h)'
  BY <1>4, <1>5, <1>7 DEF BalancesAt
<1>9. ~ Writing'
  BY <1>2, Zenon DEF Writing
<1> QED
  BY <1>1, <1>6, <1>8, <1>9 DEF Exact

(* Exact is kept by a failure of that job.                                 *)
LEMMA AbortExact ==
  ASSUME Typed, Exact, BalanceAbort
  PROVE  Exact'
<1>1. /\ cp' = cp /\ head' = head /\ events' = events /\ balances' = balances /\ activity' = activity
      /\ faults' = faults /\ contract' = contract /\ job' = Idle /\ job'.pc = "idle"
  BY Zenon DEF BalanceAbort, node, rows, Idle
<1>2. \A a, h : Balance(a, h)' = Balance(a, h)
  BY <1>1, ChainStays, Zenon
<1> SUFFICES ASSUME faults = {} PROVE Exact'
  BY <1>1, Zenon DEF Exact
<1>3. All(Range(activity), StartBlock, cp["activity"])'
  BY <1>1, Zenon DEF Exact, All
<1>4. Tracked' => \A h \in Int : h = cp'["balance"] => BalancesAt(balances, h)'
  BY <1>1, <1>2, Zenon DEF Exact, BalancesAt, Tracked
<1>5. ~ Writing'
  BY <1>1, Zenon DEF Writing
<1> QED
  BY <1>1, <1>3, <1>4, <1>5 DEF Exact

(* A reindexing that overtakes nobody restores Exact.                      *)
LEMMA CommitExact ==
  ASSUME Typed, ReindexCommit
  PROVE  Exact'
<1>1. cp' = cp /\ head' = head /\ events' = events /\ job' = job
  BY Zenon DEF ReindexCommit, node
<1> SUFFICES ASSUME faults' = {} PROVE Exact'
  BY Zenon DEF Exact
<1>2. "raced" \notin faults'
  BY Zenon
<1>3. /\ Range(activity') = InBlocks(StartBlock, crawled)
      /\ \A i \in DOMAIN events : events[i].height <= crawled => events[i].height <= cp["balance"]
      /\ job # Idle => job.acts = <<>>
      /\ \A a \in Addr : Held(balances', a) = Balance(a, cp["balance"])
  BY <1>2, CleanCommit, Zenon
<1>4. \A i \in DOMAIN events : events[i].height \in Int
  BY EventTyped, Zenon DEF Typed
<1>5. cp["balance"] \in Int /\ cp["activity"] \in Int /\ crawled \in Int /\ cp["activity"] <= crawled
  BY TypedFacts, Zenon DEF Typed, Jobs
<1>6. \A a, h : Balance(a, h)' = Balance(a, h)
  BY <1>1, ChainStays, ZenonT(40)
<1>7. All(Range(activity), StartBlock, cp["activity"])'
  BY <1>1, <1>3, <1>4, <1>5 DEF All, InBlocks
<1>8. \A h \in Int : h = cp'["balance"] => BalancesAt(balances, h)'
  BY <1>1, <1>3, <1>6, Zenon DEF BalancesAt
<1>9. (job # Idle)' => All(Range(job.acts), cp["balance"], job.end)'
  <2> SUFFICES ASSUME job # Idle PROVE All(Range(job.acts), cp["balance"], job.end)'
    BY <1>1, Zenon
  <2>1. job.end \in Int /\ job.end <= crawled
    BY <1>5, JobFacts
  <2>2. \A i \in DOMAIN events : ~ (cp["balance"] < events[i].height /\ events[i].height <= job.end)
    BY <1>3, <1>4, <1>5, <2>1
  <2> QED
    BY <1>1, <2>2, Zenon DEF All
<1>10. ~ Writing'
  BY <1>1, <1>3 DEF Writing, Idle
<1> QED
  BY <1>7, <1>8, <1>9, <1>10 DEF Exact

(* Every action keeps Exact.                                               *)
LEMMA ExactStep == Typed /\ Orderly /\ Exact /\ [Next]_vars => Exact'
<1> SUFFICES ASSUME Typed, Orderly, Exact, [Next]_vars PROVE Exact'
  BY Zenon
<1>1. CASE UNCHANGED vars \/ CrawlContracts \/ NewAccount \/ LoseCall \/ ReindexRequest \/ ReindexFail
           \/ ReindexDelete \/ ReindexUntrack
  <2>1. UNCHANGED <<head, events, balances, activity, job, cp, faults>>
    BY <1>1, Zenon DEF vars, CrawlContracts, NewAccount, LoseCall, ReindexRequest, ReindexFail, ReindexDelete,
       ReindexUntrack, node, rows
  <2>2. Tracked' => Tracked
    <3>1. CASE ReindexUntrack
      BY <3>1, UntrackTyped, Zenon DEF Tracked, ContractRow
    <3>2. CASE ~ ReindexUntrack
      <4>1. contract' = contract
        BY <1>1, <3>2, Zenon DEF vars, CrawlContracts, NewAccount, LoseCall, ReindexRequest, ReindexFail,
           ReindexDelete, rows
      <4> QED
        BY <4>1, Zenon DEF Tracked
    <3> QED
      BY <3>1, <3>2, Zenon
  <2> QED
    BY <2>1, <2>2, QuietExact, Zenon
<1>2. CASE HandleErc20Contract \/ HandleProxyHistory \/ InsertNewErc20Contracts
  <2>1. UNCHANGED <<head, events, job, crawled>>
    BY <1>2, Zenon DEF HandleErc20Contract, HandleProxyHistory, InsertNewErc20Contracts, node
  <2>2. cp'["balance"] = cp["balance"] /\ cp'["activity"] = cp["activity"]
    BY <1>2, Zenon DEF HandleErc20Contract, HandleProxyHistory, InsertNewErc20Contracts, Typed, Checkpoints, Jobs
  <2>3. \/ \E last \in Int : Upsert(last)
        \/ UNCHANGED <<rows, faults>>
    <3>1. StartBlock + 1 \in Int /\ head \in Int
      BY StartBlockAssumption DEF Typed, Heights
    <3> QED
      BY <1>2, <3>1, Zenon DEF HandleErc20Contract, HandleProxyHistory, InsertNewErc20Contracts
  <2>4. CASE \E last \in Int : Upsert(last)
    BY <2>1, <2>2, <2>4, UpsertExact
  <2>5. CASE UNCHANGED <<rows, faults>>
    <3>1. UNCHANGED <<balances, activity>> /\ contract' = contract /\ faults' = faults
      BY <2>5, Zenon DEF rows
    <3> QED
      BY <2>1, <2>2, <3>1, QuietExact DEF Tracked
  <2> QED
    BY <2>3, <2>4, <2>5, Zenon
<1>3. CASE NewBlock
  BY <1>3, NewBlockExact, Zenon
<1>4. CASE HandleErc20Activity
  BY <1>4, ActivityExact
<1>5. CASE BalanceStart
  BY <1>5, StartExact
<1>6. CASE BalanceRead
  BY <1>6, ReadExact
<1>p. CASE BalanceProcess
  BY <1>p, ProcessExact
<1>7. CASE BalanceWrite
  BY <1>7, WriteExact
<1>8. CASE BalanceAbort
  BY <1>8, AbortExact
<1>9. CASE ReindexCommit
  BY <1>9, CommitExact, Zenon
<1> QED
  BY <1>1, <1>2, <1>3, <1>4, <1>5, <1>6, <1>p, <1>7, <1>8, <1>9, ZenonT(40) DEF Next

(* The inductive invariant.                                                *)
LEMMA InvariantHolds == Spec => [](Typed /\ Orderly /\ Exact)
  BY InitTyped, InitOrderly, InitExact, TypedStep, OrderlyStep, ExactStep, PTL DEF Spec

(* The balances of a tracked contract are those of the chain at the        *)
(* checkpoint of HANDLE_ERC20_BALANCE, if nothing went wrong.              *)
THEOREM BalancesHold == Spec => []BalancesAtCheckpoint
<1>1. Typed /\ Orderly /\ Exact => BalancesAtCheckpoint
  <2> SUFFICES ASSUME Typed, Exact, Tracked, faults = {}, NEW a \in Addr
               PROVE  Balance(a, cp["balance"]) = IF a \in DOMAIN balances THEN balances[a].amount ELSE 0
    BY Zenon DEF BalancesAtCheckpoint
  <2>1. cp["balance"] \in Int
    BY TypedFacts, Zenon DEF Typed
  <2>2. Held(balances, a) = Balance(a, cp["balance"])
    BY <2>1 DEF Exact, BalancesAt
  <2> QED
    BY <2>2, Zenon DEF Held
<1> QED
  BY <1>1, InvariantHolds, PTL

(* Every event up to the checkpoint of HANDLE_ERC20_ACTIVITY has exactly   *)
(* one row of erc20_activity, if nothing went wrong.                       *)
THEOREM ActivityHolds == Spec => []ActivityOnce
<1>1. Typed /\ Orderly /\ Exact => ActivityOnce
  <2> SUFFICES ASSUME Typed, Orderly, Exact, faults = {}, NEW i \in InBlocks(StartBlock, cp["activity"])
               PROVE  Cardinality({k \in DOMAIN activity : activity[k] = i}) = 1
    BY Zenon DEF ActivityOnce
  <2>1. activity \in Seq(Nat) /\ IncreasingOn(activity, Nat)
    BY Zenon DEF Typed, Stored, Orderly
  <2>2. PICK n \in Nat : DOMAIN activity = 1 .. n /\ \A k \in 1 .. n : activity[k] \in Nat
    BY <2>1
  <2>3. i \in Range(activity)
    BY Zenon DEF Exact, All, InBlocks
  <2>4. PICK j \in 1 .. n : activity[j] = i
    BY <2>2, <2>3, InRange
  <2>5. \A k \in 1 .. n : activity[k] = i => k = j
    BY <2>1, <2>2, <2>4 DEF IncreasingOn
  <2>6. {k \in DOMAIN activity : activity[k] = i} = {j}
    BY <2>2, <2>4, <2>5, Zenon
  <2> QED
    BY <2>6, FS_Singleton
<1> QED
  BY <1>1, InvariantHolds, PTL
=============================================================================
