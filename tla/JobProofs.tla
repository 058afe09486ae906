----------------------------- MODULE JobProofs ------------------------------
(***************************************************************************)
(* What holds of the jobs that follow other jobs, for every value of the   *)
(* constants.                                                              *)
(*                                                                         *)
(* Of JobGraph, for every set of jobs, every range size and every chain: a *)
(* checkpoint vouches for the blocks below it, a guarded job derives no    *)
(* block twice, and once every job has its row no job overtakes a          *)
(* dependency.                                                             *)
(*                                                                         *)
(* Of TablePartitions, for every size of the partitions, of the batches    *)
(* and of the losses that SizeAssumption allows: the jobs keep a place for *)
(* the next rows, and no constraint ever refuses one.                      *)
(*                                                                         *)
(* Of Verification and EvmContracts, the jobs of the EVM contracts: the    *)
(* verdicts of VERIFY_CONTRACT_EVM are right, for all uploads, any number  *)
(* of requests in a run, and deaths and outages at any time, and           *)
(* CreatorsRight and ProxiesCurrent hold for chains of any length, any     *)
(* number of messages and any range of the jobs.                           *)
(***************************************************************************)
EXTENDS JobGraph, TablePartitions, Verification, EvmContracts, SequenceTheorems,
        WellFoundedInduction, TLAPS

(* The provers that try a leaf, one after the other, and their time in     *)
(* seconds.                                                                *)
USE SMTT(40), ZenonT(40)

(* A nonempty set of heights has a least one.                              *)
LEMMA LeastHeight ==
    ASSUME NEW S \in SUBSET Nat, S # {}
    PROVE  \E x \in S : \A y \in S : x <= y
<1> DEFINE R == OpToRel(<, Nat)
<1>1. PICK x \in S : \A y \in S : ~ (<<y, x>> \in R)
  <2>1. IsWellFoundedOn(R, Nat)
    BY NatLessThanWellFounded, Zenon
  <2> HIDE DEF R
  <2> QED
    BY <2>1, WFMin, Zenon
<1>2. ASSUME NEW y \in S PROVE x <= y
  <2>1. ~ (<<y, x>> \in R)
    BY <1>1, Zenon
  <2>2. ~ (y < x)
    BY <2>1, Zenon DEF OpToRel
  <2> QED
    BY <2>2
<1> QED
  BY <1>2, Zenon

(* What getCheckpoint reads for the dependencies: nothing, or the lowest   *)
(* of the rows that exist.                                                 *)
LEMMA LastHeightIsLeast ==
    ASSUME NEW D, NEW rs, \A d \in D : rs[d] \in {NoRow} \cup Nat
    PROVE  LET present == {d \in D : rs[d] # NoRow}
           IN  /\ present = {} => LastHeight(rs, D) = NoRow
               /\ present # {} =>
                     /\ LastHeight(rs, D) \in Nat
                     /\ \A d \in present : LastHeight(rs, D) <= rs[d]
                     /\ \E d \in present : LastHeight(rs, D) = rs[d]
<1> DEFINE present == {d \in D : rs[d] # NoRow}
<1>1. present = {} => LastHeight(rs, D) = NoRow
  BY Zenon DEF LastHeight
<1>2. ASSUME present # {}
      PROVE  /\ LastHeight(rs, D) \in Nat
             /\ \A d \in present : LastHeight(rs, D) <= rs[d]
             /\ \E d \in present : LastHeight(rs, D) = rs[d]
  <2> DEFINE S == {rs[d] : d \in present}
  <2>1. S \in SUBSET Nat /\ S # {}
    BY <1>2, Zenon
  <2>2. PICK x \in S : \A y \in S : x <= y
    <3> HIDE DEF S
    <3> QED
      BY <2>1, LeastHeight, Zenon
  <2>3. \E d \in present : \A e \in present : rs[d] <= rs[e]
    BY <2>2, Zenon
  <2> DEFINE c == CHOOSE d \in present : \A e \in present : rs[d] <= rs[e]
  <2>4. c \in present /\ \A e \in present : rs[c] <= rs[e]
    BY <2>3, Zenon
  <2>5. LastHeight(rs, D) = rs[c]
    BY <1>2, Zenon DEF LastHeight
  <2>6. rs[c] \in Nat
    BY <2>4, Zenon
  <2> QED
    BY <2>4, <2>5, <2>6, Zenon
<1> QED
  BY <1>1, <1>2, Zenon

(* The range of a job, whatever rows exist.                                *)
LEMMA RangeType ==
    ASSUME TypeOK, NEW j \in Active
    PROVE  /\ StartHeight(cp[j]) \in Nat
           /\ EndHeight(StartHeight(cp[j]), LastHeight(cp, Deps(j)), StepOf[j]) \in Nat
<1> DEFINE s == StartHeight(cp[j])
           l == LastHeight(cp, Deps(j))
<1>1. cp[j] \in {NoRow} \cup Nat /\ \A d \in Deps(j) : cp[d] \in {NoRow} \cup Nat
  BY GraphAssumption, Zenon DEF TypeOK, All
<1>2. s \in Nat
  BY <1>1, StartBlockAssumption, Zenon DEF StartHeight
<1>3. l \in {NoRow} \cup Nat
  BY <1>1, LastHeightIsLeast, Zenon
<1>4. StepOf[j] \in {NoStep} \cup (Nat \ {0})
  BY GraphAssumption, Zenon
<1> HIDE DEF s, l
<1>5. EndHeight(s, l, StepOf[j]) \in Nat
  BY <1>2, <1>3, <1>4 DEF EndHeight, SmallerOf, NoRow, NoStep
<1> QED
  BY <1>2, <1>5, Zenon DEF s, l

(* When every dependency has a row the range ends at or below each.        *)
LEMMA RangeBelowDeps ==
    ASSUME TypeOK, Settled, NEW j \in Active
    PROVE  LET end == EndHeight(StartHeight(cp[j]), LastHeight(cp, Deps(j)), StepOf[j])
           IN  /\ StartHeight(cp[j]) = cp[j]
               /\ cp[j] <= end
               /\ \A d \in Deps(j) : end <= cp[d]
<1> DEFINE s == StartHeight(cp[j])
           l == LastHeight(cp, Deps(j))
<1>1. /\ cp[j] \in Nat
      /\ Deps(j) # {}
      /\ \A d \in Deps(j) : cp[d] \in Nat /\ cp[j] <= cp[d]
  BY GraphAssumption, Zenon DEF TypeOK, All, Settled, JobSettled
<1>2. s = cp[j]
  BY <1>1 DEF StartHeight, NoRow
<1>3. {d \in Deps(j) : cp[d] # NoRow} = Deps(j)
  BY <1>1 DEF NoRow
<1>4. /\ l \in Nat
      /\ \A d \in Deps(j) : l <= cp[d]
      /\ \E d \in Deps(j) : l = cp[d]
  BY <1>1, <1>3, LastHeightIsLeast, Zenon
<1>5. cp[j] <= l
  BY <1>1, <1>4, Zenon
<1>6. StepOf[j] \in {NoStep} \cup (Nat \ {0})
  BY GraphAssumption, Zenon
<1> HIDE DEF s, l
<1>7. cp[j] <= EndHeight(s, l, StepOf[j]) /\ EndHeight(s, l, StepOf[j]) <= l
  BY <1>1, <1>2, <1>4, <1>5, <1>6 DEF EndHeight, SmallerOf, NoRow, NoStep
<1>8. EndHeight(s, l, StepOf[j]) \in Nat
  BY <1>1, <1>2, <1>4, <1>6 DEF EndHeight, SmallerOf, NoRow, NoStep
<1>9. \A d \in Deps(j) : EndHeight(s, l, StepOf[j]) <= cp[d]
  BY <1>1, <1>4, <1>7, <1>8
<1> QED
  BY <1>2, <1>7, <1>9, Zenon DEF s, l

(* The invariant holds initially.                                          *)
LEMMA GInit == JobInit => GInv
<1> SUFFICES ASSUME JobInit PROVE GInv
  BY Zenon
<1>1. TypeOK
  BY StartBlockAssumption, Zenon DEF JobInit, TypeOK, NoRow, Heights
<1>2. NoGap
  <2> SUFFICES ASSUME NEW j \in All, NEW h \in Heights, h <= cp[j] PROVE FALSE
    BY Zenon DEF NoGap
  <2>1. h \in Int /\ h > StartBlock
    BY StartBlockAssumption DEF Heights
  <2> QED
    BY <2>1, StartBlockAssumption DEF JobInit, NoRow
<1>3. \A j \in All, h \in Heights : done[j][h] = 0
  BY Zenon DEF JobInit
<1>4. Steady
  BY <1>3 DEF Steady, JobSteady, Derived, JobInit, All
<1>5. ~ fresh => Settled
  <2> SUFFICES ASSUME ~ fresh PROVE Settled
    BY Zenon
  <2>1. \A j \in All : cp[j] = StartBlock
    BY Zenon DEF JobInit
  <2>2. \A j \in Active : j \in All /\ \A d \in Deps(j) : d \in All
    BY GraphAssumption, Zenon DEF All
  <2>3. \A j \in Active : JobSettled(j)
    BY <2>1, <2>2, StartBlockAssumption DEF JobSettled, JobInit
  <2> QED
    BY <2>1, <2>3, <1>3, StartBlockAssumption DEF Settled, Derived, NoRow
<1> QED
  BY <1>1, <1>2, <1>4, <1>5, Zenon DEF GInv

(* A source that finishes a block.                                         *)
LEMMA GIngest ==
    ASSUME GInv, NEW s \in Sources, Ingest(s)
    PROVE  GInv'
<1> DEFINE k == StartHeight(cp[s]) + 1
<1>1. /\ s \in All /\ s \notin Active
      /\ cp[s] \in {NoRow} \cup Nat
  BY GraphAssumption, Zenon DEF All, GInv, TypeOK
<1>2. k \in Nat /\ cp[s] < k
  BY <1>1, StartBlockAssumption DEF StartHeight, NoRow
<1>3. \A h \in Heights : h <= cp[s] \/ h = k \/ k < h
  <2> SUFFICES ASSUME NEW h \in Heights PROVE h <= cp[s] \/ h = k \/ k < h
    BY Zenon
  <2>1. h \in Int /\ h > StartBlock
    BY StartBlockAssumption DEF Heights
  <2> QED
    BY <1>1, <2>1, StartBlockAssumption DEF StartHeight, NoRow
<1>4. /\ cp' = [cp EXCEPT ![s] = k]
      /\ done' = [done EXCEPT ![s] = [@ EXCEPT ![k] = 1]]
      /\ fresh' = fresh /\ busy' = busy /\ from' = from /\ to' = to
  BY Zenon DEF Ingest
<1> HIDE DEF k
<1>5. TypeOK
  BY Zenon DEF GInv
<1>6. TypeOK'
  BY <1>1, <1>2, <1>4, <1>5, Zenon DEF TypeOK
<1>7. /\ \A j \in All : j # s => cp'[j] = cp[j] /\ done'[j] = done[j]
      /\ cp'[s] = k
      /\ \A h \in Heights : done'[s][h] = IF h = k THEN 1 ELSE done[s][h]
  BY <1>1, <1>4, <1>5, Zenon DEF TypeOK
<1>8. NoGap'
  <2> SUFFICES ASSUME NEW j \in All, NEW h \in Heights, h <= cp'[j]
               PROVE  done'[j][h] > 0
    BY Zenon DEF NoGap, Derived
  <2>1. h \in Int
    BY DEF Heights
  <2>2. \A i \in All : h <= cp[i] => done[i][h] > 0
    BY Zenon DEF GInv, NoGap, Derived
  <2>3. CASE j # s
    BY <1>7, <2>2, <2>3, Zenon
  <2>4. CASE j = s
    BY <1>2, <1>3, <1>7, <2>1, <2>2, <2>4
  <2> QED
    BY <2>3, <2>4, Zenon
<1>9. Steady'
  <2>1. \A j \in Active : j \in All /\ j # s
    BY <1>1, Zenon DEF All
  <2>2. ASSUME NEW j \in Active PROVE JobSteady(j)'
    <3>1. JobSteady(j)
      BY Zenon DEF GInv, Steady
    <3>2. cp'[j] = cp[j] /\ done'[j] = done[j]
      BY <1>7, <2>1, Zenon
    <3> QED
      BY <1>4, <3>1, <3>2, Zenon DEF JobSteady, Derived
  <2> QED
    BY <2>2, Zenon DEF Steady
<1>10. ~ fresh' => Settled'
  <2> SUFFICES ASSUME ~ fresh PROVE Settled'
    BY <1>4, Zenon
  <2>1. Settled
    BY Zenon DEF GInv
  <2>2. \A j \in All : cp[j] \in Nat /\ cp'[j] \in Nat /\ cp[j] <= cp'[j]
    BY <1>2, <1>5, <1>7, <2>1 DEF TypeOK, Settled
  <2>3. ASSUME NEW j \in Active PROVE JobSettled(j)'
    <3>1. j \in All /\ j # s /\ \A d \in Deps(j) : d \in All
      BY <1>1, GraphAssumption, Zenon DEF All
    <3>2. to[j] \in Nat /\ from[j] \in Nat
      BY <1>5, Zenon DEF TypeOK
    <3>3. JobSettled(j)
      BY <2>1, Zenon DEF Settled
    <3> QED
      BY <1>4, <1>7, <2>2, <3>1, <3>2, <3>3 DEF JobSettled
  <2>4. ASSUME NEW j \in All, NEW h \in Heights
        PROVE  done'[j][h] <= 1 /\ (done'[j][h] > 0 => h <= cp'[j])
    <3>1. h \in Int
      BY DEF Heights
    <3>2. done[j][h] <= 1 /\ (done[j][h] > 0 => h <= cp[j])
      BY <2>1, Zenon DEF Settled, Derived
    <3> QED
      BY <1>2, <1>7, <2>2, <3>1, <3>2
  <2> QED
    BY <2>2, <2>3, <2>4 DEF Settled, Derived, NoRow
<1> QED
  BY <1>6, <1>8, <1>9, <1>10, Zenon DEF GInv

(* A job that reads its range.                                             *)
LEMMA GStart ==
    ASSUME GInv, NEW j \in Active, Start(j)
    PROVE  GInv'
<1> DEFINE s == StartHeight(cp[j])
           e == EndHeight(s, LastHeight(cp, Deps(j)), StepOf[j])
<1>1. TypeOK
  BY Zenon DEF GInv
<1>2. s \in Nat /\ e \in Nat
  BY <1>1, RangeType, Zenon
<1>3. /\ ~ EmptyRange(j, s, e)
      /\ busy' = busy \cup {j}
      /\ from' = [from EXCEPT ![j] = s] /\ to' = [to EXCEPT ![j] = e]
      /\ fresh' = fresh /\ cp' = cp /\ done' = done
  BY Zenon DEF Start
<1>4. Guard(j) # "none" => s <= e
  <2>1. Guard(j) \in {"ge", "gt", "none"}
    BY GraphAssumption, Zenon
  <2> HIDE DEF s, e
  <2>2. Guard(j) = "ge" => ~ (s >= e)
    BY <1>3, Zenon DEF EmptyRange
  <2>3. Guard(j) = "gt" => ~ (s > e)
    BY <1>3, Zenon DEF EmptyRange
  <2> QED
    BY <1>2, <2>1, <2>2, <2>3
<1>5. ~ fresh => s = cp[j] /\ cp[j] <= e /\ \A d \in Deps(j) : e <= cp[d]
  BY <1>1, RangeBelowDeps, Zenon DEF GInv
<1>6. s = StartHeight(cp[j])
  BY Zenon
<1> HIDE DEF s, e
<1>7. TypeOK'
  BY <1>1, <1>2, <1>3, Zenon DEF TypeOK
<1>8. NoGap'
  BY <1>3, Zenon DEF GInv, NoGap, Derived
<1>9. /\ from'[j] = s /\ to'[j] = e
      /\ \A i \in Active : i # j => from'[i] = from[i] /\ to'[i] = to[i]
      /\ \A i : i # j => (i \in busy' <=> i \in busy)
  BY <1>1, <1>3, Zenon DEF TypeOK
<1>10. Steady'
  <2> SUFFICES ASSUME NEW i \in Active PROVE JobSteady(i)'
    BY Zenon DEF Steady
  <2>1. JobSteady(i)
    BY Zenon DEF GInv, Steady
  <2> QED
    BY <1>3, <1>4, <1>6, <1>9, <2>1, Zenon DEF JobSteady, Derived
<1>11. ~ fresh' => Settled'
  <2> SUFFICES ASSUME ~ fresh PROVE Settled'
    BY <1>3, Zenon
  <2>1. Settled
    BY Zenon DEF GInv
  <2>2. ASSUME NEW i \in Active PROVE JobSettled(i)'
    <3>1. JobSettled(i)
      BY <2>1, Zenon DEF Settled
    <3> QED
      BY <1>3, <1>5, <1>9, <3>1, Zenon DEF JobSettled
  <2> QED
    BY <1>3, <2>1, <2>2, Zenon DEF Settled, Derived
<1> QED
  BY <1>7, <1>8, <1>10, <1>11, Zenon DEF GInv

(* A job that gives up.                                                    *)
LEMMA GAbort ==
    ASSUME GInv, NEW j \in Active, Abort(j)
    PROVE  GInv'
<1>1. TypeOK
  BY DEF GInv
<1>2. /\ busy' = busy \ {j}
      /\ from' = [from EXCEPT ![j] = StartBlock] /\ to' = [to EXCEPT ![j] = StartBlock]
      /\ fresh' = fresh /\ cp' = cp /\ done' = done
  BY Zenon DEF Abort, Stop
<1>3. TypeOK'
  BY <1>1, <1>2, StartBlockAssumption, Zenon DEF TypeOK
<1>4. /\ \A i \in Active : i # j => from'[i] = from[i] /\ to'[i] = to[i]
      /\ j \notin busy' /\ \A i \in busy' : i \in busy
  BY <1>1, <1>2, Zenon DEF TypeOK
<1>5. NoGap'
  BY <1>2, Zenon DEF GInv, NoGap, Derived
<1>6. Steady'
  <2> SUFFICES ASSUME NEW i \in Active PROVE JobSteady(i)'
    BY DEF Steady
  <2>1. JobSteady(i)
    BY DEF GInv, Steady
  <2> QED
    BY <1>2, <1>4, <2>1, Zenon DEF JobSteady, Derived
<1>7. ~ fresh' => Settled'
  <2> SUFFICES ASSUME ~ fresh PROVE Settled'
    BY <1>2, Zenon
  <2>1. Settled
    BY DEF GInv
  <2>2. ASSUME NEW i \in Active PROVE JobSettled(i)'
    <3>1. JobSettled(i)
      BY <2>1 DEF Settled
    <3> QED
      BY <1>2, <1>4, <3>1, Zenon DEF JobSettled
  <2> QED
    BY <1>2, <2>1, <2>2, Zenon DEF Settled, Derived
<1> QED
  BY <1>3, <1>5, <1>6, <1>7 DEF GInv

(* A job that commits its range.                                           *)
LEMMA GCommit ==
    ASSUME GInv, NEW j \in Active, Commit(j)
    PROVE  GInv'
<1>1. TypeOK
  BY DEF GInv
<1>2. /\ j \in busy /\ busy' = busy \ {j}
      /\ done' = [done EXCEPT ![j] =
            [h \in Heights |-> IF from[j] < h /\ h <= to[j] THEN @[h] + 1 ELSE @[h]]]
      /\ cp' = [cp EXCEPT ![j] = to[j]]
      /\ from' = [from EXCEPT ![j] = StartBlock] /\ to' = [to EXCEPT ![j] = StartBlock]
      /\ fresh' = fresh
  BY Zenon DEF Commit, Stop
<1>3. /\ j \in All /\ cp[j] \in {NoRow} \cup Nat
      /\ from[j] \in Nat /\ to[j] \in Nat
      /\ done[j] \in [Heights -> Nat]
  BY <1>1, Zenon DEF TypeOK, All
<1>4. /\ \A i \in All : i # j => cp'[i] = cp[i] /\ done'[i] = done[i]
      /\ cp'[j] = to[j]
      /\ \A h \in Heights :
            done'[j][h] = IF from[j] < h /\ h <= to[j] THEN done[j][h] + 1 ELSE done[j][h]
  BY <1>1, <1>2, <1>3, Zenon DEF TypeOK
<1>5. /\ \A i \in Active : i # j => from'[i] = from[i] /\ to'[i] = to[i]
      /\ j \notin busy' /\ \A i \in busy' : i \in busy
  BY <1>1, <1>2, Zenon DEF TypeOK
<1>6. TypeOK'
  <2>1. done' \in [All -> [Heights -> Nat]]
    BY <1>1, <1>2, <1>3 DEF TypeOK
  <2> QED
    BY <1>1, <1>2, <1>3, <2>1, StartBlockAssumption, Zenon DEF TypeOK
<1>7. JobSteady(j) /\ from[j] = StartHeight(cp[j])
  BY <1>2, Zenon DEF GInv, Steady, JobSteady
<1>8. cp[j] <= from[j] /\ \A h \in Heights : h <= from[j] => h <= cp[j]
  <2>1. \A h \in Heights : h \in Int /\ h > StartBlock
    BY StartBlockAssumption DEF Heights
  <2> QED
    BY <1>3, <1>7, <2>1, StartBlockAssumption DEF StartHeight, NoRow
<1>9. NoGap'
  <2> SUFFICES ASSUME NEW i \in All, NEW h \in Heights, h <= cp'[i]
               PROVE  done'[i][h] > 0
    BY Zenon DEF NoGap, Derived
  <2>0. h \in Int
    BY DEF Heights
  <2>1. done[i][h] \in Nat /\ (h <= cp[i] => done[i][h] > 0)
    BY <1>1, Zenon DEF GInv, NoGap, Derived, TypeOK
  <2>2. CASE i # j
    BY <1>4, <2>1, <2>2, Zenon
  <2>3. CASE i = j
    BY <1>3, <1>4, <1>8, <2>0, <2>1, <2>3
  <2> QED
    BY <2>2, <2>3, Zenon
<1>10. ASSUME from[j] <= to[j],
              NEW h \in Heights,
              done[j][h] <= 1, done[j][h] > 0 => h <= cp[j]
       PROVE  done'[j][h] <= 1 /\ (done'[j][h] > 0 => h <= cp'[j])
  <2>1. h \in Int
    BY DEF Heights
  <2>2. done[j][h] \in Nat
    BY <1>3, Zenon
  <2>3. CASE from[j] < h /\ h <= to[j]
    <3>1. ~ (h <= cp[j])
      BY <1>3, <1>8, <2>1, <2>3 DEF NoRow
    <3>2. done'[j][h] = 1 /\ cp'[j] = to[j]
      BY <1>4, <1>10, <2>2, <2>3, <3>1
    <3> QED
      BY <2>3, <3>2
  <2>4. CASE ~ (from[j] < h /\ h <= to[j])
    <3>1. done'[j][h] = done[j][h] /\ cp'[j] = to[j]
      BY <1>4, <2>4, Zenon
    <3>2. cp[j] \in Int
      BY <1>3 DEF NoRow
    <3> QED
      BY <1>3, <1>8, <1>10, <2>1, <2>2, <3>1, <3>2
  <2> QED
    BY <2>3, <2>4, Zenon
<1>11. Steady'
  <2> SUFFICES ASSUME NEW i \in Active PROVE JobSteady(i)'
    BY DEF Steady
  <2>1. JobSteady(i)
    BY DEF GInv, Steady
  <2>2. CASE i # j
    <3>1. i \in All
      BY Zenon DEF All
    <3> QED
      BY <1>4, <1>5, <2>1, <2>2, <3>1, Zenon DEF JobSteady, Derived
  <2>3. CASE i = j
    <3>1. Guard(j) # "none" => from[j] <= to[j]
      BY <1>2, <1>7, Zenon DEF JobSteady
    <3>2. ASSUME Guard(j) # "none", NEW h \in Heights
          PROVE  done'[j][h] <= 1 /\ (done'[j][h] > 0 => h <= cp'[j])
      <4>1. done[j][h] <= 1 /\ (done[j][h] > 0 => h <= cp[j])
        BY <1>7, <3>2, Zenon DEF JobSteady, Derived
      <4> QED
        BY <1>10, <3>1, <3>2, <4>1, Zenon
    <3> QED
      BY <1>5, <2>3, <3>2, Zenon DEF JobSteady, Derived
  <2> QED
    BY <2>2, <2>3, Zenon
<1>12. ~ fresh' => Settled'
  <2> SUFFICES ASSUME ~ fresh PROVE Settled'
    BY <1>2, Zenon
  <2>1. Settled
    BY DEF GInv
  <2>2. /\ from[j] <= to[j]
        /\ \A d \in Deps(j) : to[j] <= cp[d]
    BY <1>2, <2>1, GraphAssumption, Zenon DEF Settled, JobSettled
  <2>3. \A i \in All : cp[i] \in Nat /\ cp'[i] \in Nat /\ cp[i] <= cp'[i]
    BY <1>1, <1>3, <1>4, <1>8, <2>1, <2>2 DEF TypeOK, Settled
  <2>4. ASSUME NEW i \in Active PROVE JobSettled(i)'
    <3>1. i \in All /\ \A d \in Deps(i) : d \in All
      BY GraphAssumption, Zenon DEF All
    <3>2. to[i] \in Nat /\ from[i] \in Nat
      BY <1>1, Zenon DEF TypeOK
    <3>3. JobSettled(i)
      BY <2>1 DEF Settled
    <3>4. CASE i # j
      BY <1>4, <1>5, <2>3, <3>1, <3>2, <3>3, <3>4 DEF JobSettled
    <3>5. CASE i = j
      BY <1>3, <1>4, <1>5, <2>2, <2>3, <3>1, <3>5 DEF JobSettled
    <3> QED
      BY <3>4, <3>5, Zenon
  <2>5. ASSUME NEW i \in All, NEW h \in Heights
        PROVE  done'[i][h] <= 1 /\ (done'[i][h] > 0 => h <= cp'[i])
    <3>1. done[i][h] <= 1 /\ (done[i][h] > 0 => h <= cp[i])
      BY <2>1, Zenon DEF Settled, Derived
    <3> QED
      BY <1>4, <1>10, <2>2, <3>1, Zenon
  <2> QED
    BY <2>3, <2>4, <2>5 DEF Settled, Derived, NoRow
<1> QED
  BY <1>6, <1>9, <1>11, <1>12 DEF GInv

(* The invariant says more than the properties.                            *)
LEMMA GInvEnough == GInv => NoGap /\ GuardedOnce /\ EstablishedInOrder
<1> SUFFICES ASSUME GInv PROVE NoGap /\ GuardedOnce /\ EstablishedInOrder
  BY Zenon
<1>1. GuardedOnce
  BY Zenon DEF GInv, Steady, JobSteady, GuardedOnce
<1>2. EstablishedInOrder
  <2> SUFFICES ASSUME ~ fresh
               PROVE  /\ WaitsForDependencies
                      /\ \A j \in Active, h \in Heights : done[j][h] <= 1
    BY Zenon DEF EstablishedInOrder
  <2>1. Settled
    BY Zenon DEF GInv
  <2>2. ASSUME NEW j \in Active, NEW d \in Deps(j), NEW h \in Heights, Derived(j, h)
        PROVE  Derived(d, h)
    <3>1. j \in All /\ d \in All
      BY GraphAssumption, Zenon DEF All
    <3>2. h \in Int /\ cp[j] \in Nat /\ cp[d] \in Nat
      BY <2>1, <3>1 DEF GInv, TypeOK, Settled, Heights
    <3>3. h <= cp[j] /\ cp[j] <= cp[d]
      BY <2>1, <2>2, <3>1, Zenon DEF Settled, JobSettled
    <3>4. h <= cp[d]
      BY <3>2, <3>3
    <3> QED
      BY <3>1, <3>4, Zenon DEF GInv, NoGap
  <2> QED
    BY <2>1, <2>2, Zenon DEF WaitsForDependencies, Settled, All
<1> QED
  BY <1>1, <1>2, Zenon DEF GInv

(* Every reachable state satisfies the invariant.                          *)
THEOREM GraphInvariant == JobSpec => []GInv
<1>1. GInv /\ [JobNext]_jobVars => GInv'
  <2> SUFFICES ASSUME GInv, [JobNext]_jobVars PROVE GInv'
    BY Zenon
  <2>1. ASSUME NEW s \in Sources, Ingest(s) PROVE GInv'
    BY <2>1, GIngest, Zenon
  <2>2. ASSUME NEW j \in Active, Start(j) PROVE GInv'
    BY <2>2, GStart, Zenon
  <2>3. ASSUME NEW j \in Active, Commit(j) PROVE GInv'
    BY <2>3, GCommit
  <2>4. ASSUME NEW j \in Active, Abort(j) PROVE GInv'
    BY <2>4, GAbort
  <2>5. CASE UNCHANGED jobVars
    BY <2>5, Zenon DEF jobVars, GInv, TypeOK, NoGap, Derived, Steady, JobSteady, Settled, JobSettled
  <2> QED
    BY <2>1, <2>2, <2>3, <2>4, <2>5, Zenon DEF JobNext
<1> QED
  BY GInit, <1>1, PTL DEF JobSpec

(* A checkpoint vouches for the blocks below it, in every deployment, from *)
(* an empty database too (the jobs write their rows and their checkpoint   *)
(* in one transaction).                                                    *)
THEOREM CheckpointsVouch == JobSpec => []NoGap
  BY GraphInvariant, GInvEnough, PTL

(* A job that returns early on an empty range derives no block twice.      *)
THEOREM GuardedJobsOnce == JobSpec => []GuardedOnce
  BY GraphInvariant, GInvEnough, PTL

(* Once every job has its row, no job derives a block before the jobs it   *)
(* depends on, and none derives a block twice, guarded or not.             *)
THEOREM EstablishedJobsInOrder == JobSpec => []EstablishedInOrder
  BY GraphInvariant, GInvEnough, PTL

-----------------------------------------------------------------------------
(* The partitioned tables.                                                 *)

Row == [id : Nat, cols : [Column -> Nat]]

(* A constraint of partition k that no row, present or future, offends: it *)
(* admits the rows there, its lower bounds are below every later range,    *)
(* and it has upper bounds only when the ids of k are used up.             *)
Sound(k, ct) ==
    /\ DOMAIN ct.from \subseteq Column /\ DOMAIN ct.to \subseteq Column
    /\ \A c \in DOMAIN ct.from : ct.from[c] \in Nat /\ ct.from[c] < Width * (range + 1)
    /\ DOMAIN ct.to # {} => (k + 1) * Step <= last + 1
    /\ \A r \in rows : PartOf(r.id) = k => ~ Refuses(ct, r)

TablesTyped ==
    /\ table \in Tables /\ range \in Nat /\ seq \in Nat /\ last \in Nat
    /\ rows \subseteq Row /\ open \subseteq Row
    /\ parts \subseteq Nat /\ queue \subseteq parts

(* The rows are below the next id and the next range; those not committed  *)
(* are the next range and end at the last id taken.                        *)
RowsPlaced ==
    /\ last < seq /\ PartOf(last) \in parts
    /\ \A r \in rows : r.id <= last /\ \A c \in Column : r.cols[c] < Width * (range + 1)
    /\ \A r \in open :
          /\ last < r.id /\ r.id < seq /\ PartOf(r.id) \in parts
          /\ \A c \in Column : Width * (range + 1) <= r.cols[c] /\ r.cols[c] < Width * (range + 2)
    /\ open # {} => \E r \in open : r.id = seq - 1

PendingSound(a) ==
    /\ a = [part |-> a.part, kind |-> a.kind, from |-> a.from, to |-> a.to]
    /\ a.part \in parts /\ DOMAIN a.from = DOMAIN a.to
    /\ a.kind = "done" => (a.part + 1) * Step <= last + 1
    /\ Sound(a.part, Constraint(a))

IInv ==
    /\ TablesTyped /\ RowsPlaced
    /\ DOMAIN check = parts /\ check = [k \in parts |-> check[k]]
    /\ \A k \in parts : Sound(k, check[k])
    /\ \A a \in altering : PendingSound(a)
-----------------------------------------------------------------------------
(* An id at or above the end of a partition is not in it, and ids divide   *)
(* the numbers between two multiples of Step.                              *)
LEMMA DivUnique ==
    ASSUME NEW a \in Nat, NEW k \in Nat, k * Step <= a, a < (k + 1) * Step
    PROVE  a \div Step = k
BY SizeAssumption, Z3

LEMMA DivBounds ==
    ASSUME NEW a \in Nat
    PROVE  /\ a \div Step \in Nat /\ a % Step \in 0 .. Step - 1
           /\ a = (a \div Step) * Step + (a % Step)
BY SizeAssumption, Z3

(* The ids that follow the last row by at most Slack are in its partition  *)
(* or in the next one, and in its own while it is before the half.         *)
LEMMA NextIds ==
    ASSUME NEW l \in Nat, NEW id \in Nat, l <= id, id <= l + Slack
    PROVE  /\ PartOf(id) \in {PartOf(l), PartOf(l) + 1}
           /\ 2 * (l % Step) < Step => PartOf(id) = PartOf(l)
<1> DEFINE q == l \div Step
           m == l % Step
<1>1. q \in Nat /\ m \in 0 .. Step - 1 /\ l = q * Step + m
  BY DivBounds, Zenon
<1>2. Step \in Nat \ {0} /\ Slack \in Nat /\ 2 * Slack <= Step
  BY SizeAssumption, Zenon
<1> HIDE DEF q, m
<1>3. (q + 1) * Step = q * Step + Step /\ (q + 1 + 1) * Step = q * Step + Step + Step
  BY <1>1, <1>2
<1>4. q * Step \in Nat
  BY <1>1, <1>2
<1>5. CASE id < (q + 1) * Step
  <2>1. id \div Step = q
    BY <1>1, <1>2, <1>3, <1>4, <1>5, DivUnique
  <2> QED BY <2>1, Zenon DEF PartOf, q
<1>6. CASE (q + 1) * Step <= id
  <2>1. id < (q + 1 + 1) * Step /\ ~ (2 * m < Step)
    BY <1>1, <1>2, <1>3, <1>4, <1>6
  <2>2. id \div Step = q + 1
    BY <1>1, <1>6, <2>1, DivUnique
  <2> QED BY <2>1, <2>2, Zenon DEF PartOf, q, m
<1>7. (q + 1) * Step \in Nat
  BY <1>1, <1>2
<1> QED BY <1>5, <1>6, <1>7

LEMMA PartOfNat ==
    ASSUME NEW id \in Nat
    PROVE  PartOf(id) \in Nat
BY DivBounds, Zenon DEF PartOf

LEMMA PartOfMonotone ==
    ASSUME NEW i \in Nat, NEW j \in Nat, i <= j
    PROVE  PartOf(i) <= PartOf(j)
<1> DEFINE p == i \div Step
           q == j \div Step
<1>1. p \in Nat /\ q \in Nat /\ i = p * Step + (i % Step) /\ j = q * Step + (j % Step)
      /\ i % Step \in 0 .. Step - 1 /\ j % Step \in 0 .. Step - 1
  BY DivBounds, Zenon
<1> HIDE DEF p, q
<1>2. ASSUME q + 1 <= p
      PROVE  FALSE
  <2>1. PICK d \in Nat : p = q + 1 + d
    BY <1>1, <1>2
  <2>2. p * Step = q * Step + Step + d * Step /\ d * Step \in Nat /\ q * Step \in Nat
    BY <1>1, <2>1, SizeAssumption
  <2> QED BY <1>1, <2>2, SizeAssumption
<1> QED BY <1>1, <1>2 DEF PartOf, p, q

LEMMA PastTheEnd ==
    ASSUME NEW k \in Nat, NEW id \in Nat, (k + 1) * Step <= id
    PROVE  PartOf(id) # k
<1>1. id \div Step \in Nat /\ id % Step \in 0 .. Step - 1
      /\ id = (id \div Step) * Step + (id % Step)
  BY DivBounds, Zenon
<1>2. (k + 1) * Step = k * Step + Step /\ k * Step \in Nat
  BY SizeAssumption
<1> QED BY <1>1, <1>2, SizeAssumption DEF PartOf

(* The values of a range, and the order of the ranges.                     *)
LEMMA RangeBounds ==
    ASSUME NEW n \in Nat
    PROVE  /\ Width * (n + 1) \in Nat /\ Width * (n + 2) \in Nat
           /\ Width * (n + 1) < Width * (n + 2)
           /\ Width * (n + 2) = Width * (n + 1) + Width
BY SizeAssumption

(* A sound constraint refuses no row of the current or of a later range.   *)
LEMMA SoundAdmits ==
    ASSUME range \in Nat, last \in Nat, NEW k \in Nat, NEW ct, Sound(k, ct),
           NEW r \in Row, last < r.id, PartOf(r.id) = k,
           \A c \in Column : Width * (range + 1) <= r.cols[c]
    PROVE  ~ Refuses(ct, r)
<1>1. \A c \in DOMAIN ct.from : ~ (r.cols[c] < ct.from[c])
  BY RangeBounds DEF Sound, Row
<1>2. DOMAIN ct.to = {}
  <2>1. r.id \in Nat
    BY Zenon DEF Row
  <2>2. (k + 1) * Step \in Nat
    BY SizeAssumption
  <2> QED BY <2>1, <2>2, PastTheEnd DEF Sound
<1> QED BY <1>1, <1>2, Zenon DEF Refuses
-----------------------------------------------------------------------------
LEMMA InitInvariant == TableInit => IInv
<1> SUFFICES ASSUME TableInit PROVE IInv
  OBVIOUS
<1>1. PartOf(0) = 0
  BY DivUnique, SizeAssumption DEF PartOf
<1>2. parts = {0} \/ parts = {0, 1}
  BY Zenon DEF TableInit, FirstPartitions
<1>3. TablesTyped
  BY <1>2 DEF TableInit, TablesTyped
<1>4. RowsPlaced
  BY <1>1, <1>2 DEF TableInit, RowsPlaced
<1>5. \A k \in parts : check[k] = Free
  BY Zenon DEF TableInit
<1>6. \A k \in parts : Sound(k, Free)
  BY Zenon DEF TableInit, Sound, Free, NoBounds
<1> QED BY <1>3, <1>4, <1>5, <1>6, Zenon DEF IInv, TableInit

(* The rows of a batch are those of the next range, with the next ids.     *)
LEMMA BatchRows ==
    ASSUME IInv, NEW b \in Batches
    PROVE  /\ RowsOf(b) \subseteq Row
           /\ Len(b) \in Nat \ {0}
           /\ \A r \in RowsOf(b) :
                 /\ last < r.id /\ seq <= r.id /\ r.id < seq + Len(b)
                 /\ \A c \in Column : Width * (range + 1) <= r.cols[c] /\ r.cols[c] < Width * (range + 2)
           /\ \E r \in RowsOf(b) : r.id = seq + Len(b) - 1
<1>1. b \in Seq([Column -> 0 .. Width - 1]) /\ b # <<>>
  BY SizeAssumption, Zenon
<1>2. Len(b) \in Nat \ {0} /\ DOMAIN b = 1 .. Len(b)
      /\ \A i \in 1 .. Len(b) : b[i] \in [Column -> 0 .. Width - 1]
  BY <1>1
<1>3. range \in Nat /\ seq \in Nat /\ last \in Nat /\ last < seq
  BY Zenon DEF IInv, TablesTyped, RowsPlaced
<1>4. Width \in Nat \ {0} /\ Width * (range + 1) \in Nat
      /\ Width * (range + 2) = Width * (range + 1) + Width
  BY <1>3, RangeBounds, SizeAssumption, Zenon
<1> DEFINE row(i) == [id |-> seq + i - 1, cols |-> [c \in Column |-> Width * (range + 1) + b[i][c]]]
<1>5. ASSUME NEW i \in 1 .. Len(b)
      PROVE  /\ row(i) \in Row
             /\ last < row(i).id /\ seq <= row(i).id /\ row(i).id < seq + Len(b)
             /\ \A c \in Column : /\ Width * (range + 1) <= row(i).cols[c]
                                  /\ row(i).cols[c] < Width * (range + 2)
  <2>1. \A c \in Column : b[i][c] \in 0 .. Width - 1
    BY <1>2, Zenon
  <2>2. \A c \in Column : /\ Width * (range + 1) + b[i][c] \in Nat
                          /\ Width * (range + 1) <= Width * (range + 1) + b[i][c]
                          /\ Width * (range + 1) + b[i][c] < Width * (range + 2)
    BY <1>4, <2>1
  <2>3. seq + i - 1 \in Nat /\ last < seq + i - 1 /\ seq <= seq + i - 1 /\ seq + i - 1 < seq + Len(b)
    BY <1>2, <1>3
  <2> QED BY <2>2, <2>3, Zenon DEF Row
<1>6. RowsOf(b) = {row(i) : i \in 1 .. Len(b)}
  BY <1>2, Zenon DEF RowsOf
<1>7. row(Len(b)).id = seq + Len(b) - 1 /\ Len(b) \in 1 .. Len(b)
  BY <1>2
<1> HIDE DEF row
<1> QED BY <1>2, <1>5, <1>6, <1>7, Zenon

LEMMA InsertInvariant == IInv /\ Insert => IInv'
<1> SUFFICES ASSUME IInv, Insert PROVE IInv'
  BY Zenon
<1>1. PICK b \in Batches :
        /\ seq' = IF (\A r \in RowsOf(b) : PartOf(r.id) \in parts /\ ~ Refuses(check[PartOf(r.id)], r))
                       \/ table # "block" THEN seq + Len(b) ELSE seq
        /\ open' = IF \A r \in RowsOf(b) : PartOf(r.id) \in parts /\ ~ Refuses(check[PartOf(r.id)], r)
                   THEN RowsOf(b) ELSE {}
  BY Zenon DEF Insert
<1>2. UNCHANGED <<table, range, last, rows, parts, check, queue, altering>>
  BY Zenon DEF Insert
<1>3. seq' \in Nat /\ last < seq' /\ Len(b) \in Nat
  <2>1. Len(b) \in Nat /\ seq \in Nat /\ last \in Nat /\ last < seq
    BY BatchRows, Zenon DEF IInv, TablesTyped, RowsPlaced
  <2>2. seq' = seq + Len(b) \/ seq' = seq
    BY <1>1, Zenon
  <2> QED BY <2>1, <2>2
<1>4. TablesTyped'
  BY <1>1, <1>2, <1>3, BatchRows, Zenon DEF IInv, TablesTyped
<1>5. RowsPlaced'
  <2>1. CASE open' = {}
    BY <1>2, <1>3, <2>1, Zenon DEF IInv, RowsPlaced, PartOf
  <2>2. CASE open' = RowsOf(b) /\ seq' = seq + Len(b)
             /\ \A r \in RowsOf(b) : PartOf(r.id) \in parts
    <3>1. /\ \A r \in RowsOf(b) :
                /\ last < r.id /\ r.id < seq'
                /\ \A c \in Column : Width * (range + 1) <= r.cols[c] /\ r.cols[c] < Width * (range + 2)
          /\ \E r \in RowsOf(b) : r.id = seq' - 1
      <4>1. /\ \A r \in RowsOf(b) :
                  /\ last < r.id /\ seq <= r.id /\ r.id < seq + Len(b)
                  /\ \A c \in Column : Width * (range + 1) <= r.cols[c] /\ r.cols[c] < Width * (range + 2)
            /\ \E r \in RowsOf(b) : r.id = seq + Len(b) - 1
        BY BatchRows, Zenon
      <4>2. seq' = seq + Len(b)
        BY <2>2, Zenon
      <4>3. \E r \in RowsOf(b) : r.id = seq' - 1
        BY <1>3, <4>1, <4>2 DEF IInv, TablesTyped
      <4>4. \A r \in RowsOf(b) : r.id < seq'
        BY <4>1, <4>2, Zenon
      <4> QED BY <4>1, <4>3, <4>4, Zenon
    <3>2. \A r \in open' : /\ last' < r.id /\ r.id < seq' /\ (PartOf(r.id) \in parts)'
                           /\ \A c \in Column : /\ Width * (range' + 1) <= r.cols[c]
                                                /\ r.cols[c] < Width * (range' + 2)
      BY <1>2, <2>2, <3>1, Zenon DEF PartOf
    <3>3. \E r \in open' : r.id = seq' - 1
      BY <2>2, <3>1, Zenon
    <3>4. /\ last' < seq' /\ (PartOf(last) \in parts)'
          /\ \A r \in rows' : r.id <= last' /\ \A c \in Column : r.cols[c] < Width * (range' + 1)
      BY <1>2, <1>3, Zenon DEF IInv, RowsPlaced, PartOf
    <3> QED BY <3>2, <3>3, <3>4, Zenon DEF RowsPlaced
  <2> QED BY <1>1, <2>1, <2>2, Zenon
<1>6. (\A k \in parts : Sound(k, check[k]))'
  BY <1>2 DEF IInv, Sound, Refuses, PartOf
<1>7. (\A a \in altering : PendingSound(a))'
  BY <1>2 DEF IInv, PendingSound, Sound, Refuses, PartOf, Constraint
<1> QED BY <1>2, <1>4, <1>5, <1>6, <1>7, Zenon DEF IInv

LEMMA CommitInvariant == IInv /\ CommitRows => IInv'
<1> SUFFICES ASSUME IInv, CommitRows PROVE IInv'
  OBVIOUS
<1>1. /\ open # {} /\ rows' = rows \cup open /\ open' = {}
      /\ last' = seq - 1 /\ range' = range + 1
      /\ UNCHANGED <<table, seq, parts, check, queue, altering>>
  BY Zenon DEF CommitRows
<1>2. /\ range \in Nat /\ seq \in Nat /\ last \in Nat /\ last < seq
      /\ rows \subseteq Row /\ open \subseteq Row /\ parts \subseteq Nat
  BY Zenon DEF IInv, TablesTyped, RowsPlaced
<1>3. last' \in Nat /\ last <= last' /\ range' \in Nat /\ last' < seq'
  BY <1>1, <1>2
<1>4. Width * (range + 1) < Width * (range' + 1) /\ Width * (range' + 1) = Width * (range + 2)
      /\ Width * (range + 1) \in Nat /\ Width * (range' + 1) \in Nat
  BY <1>1, <1>2, RangeBounds
<1>5. TablesTyped'
  BY <1>1, <1>2, <1>3, Zenon DEF IInv, TablesTyped
<1>6. RowsPlaced'
  <2>1. PICK r \in open : r.id = last'
    BY <1>1, Zenon DEF IInv, RowsPlaced
  <2>2. (PartOf(last) \in parts)'
    BY <1>1, <2>1, Zenon DEF IInv, RowsPlaced, PartOf
  <2>3. ASSUME NEW q \in rows
        PROVE  q.id <= last' /\ \A c \in Column : q.cols[c] < Width * (range' + 1)
    <3>1. q \in Row /\ q.id <= last /\ \A c \in Column : q.cols[c] < Width * (range + 1)
      BY <1>2, Zenon DEF IInv, RowsPlaced
    <3> QED BY <1>2, <1>3, <1>4, <3>1 DEF Row
  <2>4. ASSUME NEW q \in open
        PROVE  q.id <= last' /\ \A c \in Column : q.cols[c] < Width * (range' + 1)
    <3>1. q \in Row /\ q.id < seq /\ \A c \in Column : q.cols[c] < Width * (range + 2)
      BY <1>2, Zenon DEF IInv, RowsPlaced
    <3> QED BY <1>1, <1>2, <1>4, <3>1 DEF Row
  <2> QED BY <1>1, <1>3, <2>2, <2>3, <2>4, Zenon DEF RowsPlaced
<1>7. ASSUME NEW k \in parts, NEW ct, Sound(k, ct)
      PROVE  Sound(k, ct)'
  <2>1. \A r \in open : PartOf(r.id) = k => ~ Refuses(ct, r)
    BY <1>2, <1>7, SoundAdmits, Zenon DEF IInv, RowsPlaced
  <2>2. \A r \in rows' : (PartOf(r.id))' = k => ~ Refuses(ct, r)
    BY <1>1, <1>7, <2>1, Zenon DEF Sound, PartOf
  <2>3. \A c \in DOMAIN ct.from : ct.from[c] \in Nat /\ ct.from[c] < Width * (range' + 1)
    BY <1>4, <1>7 DEF Sound
  <2>4. DOMAIN ct.to # {} => (k + 1) * Step <= last' + 1
    <3>1. (k + 1) * Step \in Nat
      BY <1>2, SizeAssumption
    <3> QED BY <1>2, <1>3, <1>7, <3>1 DEF Sound
  <2> QED BY <1>7, <2>2, <2>3, <2>4, Zenon DEF Sound, Refuses
<1>8. (\A k \in parts : Sound(k, check[k]))'
  BY <1>1, <1>7, Zenon DEF IInv
<1>9. (\A a \in altering : PendingSound(a))'
  <2> SUFFICES ASSUME NEW a \in altering PROVE PendingSound(a)'
    BY <1>1, Zenon
  <2>1. PendingSound(a)
    BY Zenon DEF IInv
  <2>2. Sound(a.part, Constraint(a))'
    BY <1>7, <2>1, Zenon DEF PendingSound, Constraint
  <2>3. a.kind = "done" => (a.part + 1) * Step <= last' + 1
    <3>1. (a.part + 1) * Step \in Nat
      BY <1>2, <2>1, SizeAssumption DEF PendingSound
    <3> QED BY <1>2, <1>3, <2>1, <3>1 DEF PendingSound
  <2> QED BY <1>1, <2>1, <2>2, <2>3, Zenon DEF PendingSound
<1> QED BY <1>1, <1>5, <1>6, <1>8, <1>9, Zenon DEF IInv

LEMMA RollbackInvariant == IInv /\ Rollback => IInv'
<1> SUFFICES ASSUME IInv, Rollback PROVE IInv'
  OBVIOUS
<1>1. /\ open' = {} /\ seq' = IF table = "block" THEN last + 1 ELSE seq
      /\ UNCHANGED <<table, range, last, rows, parts, check, queue, altering>>
  BY Zenon DEF Rollback
<1>2. seq' \in Nat /\ last < seq'
  BY <1>1 DEF IInv, TablesTyped, RowsPlaced
<1>3. TablesTyped' /\ RowsPlaced'
  BY <1>1, <1>2, Zenon DEF IInv, TablesTyped, RowsPlaced, PartOf
<1>4. (\A k \in parts : Sound(k, check[k]))'
  BY <1>1 DEF IInv, Sound, Refuses, PartOf
<1>5. (\A a \in altering : PendingSound(a))'
  BY <1>1 DEF IInv, PendingSound, Sound, Refuses, PartOf, Constraint
<1> QED BY <1>1, <1>3, <1>4, <1>5, Zenon DEF IInv
-----------------------------------------------------------------------------
LEMMA CreatePartitionInvariant == IInv /\ CreatePartition => IInv'
<1> SUFFICES ASSUME IInv, CreatePartition PROVE IInv'
  OBVIOUS
<1>1. PICK k \in CreatePartitionName :
        /\ parts' = parts \cup {k}
        /\ check' = [j \in parts' |-> IF j = k THEN Free ELSE check[j]]
        /\ UNCHANGED <<writer, queue, altering>>
  BY Zenon DEF CreatePartition
<1>2. UNCHANGED <<table, range, seq, last, rows, open>>
  BY <1>1, Zenon DEF writer
<1>3. k = PartOf(last) + 1 /\ k \notin parts /\ PartOf(last) \in Nat
  BY <1>1, PartOfNat, Zenon DEF CreatePartitionName, IInv, TablesTyped
<1>4. TablesTyped'
  BY <1>1, <1>2, <1>3 DEF IInv, TablesTyped
<1>5. RowsPlaced'
  BY <1>1, <1>2, Zenon DEF IInv, RowsPlaced, PartOf
<1>6. ASSUME NEW r \in rows
      PROVE  PartOf(r.id) # k
  <2>1. r.id \in Nat /\ r.id <= last /\ last \in Nat
    BY Zenon DEF IInv, TablesTyped, RowsPlaced, Row
  <2>2. PartOf(r.id) <= PartOf(last)
    BY <2>1, PartOfMonotone, Zenon
  <2>3. PartOf(r.id) \in Nat
    BY <2>1, PartOfNat, Zenon
  <2> QED BY <1>3, <2>2, <2>3
<1>7. (\A j \in parts : Sound(j, check[j]))'
  <2> SUFFICES ASSUME NEW j \in parts' PROVE Sound(j, check[j])'
    BY ZenonT(40)
  <2>1. CASE j = k
    <3>1. check'[j] = Free
      BY <1>1, <2>1, Zenon
    <3> QED BY <1>2, <1>6, <2>1, <3>1 DEF Sound, Free, NoBounds, PartOf
  <2>2. CASE j # k
    <3>1. j \in parts /\ check'[j] = check[j]
      BY <1>1, <2>2, Zenon
    <3>2. Sound(j, check[j])
      BY <3>1, Zenon DEF IInv
    <3> QED BY <1>2, <3>1, <3>2, Zenon DEF Sound, Refuses, PartOf
  <2> QED BY <2>1, <2>2, Zenon
<1>8. (\A a \in altering : PendingSound(a))'
  BY <1>1, <1>2 DEF IInv, PendingSound, Sound, Refuses, PartOf, Constraint
<1> QED BY <1>1, <1>4, <1>5, <1>7, <1>8, Zenon DEF IInv

(* Bounds read from the rows of a partition that has some make a sound     *)
(* constraint.                                                             *)
LEMMA BoundsSound ==
    ASSUME IInv, NEW k \in parts, NEW kind, NEW columns, columns \subseteq Column,
           NEW lo \in Bounds(k, columns), LeastBounds(k, lo),
           NEW hi \in Bounds(k, columns), GreatestBounds(k, hi),
           kind = "done" => (k + 1) * Step <= last + 1
    PROVE  Sound(k, Constraint([part |-> k, kind |-> kind, from |-> lo, to |-> hi]))
<1> DEFINE ct == Constraint([part |-> k, kind |-> kind, from |-> lo, to |-> hi])
<1>1. ct.from = lo /\ ct.to = (IF kind = "done" THEN hi ELSE NoBounds)
  BY Zenon DEF Constraint
<1>2. DOMAIN lo = columns /\ DOMAIN hi = columns /\ DOMAIN NoBounds = {}
  BY Zenon DEF Bounds, NoBounds
<1>3. \A c \in columns : \E r \in Of(k) : r.cols[c] = lo[c]
  BY <1>2, Zenon DEF LeastBounds
<1>4. \A c \in columns : lo[c] \in Nat /\ lo[c] < Width * (range + 1)
  <2> SUFFICES ASSUME NEW c \in columns PROVE lo[c] \in Nat /\ lo[c] < Width * (range + 1)
    BY Zenon
  <2>1. PICK r \in Of(k) : r.cols[c] = lo[c]
    BY <1>3, Zenon
  <2>2. r \in rows /\ r \in Row /\ c \in Column
    BY Zenon DEF Of, IInv, TablesTyped
  <2> QED BY <2>1, <2>2, Zenon DEF IInv, RowsPlaced, Row
<1>5. ASSUME NEW r \in rows, PartOf(r.id) = k
      PROVE  ~ Refuses(ct, r)
  <2>1. r \in Of(k) /\ r \in Row
    BY <1>5, Zenon DEF Of, IInv, TablesTyped
  <2>2. ASSUME NEW c \in columns
        PROVE  ~ (r.cols[c] < lo[c])
    <3>1. lo[c] <= r.cols[c] /\ lo[c] \in Nat /\ r.cols[c] \in Nat
      BY <1>2, <1>4, <2>1, Zenon DEF LeastBounds, Row
    <3> QED BY <3>1
  <2>3. ASSUME NEW c \in columns
        PROVE  ~ (r.cols[c] > hi[c])
    <3>1. PICK q \in Of(k) : q.cols[c] = hi[c]
      BY <1>2, Zenon DEF GreatestBounds
    <3>2. hi[c] \in Nat /\ r.cols[c] <= hi[c] /\ r.cols[c] \in Nat
      BY <1>2, <2>1, <3>1 DEF GreatestBounds, Row, Of, IInv, TablesTyped
    <3> QED BY <3>2
  <2> HIDE DEF ct
  <2> QED BY <1>1, <1>2, <2>2, <2>3, Zenon DEF Refuses
<1> HIDE DEF ct
<1>6. Sound(k, ct)
  BY <1>1, <1>2, <1>4, <1>5, Zenon DEF Sound
<1> QED BY <1>6, Zenon DEF ct

(* What is about to be added stays as it is while no row is written.       *)
LEMMA PendingStays ==
    ASSUME NEW a, PendingSound(a), UNCHANGED <<range, last, rows, parts>>
    PROVE  PendingSound(a)'
<1>1. Sound(a.part, Constraint(a))'
  BY Zenon DEF PendingSound, Sound, Refuses
<1> QED
  BY <1>1, Zenon DEF PendingSound

LEMMA PrepareInvariant ==
    ASSUME IInv, NEW k, NEW needed, NEW columns, columns \subseteq Column,
           Prepare(k, needed, columns)
    PROVE  IInv'
<1>1. k \in parts /\ queue' \subseteq parts
  BY Zenon DEF Prepare, IInv, TablesTyped
<1>2. UNCHANGED <<table, range, seq, last, rows, open, parts, check>>
  BY Zenon DEF Prepare, writer
<1>3. TablesTyped' /\ RowsPlaced'
  BY <1>1, <1>2, Zenon DEF IInv, TablesTyped, RowsPlaced, PartOf
<1>4. (\A j \in parts : Sound(j, check[j]))'
  BY <1>2 DEF IInv, Sound, Refuses, PartOf
<1>5. \A a \in altering' : PendingSound(a)
  <2>1. CASE altering' = altering
    BY <2>1, Zenon DEF IInv
  <2>2. CASE altering' # altering
    <3> DEFINE kind == GetPartitionInsertionInfo(k)
    <3>1. PICK lo \in Bounds(k, columns), hi \in Bounds(k, columns) :
            /\ LeastBounds(k, lo) /\ GreatestBounds(k, hi)
            /\ altering' = {[part |-> k, kind |-> kind, from |-> lo, to |-> hi]}
      BY <2>2, Zenon DEF Prepare
    <3>2. kind = "done" => (k + 1) * Step <= last + 1
      <4> SUFFICES ASSUME kind = "done" PROVE (k + 1) * Step <= last + 1
        BY Zenon
      <4>1. PICK r \in Of(k) : r.id = (k + 1) * Step - 1
        BY Zenon DEF GetPartitionInsertionInfo
      <4>2. r.id <= last /\ (k + 1) * Step \in Nat /\ last \in Nat
        BY <1>1, SizeAssumption DEF Of, IInv, TablesTyped, RowsPlaced
      <4> QED BY <4>1, <4>2
    <3>3. DOMAIN lo = DOMAIN hi
      BY Zenon DEF Bounds
    <3> HIDE DEF kind
    <3>4. Sound(k, Constraint([part |-> k, kind |-> kind, from |-> lo, to |-> hi]))
      BY <1>1, <3>1, <3>2, BoundsSound, Zenon
    <3> QED BY <1>1, <3>1, <3>2, <3>3, <3>4 DEF PendingSound
  <2> QED BY <2>1, <2>2, Zenon
<1>6. (\A a \in altering : PendingSound(a))'
  BY <1>2, <1>5, PendingStays, Zenon
<1> QED BY <1>2, <1>3, <1>4, <1>6, Zenon DEF IInv

LEMMA ReadTxBoundsInvariant == IInv /\ GetMaxMinTxIdAndEvmTxId => IInv'
<1> SUFFICES ASSUME IInv, GetMaxMinTxIdAndEvmTxId PROVE IInv'
  OBVIOUS
<1> DEFINE columns == {"tx_id", "evm_tx_id"}
<1>1. UNCHANGED <<table, range, seq, last, rows, open, parts, check, queue>>
  BY Zenon DEF GetMaxMinTxIdAndEvmTxId, writer
<1>2. PICK a \in altering :
        /\ DOMAIN a.from = {"height"}
        /\ \E lo \in Bounds(a.part, columns) : LeastBounds(a.part, lo) /\
              \E hi \in Bounds(a.part, columns) : GreatestBounds(a.part, hi) /\
                 altering' = {[part |-> a.part, kind |-> a.kind,
                               from |-> And(a.from, lo), to |-> And(a.to, hi)]}
  BY Zenon DEF GetMaxMinTxIdAndEvmTxId
<1>3. PICK lo \in Bounds(a.part, columns), hi \in Bounds(a.part, columns) :
        /\ DOMAIN a.from = {"height"} /\ LeastBounds(a.part, lo) /\ GreatestBounds(a.part, hi)
        /\ altering' = {[part |-> a.part, kind |-> a.kind,
                         from |-> And(a.from, lo), to |-> And(a.to, hi)]}
  BY <1>2, Zenon
<1>4. PendingSound(a)
  BY Zenon DEF IInv
<1> DEFINE k == a.part
           one == Constraint(a)
           other == Constraint([part |-> k, kind |-> a.kind, from |-> lo, to |-> hi])
           new == [part |-> k, kind |-> a.kind, from |-> And(a.from, lo), to |-> And(a.to, hi)]
<1>5. altering' = {new}
  BY <1>3, Zenon
<1>6. Sound(k, one) /\ Sound(k, other)
  BY <1>3, <1>4, BoundsSound, Zenon DEF PendingSound, Column
<1>7. /\ one.from = a.from /\ one.to = (IF a.kind = "done" THEN a.to ELSE NoBounds)
      /\ other.from = lo /\ other.to = (IF a.kind = "done" THEN hi ELSE NoBounds)
      /\ Constraint(new).from = And(a.from, lo)
      /\ Constraint(new).to = (IF a.kind = "done" THEN And(a.to, hi) ELSE NoBounds)
  BY Zenon DEF Constraint
<1>8. /\ DOMAIN lo = columns /\ DOMAIN hi = columns
      /\ DOMAIN a.from = {"height"} /\ DOMAIN a.to = {"height"} /\ DOMAIN NoBounds = {}
  BY <1>3, <1>4, Zenon DEF PendingSound, Bounds, NoBounds
<1>9. /\ DOMAIN And(a.from, lo) = {"height", "tx_id", "evm_tx_id"}
      /\ DOMAIN And(a.to, hi) = {"height", "tx_id", "evm_tx_id"}
      /\ And(a.from, lo)["height"] = a.from["height"] /\ And(a.to, hi)["height"] = a.to["height"]
      /\ \A c \in columns : And(a.from, lo)[c] = lo[c] /\ And(a.to, hi)[c] = hi[c]
  BY <1>8, Zenon DEF And
<1> HIDE DEF one, other
<1>10. ASSUME NEW r, Refuses(Constraint(new), r)
      PROVE  Refuses(one, r) \/ Refuses(other, r)
  <2>1. CASE \E c \in DOMAIN Constraint(new).from : r.cols[c] < Constraint(new).from[c]
    BY <1>7, <1>8, <1>9, <2>1 DEF Refuses
  <2>2. CASE \E c \in DOMAIN Constraint(new).to : r.cols[c] > Constraint(new).to[c]
    BY <1>7, <1>8, <1>9, <2>2 DEF Refuses
  <2> QED BY <1>10, <2>1, <2>2, ZenonT(40) DEF Refuses
<1>11. Sound(k, Constraint(new))
  <2>1. \A r \in rows : PartOf(r.id) = k => ~ Refuses(Constraint(new), r)
    BY <1>6, <1>10, Zenon DEF Sound
  <2>2. \A c \in DOMAIN Constraint(new).from :
           Constraint(new).from[c] \in Nat /\ Constraint(new).from[c] < Width * (range + 1)
    <3>1. /\ a.from["height"] \in Nat /\ a.from["height"] < Width * (range + 1)
          /\ \A c \in columns : lo[c] \in Nat /\ lo[c] < Width * (range + 1)
      BY <1>6, <1>7, <1>8, Zenon DEF Sound
    <3> HIDE DEF new
    <3> QED
      BY <1>7, <1>9, <3>1, Zenon
  <2>3. DOMAIN Constraint(new).to # {} => (k + 1) * Step <= last + 1
    BY <1>4, <1>7, <1>8, Zenon DEF PendingSound
  <2> QED BY <1>7, <1>8, <1>9, <2>1, <2>2, <2>3, Zenon DEF Sound, Column
<1>12. PendingSound(new)
  BY <1>4, <1>9, <1>11, Zenon DEF PendingSound
<1> HIDE DEF new
<1>13. (\A b \in altering : PendingSound(b))'
  BY <1>1, <1>5, <1>12, PendingStays, Zenon
<1>14. TablesTyped' /\ RowsPlaced'
  BY <1>1, Zenon DEF IInv, TablesTyped, RowsPlaced, PartOf
<1>15. (\A j \in parts : Sound(j, check[j]))'
  BY <1>1 DEF IInv, Sound, Refuses, PartOf
<1> QED BY <1>1, <1>13, <1>14, <1>15, Zenon DEF IInv

LEMMA AlterInvariant == IInv /\ Alter => IInv'
<1> SUFFICES ASSUME IInv, Alter PROVE IInv'
  OBVIOUS
<1>1. PICK a \in altering :
        /\ check' = IF \E r \in Of(a.part) : Refuses(Constraint(a), r) THEN check
                    ELSE [check EXCEPT ![a.part] = Constraint(a)]
        /\ altering' = {} /\ UNCHANGED <<writer, parts, queue>>
  BY Zenon DEF Alter
<1>2. UNCHANGED <<table, range, seq, last, rows, open, parts, queue>>
  BY <1>1, Zenon DEF writer
<1>3. TablesTyped' /\ RowsPlaced'
  BY <1>2, Zenon DEF IInv, TablesTyped, RowsPlaced, PartOf
<1>4. a.part \in parts /\ Sound(a.part, Constraint(a))
  BY Zenon DEF IInv, PendingSound
<1>5. DOMAIN check' = parts' /\ check' = [k \in parts' |-> check'[k]]
  BY <1>1, <1>2, Zenon DEF IInv
<1>6. \A k \in parts : check'[k] = check[k] \/ (k = a.part /\ check'[k] = Constraint(a))
  BY <1>1, Zenon DEF IInv
<1>7. \A k \in parts : Sound(k, check'[k])
  BY <1>4, <1>6, Zenon DEF IInv
<1>8. (\A k \in parts : Sound(k, check[k]))'
  BY <1>2, <1>7, Zenon DEF Sound, Refuses, PartOf
<1> QED BY <1>1, <1>3, <1>5, <1>8, Zenon DEF IInv

LEMMA QueueJobsInvariant == IInv /\ QueueJobs => IInv'
<1> SUFFICES ASSUME IInv, QueueJobs PROVE IInv'
  OBVIOUS
<1>1. queue' \subseteq parts /\ UNCHANGED <<table, range, seq, last, rows, open, parts, check, altering>>
  BY Zenon DEF QueueJobs, writer, IInv, TablesTyped
<1>2. TablesTyped' /\ RowsPlaced'
  BY <1>1, Zenon DEF IInv, TablesTyped, RowsPlaced, PartOf
<1>3. (\A k \in parts : Sound(k, check[k]))'
  BY <1>1 DEF IInv, Sound, Refuses, PartOf
<1>4. (\A a \in altering : PendingSound(a))'
  BY <1>1 DEF IInv, PendingSound, Sound, Refuses, PartOf, Constraint
<1> QED BY <1>1, <1>2, <1>3, <1>4, Zenon DEF IInv

LEMMA NextInvariant == IInv /\ [TableNext]_tableVars => IInv'
<1> SUFFICES ASSUME IInv, [TableNext]_tableVars PROVE IInv'
  OBVIOUS
<1>1. CASE Insert
  BY <1>1, InsertInvariant, Zenon
<1>2. CASE CommitRows
  BY <1>2, CommitInvariant, Zenon
<1>3. CASE Rollback
  BY <1>3, RollbackInvariant
<1>4. CASE CreatePartition
  BY <1>4, CreatePartitionInvariant
<1>5. CASE \E k \in queue : PrepareTransaction(k) \/ PrepareEVMTransaction(k) \/ PrepareEvmEvent(k)
  <2>1. {"height"} \subseteq Column /\ {"tx_id", "tx_msg_id"} \subseteq Column
    BY Zenon DEF Column
  <2>2. PICK k \in queue : PrepareTransaction(k) \/ PrepareEVMTransaction(k) \/ PrepareEvmEvent(k)
    BY <1>5, Zenon
  <2>3. CASE PrepareTransaction(k)
    BY <2>1, <2>3, PrepareInvariant, Zenon DEF PrepareTransaction
  <2>4. CASE PrepareEVMTransaction(k)
    BY <2>1, <2>4, PrepareInvariant, Zenon DEF PrepareEVMTransaction
  <2>5. CASE PrepareEvmEvent(k)
    BY <2>1, <2>5, PrepareInvariant, Zenon DEF PrepareEvmEvent
  <2> QED BY <2>2, <2>3, <2>4, <2>5, Zenon
<1>6. CASE GetMaxMinTxIdAndEvmTxId
  BY <1>6, ReadTxBoundsInvariant
<1>7. CASE Alter
  BY <1>7, AlterInvariant
<1>8. CASE QueueJobs
  BY <1>8, QueueJobsInvariant
<1>9. CASE UNCHANGED tableVars
  <2>1. UNCHANGED <<table, range, seq, last, rows, open, parts, check, queue, altering>>
    BY <1>9, Zenon DEF tableVars, writer
  <2>2. TablesTyped' /\ RowsPlaced'
    BY <2>1, Zenon DEF IInv, TablesTyped, RowsPlaced, PartOf
  <2>3. (\A k \in parts : Sound(k, check[k]))'
    BY <2>1 DEF IInv, Sound, Refuses, PartOf
  <2>4. (\A a \in altering : PendingSound(a))'
    BY <2>1 DEF IInv, PendingSound, Sound, Refuses, PartOf, Constraint
  <2> QED BY <2>1, <2>2, <2>3, <2>4, Zenon DEF IInv
<1> QED
  BY <1>1, <1>2, <1>3, <1>4, <1>5, <1>6, <1>7, <1>8, <1>9
  DEF TableNext, JobCreateTransactionPartition, JobCreateEVMTransactionPartition,
      JobCreateEvmEventPartition, JobCreateBlockPartition,
      CreateTransactionConstraint, CreateEVMTransactionConstraint, CreateEvmEventConstraint,
      CheckTransactionConstraint, CheckEVMTransactionConstraint, CheckEvmEventConstraint
-----------------------------------------------------------------------------
(* Under the invariant, the next rows have a place and are let in.         *)
LEMMA InvariantAccepts == IInv => TableRowsAccepted
<1> SUFFICES ASSUME IInv PROVE TableRowsAccepted
  BY Zenon
<1>1. /\ range \in Nat /\ seq \in Nat /\ last \in Nat /\ last < seq
      /\ rows \subseteq Row /\ open \subseteq Row /\ parts \subseteq Nat /\ PartOf(last) \in parts
  BY Zenon DEF IInv, TablesTyped, RowsPlaced
<1>2. ASSUME NEW b \in Batches, Due(b), NEW r \in RowsOf(b)
      PROVE  /\ PartOf(r.id) \in parts \cup CreatePartitionName
             /\ PartOf(r.id) \in parts => ~ Refuses(check[PartOf(r.id)], r)
  <2>1. r \in Row /\ r.id \in Nat /\ last < r.id /\ r.id < seq + Len(b) /\ Len(b) \in Nat
        /\ \A c \in Column : Width * (range + 1) <= r.cols[c]
    BY <1>2, BatchRows, Zenon DEF Row
  <2>2. seq - 1 + Len(b) - last <= Slack /\ Slack \in Nat
    BY <1>2, SizeAssumption, Zenon DEF Due
  <2>3. last <= r.id /\ r.id <= last + Slack
    BY <1>1, <2>1, <2>2
  <2>4. /\ PartOf(r.id) \in {PartOf(last), PartOf(last) + 1}
        /\ 2 * (last % Step) < Step => PartOf(r.id) = PartOf(last)
    BY <1>1, <2>1, <2>3, NextIds, Zenon
  <2>5. last = 0 => 2 * (last % Step) < Step
    BY SizeAssumption
  <2>6. PartOf(r.id) \in parts \cup CreatePartitionName
    BY <1>1, <2>4, <2>5, Zenon DEF CreatePartitionName
  <2>7. ASSUME PartOf(r.id) \in parts
        PROVE  ~ Refuses(check[PartOf(r.id)], r)
    <3>1. PartOf(r.id) \in Nat /\ Sound(PartOf(r.id), check[PartOf(r.id)])
      BY <1>1, <2>7, Zenon DEF IInv
    <3> QED BY <1>1, <2>1, <3>1, SoundAdmits, Zenon
  <2> QED BY <2>6, <2>7, Zenon
<1>3. ASSUME NEW a \in altering, NEW r \in rows \cup open, PartOf(r.id) = a.part
      PROVE  ~ Refuses(Constraint(a), r)
  <2>1. a.part \in Nat /\ Sound(a.part, Constraint(a))
    BY <1>1, Zenon DEF IInv, PendingSound
  <2>2. CASE r \in rows
    BY <1>3, <2>1, <2>2, Zenon DEF Sound
  <2>3. CASE r \in open
    <3>1. r \in Row /\ last < r.id /\ \A c \in Column : Width * (range + 1) <= r.cols[c]
      BY <1>1, <2>3, Zenon DEF IInv, RowsPlaced
    <3> QED BY <1>1, <1>3, <2>1, <3>1, SoundAdmits, Zenon
  <2> QED BY <2>2, <2>3, Zenon
<1> QED BY <1>2, <1>3, Zenon DEF TableRowsAccepted

(* The jobs that create partitions and constraints of transaction,         *)
(* evm_transaction, evm_event and block, which one job writes, never leave *)
(* it without a place for its next rows, whatever the step, if it is at    *)
(* least twice the ids of a batch and of those lost before it.             *)
THEOREM RowsAlwaysAccepted == TableSpec => []TableRowsAccepted
<1>1. TableSpec => []IInv
  BY InitInvariant, NextInvariant, PTL DEF TableSpec
<1> QED BY <1>1, InvariantAccepts, PTL

-----------------------------------------------------------------------------
(* The verification of the EVM contracts.                                  *)

Status == {"PENDING", "SUCCESS", "FAIL"}
Request == [upload : Uploads, status : Status]
OnDisk == {"absent", "cut", "whole"}

(* What a verdict on the request id has to say for itself.                 *)
RightVerdict(id, status) ==
    /\ status = "SUCCESS" => Given(requests[id].upload, TRUE)
    /\ status = "FAIL" => id \in hindered \/ ~ Given(requests[id].upload, FALSE)

(* A run looks only at pending requests, at each of them once, and the     *)
(* verdicts that it has in hand are right already.                         *)
VInv ==
    /\ requests \in Seq(Request)
    /\ solc \in OnDisk /\ soljson \in OnDisk
    /\ listRequestVerify \subseteq Pending
    /\ \A p \in listPromise :
          p.id \in Pending \ listRequestVerify /\ p.status \in Status /\ RightVerdict(p.id, p.status)
    /\ VerdictsRight

(* A success has every source of the deployed contract.                    *)
LEMMA SuccessGiven ==
    ASSUME UploadsTyped, NEW u \in Uploads, NEW net, NEW fetched, Succeeds(u, net, fetched)
    PROVE  Given(u, TRUE)
<1>1. PICK m \in Metadata(u) : m.deployed /\ IsVerifiable(m, ByHash(u), fetched)
  BY Zenon DEF Succeeds, Matches, Compiled
<1>2. PICK i \in DOMAIN u.files : m \in MetadataIn(u.files[i])
  BY <1>1, Zenon DEF Metadata
<1>3. u.kind # "other" /\ \A k \in DOMAIN u.files : ~ Malformed(u.files[k])
  BY Zenon DEF Succeeds, IsZipOrJson, SplitFilesThrows
<1>4. \A j \in DOMAIN m.sources : m.sources[j].content \in {"none", "right"}
  <2>1. \A j \in DOMAIN m.sources : m.sources[j].content # "wrong"
    BY <1>1, Zenon DEF IsVerifiable, InvalidSources
  <2>2. QED
    BY <1>2, <2>1, Zenon DEF UploadsTyped
<1>5. QED
  BY <1>1, <1>2, <1>3, <1>4, Zenon DEF Given

(* An upload that has them succeeds, if the network answers and the        *)
(* JavaScript compiler was not cut.                                        *)
LEMMA GivenSucceeds ==
    ASSUME UploadsTyped, NEW u \in Uploads, NEW fetched, Given(u, FALSE),
           soljson \in OnDisk, ~ (u.nightly /\ soljson = "cut")
    PROVE  Succeeds(u, "answers", fetched)
<1>1. PICK i \in DOMAIN u.files : \E m \in MetadataIn(u.files[i]) :
         m.deployed /\ \A j \in DOMAIN m.sources :
            \/ m.sources[j].content = "right"
            \/ /\ m.sources[j].content = "none"
               /\ \E k \in DOMAIN u.files : m.sources[j].hash \in HashesIn(u.files[k])
  BY Zenon DEF Given
<1>2. PICK m \in MetadataIn(u.files[i]) :
         m.deployed /\ \A j \in DOMAIN m.sources :
            \/ m.sources[j].content = "right"
            \/ /\ m.sources[j].content = "none"
               /\ \E k \in DOMAIN u.files : m.sources[j].hash \in HashesIn(u.files[k])
  BY <1>1, Zenon
<1>3. m \in Metadata(u)
  BY <1>2, Zenon DEF Metadata
<1>4. InvalidSources(m) = {} /\ MissingSources(m, ByHash(u)) = {}
  BY <1>2, Zenon DEF InvalidSources, MissingSources, ByHash
<1>5. m \in Compiled(u, fetched) /\ m.deployed
  BY <1>2, <1>3, <1>4, Zenon DEF Compiled, IsVerifiable
<1>6. IsZipOrJson(u) /\ ~ SplitFilesThrows(u)
  BY <1>3, Zenon DEF Given, IsZipOrJson, SplitFilesThrows, UploadsTyped
<1>7. Compiles(u.nightly, "answers")
  <2>1. u.nightly \in BOOLEAN
    BY Zenon DEF UploadsTyped
  <2>2. CASE u.nightly
    BY <2>2, Zenon DEF Compiles, UsesSolc, UsesSolJson, OnDisk
  <2>3. CASE ~ u.nightly
    BY <2>3, Zenon DEF Compiles, UsesSolc, HasSolc
  <2>4. QED
    BY <2>1, <2>2, <2>3, Zenon
<1>8. QED
  BY <1>5, <1>6, <1>7, Zenon DEF Succeeds, Matches

-----------------------------------------------------------------------------
(* A new request is pending and touches no other.                          *)
LEMMA InputKept == ASSUME VInv, InputRequestVerify PROVE VInv'
<1>1. PICK u \in Uploads : requests' = Append(requests, [upload |-> u, status |-> "PENDING"])
  BY Zenon DEF InputRequestVerify
<1>2. requests \in Seq(Request)
  BY Zenon DEF VInv
<1>3. [upload |-> u, status |-> "PENDING"] \in Request
  BY Zenon DEF Status, Request
<1>4. requests' \in Seq(Request)
  BY <1>1, <1>2, <1>3
<1>5. /\ DOMAIN requests \subseteq DOMAIN requests'
      /\ \A id \in DOMAIN requests : requests'[id] = requests[id]
      /\ \A id \in DOMAIN requests' \ DOMAIN requests : requests'[id].status = "PENDING"
  BY <1>1, <1>2
<1>6. Pending \subseteq Pending'
  BY <1>5, Zenon DEF Pending
<1>7. UNCHANGED <<listRequestVerify, listPromise, solc, soljson, hindered>>
  BY Zenon DEF InputRequestVerify
<1>8. VerdictsRight'
  BY <1>5, <1>7, Zenon DEF VInv, VerdictsRight
<1>9. ASSUME NEW p \in listPromise
      PROVE  p.id \in Pending' \ listRequestVerify' /\ p.status \in Status /\ RightVerdict(p.id, p.status)'
  BY <1>5, <1>6, <1>7, Zenon DEF VInv, RightVerdict, Pending
<1>10. QED
  BY <1>4, <1>6, <1>7, <1>8, <1>9, Zenon DEF VInv

(* A request that is looked at: the verdict that it adds is right, and     *)
(* whether it was hindered matters to no other.                            *)
LEMMA VerifyRequestKept ==
    ASSUME UploadsTyped, VInv, NEW net \in {"answers", "refuses", "down"}, NEW fetched \in BOOLEAN,
           VerifyRequest(net, fetched)
    PROVE  VInv'
<1>1. PICK id \in listRequestVerify :
         LET u == requests[id].upload
         IN  /\ listRequestVerify' = listRequestVerify \ {id}
             /\ listPromise' = listPromise \cup Promise(id, u, net, fetched)
             /\ hindered' = IF net # "answers" \/ (u.nightly /\ soljson = "cut")
                            THEN hindered \cup {id} ELSE hindered \ {id}
             /\ solc' \in {"whole", solc} /\ soljson' \in {"whole", soljson}
  BY Zenon DEF VerifyRequest
<1> DEFINE u == requests[id].upload
<1>2. requests' = requests /\ requests \in Seq(Request)
  BY Zenon DEF VerifyRequest, VInv
<1>3. id \in Pending /\ id \in DOMAIN requests /\ u \in Uploads /\ requests[id].status = "PENDING"
  <2>1. id \in Pending /\ id \in DOMAIN requests /\ requests[id].status = "PENDING"
    BY Zenon DEF VInv, Pending
  <2>2. requests[id] \in Request
    BY <1>2, <2>1, ElementOfSeq
  <2>3. QED
    BY <2>1, <2>2, Zenon DEF Request
<1>4. solc' \in OnDisk /\ soljson' \in OnDisk
  BY <1>1, Zenon DEF VInv, OnDisk
<1>5. \A i \in DOMAIN requests : i # id => (i \in hindered' <=> i \in hindered)
  BY <1>1, Zenon
<1>6. VerdictsRight'
  BY <1>2, <1>3, <1>5, Zenon DEF VInv, VerdictsRight
<1>7. Pending' = Pending
  BY <1>2, Zenon DEF Pending
<1>8. ASSUME NEW p \in listPromise
      PROVE  p.id \in Pending' \ listRequestVerify' /\ p.status \in Status /\ RightVerdict(p.id, p.status)'
  <2>1. p.id \in Pending \ listRequestVerify /\ p.status \in Status /\ RightVerdict(p.id, p.status)
    BY Zenon DEF VInv
  <2>2. p.id # id /\ p.id \in DOMAIN requests
    BY <2>1, Zenon DEF Pending
  <2>3. QED
    BY <1>1, <1>2, <1>5, <1>7, <2>1, <2>2, Zenon DEF RightVerdict
<1>9. ASSUME NEW p \in Promise(id, u, net, fetched)
      PROVE  p.id \in Pending' \ listRequestVerify' /\ p.status \in Status /\ RightVerdict(p.id, p.status)'
  <2>1. CASE Succeeds(u, net, fetched)
    <3>1. p.id = id /\ p.status = "SUCCESS"
      BY <2>1 DEF Promise
    <3>2. Given(u, TRUE)
      BY <1>3, <2>1, SuccessGiven, Zenon
    <3>3. QED
      BY <1>1, <1>2, <1>3, <1>7, <3>1, <3>2, Zenon DEF RightVerdict, Status
  <2>2. CASE ~ Succeeds(u, net, fetched)
    <3>1. p.id = id /\ p.status = "FAIL"
      BY <2>2 DEF Promise
    <3>2. id \in hindered' \/ ~ Given(u, FALSE)
      <4>1. CASE net # "answers" \/ (u.nightly /\ soljson = "cut")
        BY <1>1, <4>1, Zenon
      <4>2. CASE net = "answers" /\ ~ (u.nightly /\ soljson = "cut")
        BY <1>3, <2>2, <4>2, GivenSucceeds, Zenon DEF VInv
      <4>3. QED
        BY <4>1, <4>2, Zenon
    <3>3. QED
      BY <1>1, <1>2, <1>3, <1>7, <3>1, <3>2, Zenon DEF RightVerdict, Status
  <2>3. QED
    BY <2>1, <2>2, Zenon
<1>10. listRequestVerify' \subseteq Pending'
  BY <1>1, <1>7, Zenon DEF VInv
<1>11. QED
  BY <1>1, <1>2, <1>4, <1>6, <1>8, <1>9, <1>10, Zenon DEF VInv

(* The commit stores the verdicts in hand.                                 *)
LEMMA CommitKept == ASSUME VInv, CommitVerification PROVE VInv'
<1>1. requests \in Seq(Request)
  BY Zenon DEF VInv
<1>2. /\ requests' = [id \in DOMAIN requests |-> [requests[id] EXCEPT !.status = StatusAfter(id)]]
      /\ listRequestVerify' = {} /\ listPromise' = {} /\ UNCHANGED <<solc, soljson, hindered>>
  BY Zenon DEF CommitVerification
<1>3. \A id \in DOMAIN requests : requests[id] \in Request
  BY <1>1, ElementOfSeq
<1>4. ASSUME NEW id \in DOMAIN requests
      PROVE  StatusAfter(id) \in Status /\ RightVerdict(id, StatusAfter(id))
  <2>1. CASE \E p \in listPromise : p.id = id
    <3>1. PICK p \in listPromise : p.id = id /\ p.status = StatusAfter(id)
      BY <2>1, Zenon DEF StatusAfter
    <3>2. QED
      BY <3>1, Zenon DEF VInv
  <2>2. CASE ~ \E p \in listPromise : p.id = id
    BY <1>3, <2>2, Zenon DEF StatusAfter, Request, VInv, VerdictsRight, RightVerdict
  <2>3. QED
    BY <2>1, <2>2, Zenon
<1>5. \A id \in DOMAIN requests :
         /\ requests'[id] \in Request
         /\ requests'[id].upload = requests[id].upload /\ requests'[id].status = StatusAfter(id)
  BY <1>2, <1>3, <1>4, Zenon DEF Request
<1>6. DOMAIN requests' = DOMAIN requests
  BY <1>2, Zenon
<1>7. requests' \in Seq(Request)
  <2>1. PICK n \in Nat : DOMAIN requests = 1 .. n
    BY <1>1
  <2>2. requests' \in [1 .. n -> Request]
    BY <1>2, <1>5, <1>6, <2>1, Zenon
  <2>3. QED
    BY <2>2, SeqDef, Zenon
<1>8. VerdictsRight'
  BY <1>2, <1>4, <1>5, <1>6, Zenon DEF VerdictsRight, RightVerdict
<1>9. QED
  BY <1>2, <1>7, <1>8, Zenon DEF VInv

(* A verdict of VERIFY_CONTRACT_EVM is right, for every set of uploads,    *)
(* any number of requests, deaths of the process and outages: a success    *)
(* has the sources of the deployed contract, and a failure lacks them or   *)
(* was tried without network or with a cut JavaScript compiler.            *)
THEOREM VerdictsAlwaysRight ==
    ASSUME UploadsTyped
    PROVE  Spec => []VerdictsRight
<1>1. Init => VInv
  BY DEF Init, VInv, OnDisk, VerdictsRight
<1>2. VInv /\ [Next]_vars => VInv'
  <2> SUFFICES ASSUME VInv, [Next]_vars PROVE VInv'
    BY Zenon
  <2>1. CASE InputRequestVerify
    BY <2>1, InputKept, Zenon
  <2>2. CASE VerifyContractEVM
    <3>1. /\ requests' = requests /\ listPromise' = {} /\ listRequestVerify' \subseteq Pending
          /\ UNCHANGED <<solc, soljson, hindered>>
      BY <2>2, Zenon DEF VerifyContractEVM, Taken
    <3>2. Pending' = Pending /\ VerdictsRight'
      BY <3>1, Zenon DEF Pending, VInv, VerdictsRight
    <3>3. QED
      BY <3>1, <3>2, Zenon DEF VInv
  <2>3. CASE VerifyNext
    BY <2>3, VerifyRequestKept, Zenon DEF VerifyNext
  <2>4. CASE CommitVerification
    BY <2>4, CommitKept
  <2>5. CASE Dies
    <3>1. /\ requests' = requests /\ hindered' = hindered /\ listPromise' = {} /\ listRequestVerify' = {}
          /\ solc' \in OnDisk /\ soljson' \in OnDisk
      BY <2>5, Zenon DEF Dies, VInv, OnDisk
    <3>2. VerdictsRight'
      BY <3>1, Zenon DEF VInv, VerdictsRight
    <3>3. QED
      BY <3>1, <3>2, Zenon DEF VInv
  <2>6. CASE UNCHANGED vars
    <3>1. Pending' = Pending /\ VerdictsRight'
      BY <2>6, Zenon DEF vars, Pending, VInv, VerdictsRight
    <3>2. QED
      BY <2>6, <3>1, Zenon DEF vars, VInv, RightVerdict
  <2>7. QED
    BY <2>1, <2>2, <2>3, <2>4, <2>5, <2>6, Zenon DEF Next
<1>3. VInv => VerdictsRight
  BY Zenon DEF VInv
<1>4. QED
  BY <1>1, <1>2, <1>3, PTL DEF Spec
-----------------------------------------------------------------------------
Typed ==
    /\ chain \in Chains
    /\ checkpoint \in [EvmJob -> Nat]
    /\ contract \in 0 .. (Messages + 1)

(* A job stays behind the ones it waits for.                               *)
Ordered ==
    /\ checkpoint["proxy"] <= checkpoint["contract"]
    /\ checkpoint["contract"] <= checkpoint["event"]
    /\ checkpoint["contract"] <= checkpoint["internal"]
    /\ checkpoint["event"] <= checkpoint["tx"]
    /\ checkpoint["internal"] <= checkpoint["tx"]

(* The rows of the first three jobs are those of the messages they passed. *)
TxRows == evm_transaction = {hash \in Hash : chain[hash].height <= checkpoint["tx"]}
IsLog(hash) == hash \in Hash /\ chain[hash].log # None
EventsTrue ==
    \A e \in evm_event :
        /\ IsLog(e.tx_hash) /\ chain[e.tx_hash].height <= checkpoint["event"]
        /\ e.topic = chain[e.tx_hash].log
        /\ e.evm_tx_id \in Hash /\ chain[e.evm_tx_id].height = chain[e.tx_hash].height
EventsThere ==
    \A hash \in Hash : IsLog(hash) /\ chain[hash].height <= checkpoint["event"] =>
        \E e \in evm_event : e.tx_hash = hash
InnerRows ==
    \A hash \in evm_internal :
        hash \in Hash /\ chain[hash].kind = "factory" /\ chain[hash].height <= checkpoint["internal"]

(* A contract that has logged anything is stored.                          *)
LoggersStored ==
    \A hash \in Hash :
        IsLog(hash) /\ chain[hash].height <= checkpoint["contract"] => contract # NotStored

(* Before its creation is passed a contract is stored only if a message    *)
(* meddles; from then on its creator is right, or cannot be.               *)
Meddled(c) == contract # NotStored /\ \E hash \in Hash : Meddles(hash, c)
CreatorKnown(c) ==
    IF checkpoint["contract"] < chain[c].height
    THEN contract = NotStored \/ Meddled(c)
    ELSE Untraced(c) \/ contract = c \/ Meddled(c)
CreatorsKnown == \A c \in Creation : CreatorKnown(c)

(* The history of the proxy has one row for every height with an upgrade.  *)
Announces(hash, height) ==
    hash \in Hash /\ chain[hash].height = height /\ chain[hash].log \in Implementation
HistoryTrue ==
    \A r \in history :
        /\ r.height \in Nat /\ r.height <= checkpoint["proxy"]
        /\ r = [height |-> r.height, implementation |-> r.implementation]
        /\ \E hash \in Hash : Announces(hash, r.height) /\ chain[hash].log = r.implementation
HistoryOnce == \A r, s \in history : r.height = s.height => r = s
HistoryThere ==
    \A hash \in Hash : chain[hash].log \in Implementation /\ chain[hash].height <= checkpoint["proxy"] =>
        \E r \in history : r.height = chain[hash].height

Rows == TxRows /\ EventsTrue /\ EventsThere /\ InnerRows
History == HistoryTrue /\ HistoryOnce /\ HistoryThere
EInv == Typed /\ Ordered /\ Rows /\ LoggersStored /\ CreatorsKnown /\ History
-----------------------------------------------------------------------------
(* What the chain allows, in the form in which the proofs use it: heights  *)
(* are numbers, and a contract logs only after it was created.             *)
LEMMA ChainFacts ==
    ASSUME ConstantsTyped, Typed
    PROVE  /\ Hash = 1 .. Messages
           /\ \A hash \in Hash : chain[hash].height \in Nat /\ chain[hash].height > 0
           /\ \A hash \in Hash : chain[hash].log \in Implementation => IsLog(hash)
           /\ \A hash \in Hash : IsLog(hash) =>
                 \E c \in Creation : chain[c].height <= chain[hash].height
<1>1. chain \in [1 .. Messages -> Message] /\ \A i \in 1 .. Messages : Legal(chain, i)
  BY Zenon DEF Typed, Chains
<1>2. Hash = 1 .. Messages
  BY <1>1, Zenon DEF Hash
<1>3. \A hash \in Hash : chain[hash] \in Message
  BY <1>1, <1>2, Zenon
<1>4. \A hash \in Hash : chain[hash].height \in Nat /\ chain[hash].height > 0
  BY <1>3 DEF Message, ConstantsTyped
<1>5. \A hash \in Hash : chain[hash].log \in Implementation => IsLog(hash)
  BY Zenon DEF IsLog, ConstantsTyped
<1>6. ASSUME NEW hash \in Hash, IsLog(hash)
      PROVE  \E c \in Creation : chain[c].height <= chain[hash].height
  <2>1. PICK j \in 1 .. hash : Creates(chain[j])
    BY <1>1, <1>2, <1>6, Zenon DEF Legal, IsLog
  <2>2. j \in Hash /\ j \in Creation
    BY <1>2, <2>1 DEF Creation, ConstantsTyped
  <2>3. chain[j].height <= chain[hash].height
    BY <1>1, <1>2, <1>4, <2>1, <2>2 DEF Legal, ConstantsTyped
  <2> QED
    BY <2>2, <2>3, Zenon
<1> QED
  BY <1>2, <1>4, <1>5, <1>6, Zenon

(* A run moves the checkpoint of its job forward, to the bound at most.    *)
LEMMA MovesForward ==
    ASSUME ConstantsTyped, Typed, NEW job \in EvmJob, NEW bound \in Nat, Moves(job, End(job, bound))
    PROVE  /\ End(job, bound) \in Nat /\ End(job, bound) <= bound
           /\ End(job, bound) <= checkpoint[job] + BlocksPerCall
           /\ checkpoint[job] < End(job, bound)
           /\ checkpoint' \in [EvmJob -> Nat]
           /\ checkpoint'[job] = End(job, bound)
           /\ \A other \in EvmJob : other # job => checkpoint'[other] = checkpoint[other]
  BY DEF Typed, ConstantsTyped, Moves, End, Least

LEMMA EvmStart ==
    ASSUME ConstantsTyped, EvmInit
    PROVE  EInv
<1>1. Typed
  BY DEF EvmInit, Typed, ConstantsTyped, NotStored
<1>2. /\ checkpoint = [job \in EvmJob |-> 0] /\ evm_transaction = {} /\ evm_event = {}
      /\ evm_internal = {} /\ contract = NotStored /\ history = {}
  BY Zenon DEF EvmInit
<1>3. \A job \in EvmJob : checkpoint[job] = 0
  BY <1>2, Zenon
<1>4. Ordered
  BY <1>3 DEF Ordered, EvmJob
<1>5. \A hash \in Hash : chain[hash].height \in Nat /\ chain[hash].height > 0
  BY <1>1, ChainFacts, Zenon
<1>6. Rows
  BY <1>2, <1>3, <1>5 DEF Rows, TxRows, EventsTrue, EventsThere, InnerRows, EvmJob
<1>7. LoggersStored
  BY <1>3, <1>5 DEF LoggersStored, EvmJob
<1>8. CreatorsKnown
  BY <1>2, <1>3, <1>5, Zenon DEF CreatorsKnown, CreatorKnown, Creation, EvmJob
<1>9. History
  BY <1>2, <1>3, <1>5 DEF History, HistoryTrue, HistoryOnce, HistoryThere, EvmJob
<1> QED
  BY <1>1, <1>4, <1>6, <1>7, <1>8, <1>9, Zenon DEF EInv
-----------------------------------------------------------------------------
(* A step that leaves the contract and its checkpoint alone, and only adds *)
(* creations that are not passed yet, keeps what is known of the creator.  *)
LEMMA CreatorsStay ==
    ASSUME CreatorsKnown, UNCHANGED <<chain, contract>>,
           checkpoint'["contract"] = checkpoint["contract"],
           \A hash \in evm_internal' :
               hash \in evm_internal \/ checkpoint["contract"] < chain[hash].height,
           \A hash \in Hash : chain[hash].height \in Nat, checkpoint["contract"] \in Nat
    PROVE  CreatorsKnown'
  BY DEF CreatorsKnown, CreatorKnown, Meddled, Untraced, Meddles, Creation, Hash

(* A step that leaves the history, and its checkpoint, alone.              *)
LEMMA HistoryStays ==
    ASSUME History, UNCHANGED <<chain, history>>, checkpoint'["proxy"] = checkpoint["proxy"]
    PROVE  History'
  BY Zenon DEF History, HistoryTrue, HistoryOnce, HistoryThere, Announces, Hash

(* HANDLE_TRANSACTION_EVM                                                  *)
LEMMA TransactionStep ==
    ASSUME ConstantsTyped, EInv, HandleTransactionEVM
    PROVE  EInv'
<1> USE DEF EvmJob
<1>1. PICK stored \in 1 .. Top :
         /\ Moves("tx", End("tx", stored))
         /\ evm_transaction' = evm_transaction \cup InRange(Hash, "tx", End("tx", stored))
         /\ UNCHANGED <<chain, evm_event, evm_internal, contract, history>>
  BY Zenon DEF HandleTransactionEVM
<1>2. stored \in Nat
  BY DEF ConstantsTyped
<1> DEFINE end == End("tx", stored)
<1>3. /\ checkpoint' \in [EvmJob -> Nat] /\ end \in Nat /\ checkpoint["tx"] < end /\ checkpoint'["tx"] = end
      /\ \A job \in EvmJob : job # "tx" => checkpoint'[job] = checkpoint[job]
  BY <1>1, <1>2, MovesForward, Zenon DEF EInv
<1>4. \A hash \in Hash : chain[hash].height \in Nat
  BY ChainFacts, Zenon DEF EInv
<1>5. checkpoint \in [EvmJob -> Nat]
  BY Zenon DEF EInv, Typed
<1>6. Typed' /\ Ordered'
  BY <1>1, <1>3, <1>5 DEF EInv, Typed, Ordered
<1>7. TxRows'
  <2>1. evm_transaction' =
           {hash \in Hash : chain[hash].height <= checkpoint["tx"]}
           \cup {hash \in Hash : checkpoint["tx"] < chain[hash].height /\ chain[hash].height <= end}
    BY <1>1, Zenon DEF EInv, Rows, TxRows, InRange
  <2>2. evm_transaction' = {hash \in Hash : chain[hash].height <= end}
    BY <1>3, <1>4, <1>5, <2>1
  <2> QED
    BY <1>1, <1>3, <2>2, Zenon DEF TxRows, Hash
<1>8. EventsTrue' /\ EventsThere' /\ InnerRows' /\ LoggersStored'
  BY <1>1, <1>3, Zenon DEF EInv, Rows, EventsTrue, EventsThere, InnerRows, LoggersStored, IsLog, Hash
<1>9. CreatorsKnown'
  BY <1>1, <1>3, <1>4, <1>5, CreatorsStay, Zenon DEF EInv
<1>10. History'
  BY <1>1, <1>3, HistoryStays, Zenon DEF EInv
<1> QED
  BY <1>6, <1>7, <1>8, <1>9, <1>10, Zenon DEF EInv, Rows

(* JOB_CRAWL_EVM_EVENT: every log in the range gets a row, and the message *)
(* it is given to is of the same height.                                   *)
LEMMA EventStep ==
    ASSUME ConstantsTyped, EInv, CrawlEvmEvent
    PROVE  EInv'
<1> USE DEF EvmJob
<1>1. checkpoint \in [EvmJob -> Nat] /\ checkpoint["tx"] \in Nat
  BY Zenon DEF EInv, Typed
<1>2. PICK bound \in Nat : bound = checkpoint["tx"]
  BY <1>1, Zenon
<1> DEFINE end == End("event", bound)
           logs == {hash \in InRange(Hash, "event", end) : chain[hash].log # None}
<1>3. /\ Moves("event", end)
      /\ UNCHANGED <<chain, evm_transaction, evm_internal, contract, history>>
  BY <1>2, Zenon DEF CrawlEvmEvent
<1>4. PICK lastOf \in [logs -> evm_transaction] :
         /\ \A hash \in logs : chain[lastOf[hash]].height = chain[hash].height
         /\ evm_event' = evm_event \cup
               {[tx_hash |-> hash, evm_tx_id |-> lastOf[hash], topic |-> chain[hash].log] : hash \in logs}
  BY <1>2, Zenon DEF CrawlEvmEvent
<1>5. /\ checkpoint' \in [EvmJob -> Nat] /\ end \in Nat /\ end <= bound
      /\ checkpoint["event"] < end /\ checkpoint'["event"] = end
      /\ \A job \in EvmJob : job # "event" => checkpoint'[job] = checkpoint[job]
  BY <1>3, MovesForward, Zenon DEF EInv
<1>6. \A hash \in Hash : chain[hash].height \in Nat
  BY ChainFacts, Zenon DEF EInv
<1>7. Typed' /\ Ordered'
  BY <1>1, <1>2, <1>3, <1>5 DEF EInv, Typed, Ordered
<1>8. TxRows' /\ InnerRows' /\ LoggersStored'
  BY <1>3, <1>5, Zenon DEF EInv, Rows, TxRows, InnerRows, LoggersStored, IsLog, Hash
<1>9. \A hash \in logs : IsLog(hash) /\ chain[hash].height <= end /\ lastOf[hash] \in Hash
  BY <1>4, Zenon DEF InRange, IsLog, EInv, Rows, TxRows
<1>10. EventsTrue'
  <2> SUFFICES ASSUME NEW e \in evm_event'
               PROVE  /\ IsLog(e.tx_hash) /\ chain[e.tx_hash].height <= end
                      /\ e.topic = chain[e.tx_hash].log
                      /\ e.evm_tx_id \in Hash /\ chain[e.evm_tx_id].height = chain[e.tx_hash].height
    BY <1>3, <1>5, Zenon DEF EventsTrue, IsLog, Hash
  <2>1. CASE e \in evm_event
    <3>1. /\ IsLog(e.tx_hash) /\ chain[e.tx_hash].height <= checkpoint["event"]
          /\ e.topic = chain[e.tx_hash].log
          /\ e.evm_tx_id \in Hash /\ chain[e.evm_tx_id].height = chain[e.tx_hash].height
      BY <2>1, Zenon DEF EInv, Rows, EventsTrue
    <3>2. chain[e.tx_hash].height \in Nat
      BY <1>6, <3>1, Zenon DEF IsLog
    <3> QED
      BY <1>1, <1>5, <3>1, <3>2
  <2>2. CASE e \notin evm_event
    <3>1. PICK hash \in logs :
             e = [tx_hash |-> hash, evm_tx_id |-> lastOf[hash], topic |-> chain[hash].log]
      BY <1>4, <2>2, Zenon
    <3> QED
      BY <1>4, <1>9, <3>1, Zenon
  <2> QED
    BY <2>1, <2>2, Zenon
<1>11. EventsThere'
  <2> SUFFICES ASSUME NEW hash \in Hash, IsLog(hash), chain[hash].height <= end
               PROVE  \E e \in evm_event' : e.tx_hash = hash
    BY <1>3, <1>5, Zenon DEF EventsThere, IsLog, Hash
  <2>1. CASE chain[hash].height <= checkpoint["event"]
    BY <1>4, <2>1, Zenon DEF EInv, Rows, EventsThere
  <2>2. CASE hash \in logs
    <3>1. [tx_hash |-> hash, evm_tx_id |-> lastOf[hash], topic |-> chain[hash].log] \in evm_event'
      BY <1>4, <2>2, Zenon
    <3> QED
      BY <3>1, Zenon
  <2>3. chain[hash].height <= checkpoint["event"] \/ hash \in logs
    BY <1>1, <1>6 DEF InRange, IsLog
  <2> QED
    BY <2>1, <2>2, <2>3, Zenon
<1>12. CreatorsKnown'
  BY <1>1, <1>3, <1>5, <1>6, CreatorsStay, Zenon DEF EInv
<1>13. History'
  BY <1>3, <1>5, HistoryStays, Zenon DEF EInv
<1> QED
  BY <1>7, <1>8, <1>10, <1>11, <1>12, <1>13, Zenon DEF EInv, Rows

(* EVM_CRAWL_INTERNAL_TX: what it adds lies above its checkpoint, and so   *)
(* above the one of CRAWL_SMART_CONTRACT_EVM.                              *)
LEMMA InternalStep ==
    ASSUME ConstantsTyped, EInv, EvmCrawlInternalTx
    PROVE  EInv'
<1> USE DEF EvmJob
<1>1. checkpoint \in [EvmJob -> Nat] /\ checkpoint["tx"] \in Nat
  BY DEF EInv, Typed
<1>2. PICK bound \in Nat : bound = checkpoint["tx"]
  BY <1>1
<1> DEFINE end == End("internal", bound)
           inner == {hash \in InRange(evm_transaction, "internal", end) : chain[hash].kind = "factory"}
<1>3. /\ Moves("internal", end)
      /\ UNCHANGED <<chain, evm_transaction, evm_event, contract, history>>
  BY <1>2, Zenon DEF EvmCrawlInternalTx
<1>4. PICK traced \in SUBSET inner : evm_internal' = evm_internal \cup traced
  BY <1>2, Zenon DEF EvmCrawlInternalTx
<1>5. /\ checkpoint' \in [EvmJob -> Nat] /\ end \in Nat /\ end <= bound
      /\ checkpoint["internal"] < end /\ checkpoint'["internal"] = end
      /\ \A job \in EvmJob : job # "internal" => checkpoint'[job] = checkpoint[job]
  BY <1>3, MovesForward, Zenon DEF EInv
<1>6. \A hash \in Hash : chain[hash].height \in Nat
  BY ChainFacts, Zenon DEF EInv
<1>7. Typed' /\ Ordered'
  BY <1>1, <1>2, <1>3, <1>5 DEF EInv, Typed, Ordered
<1>8. TxRows' /\ EventsTrue' /\ EventsThere' /\ LoggersStored'
  BY <1>3, <1>5, Zenon DEF EInv, Rows, TxRows, EventsTrue, EventsThere, LoggersStored, IsLog, Hash
<1>9. \A hash \in traced :
         /\ hash \in Hash /\ chain[hash].kind = "factory" /\ chain[hash].height <= end
         /\ checkpoint["internal"] < chain[hash].height
  BY Zenon DEF InRange, EInv, Rows, TxRows
<1>10. InnerRows'
  <2> SUFFICES ASSUME NEW hash \in evm_internal'
               PROVE  hash \in Hash /\ chain[hash].kind = "factory" /\ chain[hash].height <= end
    BY <1>3, <1>5, Zenon DEF InnerRows, Hash
  <2>1. CASE hash \in evm_internal
    BY <1>1, <1>5, <1>6, <2>1 DEF EInv, Rows, InnerRows
  <2>2. CASE hash \in traced
    BY <1>9, <2>2, Zenon
  <2> QED
    BY <1>4, <2>1, <2>2, Zenon
<1>11. CreatorsKnown'
  <2>1. \A hash \in evm_internal' :
           hash \in evm_internal \/ checkpoint["contract"] < chain[hash].height
    BY <1>1, <1>4, <1>6, <1>9 DEF EInv, Ordered
  <2> QED
    BY <1>1, <1>3, <1>5, <1>6, <2>1, CreatorsStay, Zenon DEF EInv
<1>12. History'
  BY <1>3, <1>5, HistoryStays, Zenon DEF EInv
<1> QED
  BY <1>7, <1>8, <1>10, <1>11, <1>12, Zenon DEF EInv, Rows
-----------------------------------------------------------------------------
(* What a message in whose rows the address is has to do with it.          *)
LEMMA MentionFacts ==
    ASSUME EInv, NEW end \in Nat, NEW hash \in Mentions(end)
    PROVE  /\ hash \in Hash /\ chain[hash].height <= end /\ checkpoint["contract"] < chain[hash].height
           /\ \/ chain[hash].kind # "other"
              \/ \E h \in Hash : chain[h].height = chain[hash].height /\ chain[h].log # None
<1>1. hash \in Hash /\ chain[hash].height <= end /\ checkpoint["contract"] < chain[hash].height
  BY Zenon DEF Mentions, InRange, EInv, Rows, TxRows
<1>2. CASE chain[hash].kind \in {"deploy", "call", "send"} \/ hash \in evm_internal
  BY <1>1, <1>2, Zenon DEF EInv, Rows, InnerRows
<1>3. CASE \E e \in evm_event : e.evm_tx_id = hash
  BY <1>1, <1>3, Zenon DEF EInv, Rows, EventsTrue, IsLog
<1> QED
  BY <1>1, <1>2, <1>3, Zenon DEF Mentions

(* CRAWL_SMART_CONTRACT_EVM.  A contract that logs is found by its event;  *)
(* the first answer is that of the creation or of a message that meddles.  *)
LEMMA ContractStep ==
    ASSUME ConstantsTyped, EInv, CrawlSmartContractEVM
    PROVE  EInv'
<1> USE DEF EvmJob
<1>1. checkpoint \in [EvmJob -> Nat] /\ Least(checkpoint["event"], checkpoint["internal"]) \in Nat
  BY Zenon DEF EInv, Typed, Least
<1>2. PICK bound \in Nat : bound = Least(checkpoint["event"], checkpoint["internal"])
  BY <1>1, Zenon
<1>3. PICK end \in Nat : end = End("contract", bound)
  BY <1>1, <1>2 DEF End, Least, ConstantsTyped
<1> DEFINE asked == IF contract = NotStored THEN Mentions(end) ELSE {}
           created == \E c \in Creation : chain[c].height <= end
<1>4. /\ Moves("contract", End("contract", bound))
      /\ UNCHANGED <<chain, evm_transaction, evm_event, evm_internal, history>>
      /\ \/ \E hash \in asked : contract' = Creator(hash, end)
         \/ (asked = {} \/ ~ created) /\ contract' = contract
  BY <1>2, <1>3, Zenon DEF CrawlSmartContractEVM, ContractEnd
<1>5. /\ checkpoint' \in [EvmJob -> Nat] /\ end <= bound /\ end <= checkpoint["contract"] + BlocksPerCall
      /\ checkpoint["contract"] < end /\ checkpoint'["contract"] = end
      /\ \A job \in EvmJob : job # "contract" => checkpoint'[job] = checkpoint[job]
  BY <1>3, <1>4, MovesForward, Zenon DEF EInv
<1>6. /\ Hash = 1 .. Messages /\ \A hash \in Hash : chain[hash].height \in Nat
      /\ \A hash \in Hash : IsLog(hash) =>
            \E c \in Creation : c \in Hash /\ chain[c].height <= chain[hash].height
  BY ChainFacts, Zenon DEF EInv, Creation
<1>7. end <= checkpoint["event"] /\ end <= checkpoint["internal"] /\ end <= checkpoint["tx"]
  BY <1>1, <1>2, <1>5 DEF EInv, Ordered, Least
<1>8. \A hash \in Mentions(end) : Creator(hash, end) \in 1 .. (Messages + 1)
  BY <1>6, MentionFacts DEF Creator, Unknown, ConstantsTyped
<1>9. contract' \in 0 .. (Messages + 1)
  BY <1>4, <1>8 DEF EInv, Typed, ConstantsTyped
<1>10. Typed' /\ Ordered'
  BY <1>1, <1>4, <1>5, <1>7, <1>9 DEF EInv, Typed, Ordered
<1>11. Rows'
  BY <1>4, <1>5, Zenon DEF EInv, Rows, TxRows, EventsTrue, EventsThere, InnerRows, IsLog, Hash
<1>12. contract # NotStored => contract' = contract
  BY <1>4, Zenon
<1>13. LoggersStored'
  <2> SUFFICES ASSUME NEW hash \in Hash, IsLog(hash), chain[hash].height <= end, contract = NotStored
               PROVE  contract' # NotStored
    BY <1>4, <1>5, <1>12, Zenon DEF LoggersStored, IsLog, Hash
  <2>1. checkpoint["contract"] < chain[hash].height
    BY <1>1, <1>6 DEF EInv, LoggersStored
  <2>2. chain[hash].height <= checkpoint["event"]
    BY <1>1, <1>6, <1>7
  <2>3. PICK e \in evm_event : e.tx_hash = hash
    BY <2>2, Zenon DEF EInv, Rows, EventsThere
  <2>4. e.evm_tx_id \in Hash /\ chain[e.evm_tx_id].height = chain[hash].height
    BY <2>3, Zenon DEF EInv, Rows, EventsTrue
  <2>5. e.evm_tx_id \in evm_transaction
    <3>1. chain[hash].height \in Nat /\ checkpoint["tx"] \in Nat /\ end <= checkpoint["tx"]
      BY <1>1, <1>6, <1>7, Zenon
    <3>2. chain[e.evm_tx_id].height <= checkpoint["tx"]
      BY <2>4, <3>1
    <3> QED
      BY <2>4, <3>2, Zenon DEF EInv, Rows, TxRows
  <2>6. e.evm_tx_id \in Mentions(end)
    BY <2>1, <2>4, <2>5, Zenon DEF Mentions, InRange
  <2>7. created
    BY <1>6
  <2>8. \E h \in Mentions(end) : contract' = Creator(h, end)
    BY <1>4, <2>6, <2>7, Zenon
  <2> QED
    BY <1>8, <2>8 DEF NotStored
<1>14. CreatorsKnown'
  <2> SUFFICES ASSUME NEW c \in Creation
               PROVE  CreatorKnown(c)'
    BY <1>4, Zenon DEF CreatorsKnown, Creation, Hash
  <2>1. c \in Hash /\ CreatorKnown(c) /\ chain[c].kind \in {"deploy", "factory"}
    BY Zenon DEF EInv, CreatorsKnown, Creation, Creates
  <2>2. Untraced(c)' = Untraced(c) /\ chain' = chain
    BY <1>4, Zenon DEF Untraced
  <2>3. \A hash : Meddles(hash, c)' = Meddles(hash, c)
    BY <1>4, ZenonT(40) DEF Meddles, Hash
  <2>4. CASE contract # NotStored
    BY <1>1, <1>4, <1>5, <1>6, <1>12, <2>1, <2>2, <2>3, <2>4 DEF CreatorKnown, Meddled, Hash
  <2>5. CASE contract = NotStored /\ chain[c].height <= checkpoint["contract"]
    <3>1. Untraced(c)
      BY <1>1, <1>6, <2>1, <2>5 DEF CreatorKnown, Meddled, NotStored, ConstantsTyped
    <3> QED
      BY <1>1, <1>5, <1>6, <2>1, <2>2, <2>5, <3>1 DEF CreatorKnown
  <2>6. ASSUME contract = NotStored, checkpoint["contract"] < chain[c].height,
               NEW hash \in Mentions(end), contract' = Creator(hash, end)
        PROVE  CreatorKnown(c)'
    <3>1. contract' # NotStored
      BY <1>8, <2>6 DEF NotStored
    <3>2. CASE hash # c
      <4>1. /\ chain[hash].height <= end
            /\ \/ chain[hash].kind # "other"
               \/ \E h \in Hash : chain[h].height = chain[hash].height /\ chain[h].log # None
        BY MentionFacts, Zenon
      <4>2. hash \in Hash
        BY MentionFacts, Zenon
      <4>3. chain[hash].height < chain[c].height + BlocksPerCall
        <5>1. chain[hash].height \in Nat /\ chain[c].height \in Nat /\ checkpoint["contract"] \in Nat
          BY <1>1, <1>6, <2>1, <4>2, Zenon
        <5>2. end <= checkpoint["contract"] + BlocksPerCall
          BY <1>5, Zenon
        <5> QED
          BY <2>6, <4>1, <5>1, <5>2 DEF ConstantsTyped
      <4>4. Meddles(hash, c)
        BY <3>2, <4>1, <4>3, Zenon DEF Meddles
      <4>5. Meddled(c)'
        BY <1>4, <2>3, <3>1, <4>2, <4>4, ZenonT(40) DEF Meddled, Hash
      <4> QED
        BY <4>5, <1>6, <2>1, Zenon DEF CreatorKnown
    <3>3. CASE hash = c
      <4>1. chain[c].height <= end
        BY <3>3, MentionFacts, Zenon
      <4>2. Untraced(c) \/ contract' = c
        BY <2>1, <2>6, <3>3, <4>1, ZenonT(40) DEF Creator, Untraced, InRange
      <4> QED
        BY <1>5, <1>6, <2>1, <2>2, <4>1, <4>2 DEF CreatorKnown
    <3> QED
      BY <3>2, <3>3, Zenon
  <2>7. ASSUME contract = NotStored, checkpoint["contract"] < chain[c].height,
               asked = {} \/ ~ created, contract' = contract
        PROVE  CreatorKnown(c)'
    <3>1. CASE end < chain[c].height
      BY <1>4, <1>5, <2>2, <2>7, <3>1, ZenonT(40) DEF CreatorKnown
    <3>2. CASE chain[c].height <= end
      <4>1. Mentions(end) = {}
        BY <2>7, <3>2, ZenonT(40)
      <4>2. c \in InRange(evm_transaction, "contract", end)
        BY <1>1, <1>6, <1>7, <2>1, <2>7, <3>2 DEF InRange, EInv, Rows, TxRows
      <4>3. Untraced(c)
        BY <2>1, <4>1, <4>2, Zenon DEF Mentions, Untraced
      <4> QED
        BY <1>5, <1>6, <2>1, <2>2, <3>2, <4>3 DEF CreatorKnown
    <3> QED
      BY <1>6, <2>1, <3>1, <3>2
  <2>8. contract = NotStored => asked = Mentions(end)
    BY ZenonT(40)
  <2>9. chain[c].height <= checkpoint["contract"] \/ checkpoint["contract"] < chain[c].height
    BY <1>1, <1>6, <2>1
  <2> HIDE DEF asked, created
  <2>10. CASE contract = NotStored /\ checkpoint["contract"] < chain[c].height
    BY <1>4, <2>6, <2>7, <2>8, <2>10, Zenon
  <2> QED
    BY <2>4, <2>5, <2>9, <2>10, Zenon
<1>15. History'
  BY <1>4, <1>5, HistoryStays, Zenon DEF EInv
<1> QED
  BY <1>10, <1>11, <1>13, <1>14, <1>15, Zenon DEF EInv
-----------------------------------------------------------------------------
(* The upgrades of a height that JOB_CRAWL_EVM_EVENT has passed are those  *)
(* that the contract announced.                                            *)
LEMMA UpgradeFacts ==
    ASSUME ConstantsTyped, EInv, NEW h \in Nat, h <= checkpoint["event"]
    PROVE  /\ \A i \in Upgrades(h) : \E hash \in Hash : Announces(hash, h) /\ chain[hash].log = i
           /\ \A hash \in Hash : Announces(hash, h) => chain[hash].log \in Upgrades(h)
<1>1. ASSUME NEW i \in Upgrades(h)
      PROVE  \E hash \in Hash : Announces(hash, h) /\ chain[hash].log = i
  <2>1. PICK e \in evm_event : chain[e.tx_hash].height = h /\ e.topic \in Implementation /\ e.topic = i
    BY Zenon DEF Upgrades
  <2>2. e.tx_hash \in Hash /\ e.topic = chain[e.tx_hash].log
    BY Zenon DEF EInv, Rows, EventsTrue, IsLog
  <2> QED
    BY <2>1, <2>2, Zenon DEF Announces
<1>2. ASSUME NEW hash \in Hash, Announces(hash, h)
      PROVE  chain[hash].log \in Upgrades(h)
  <2>1. IsLog(hash)
    BY <1>2, ChainFacts, Zenon DEF EInv, Announces
  <2>2. PICK e \in evm_event : e.tx_hash = hash
    BY <1>2, <2>1, Zenon DEF EInv, Rows, EventsThere, Announces
  <2>3. e.topic = chain[hash].log
    BY <2>2, Zenon DEF EInv, Rows, EventsTrue
  <2> QED
    BY <1>2, <2>2, <2>3, Zenon DEF Upgrades, Announces
<1> QED
  BY <1>1, <1>2, Zenon

(* HANDLE_EVM_PROXY_HISTORY.  The contract is stored whenever there is an  *)
(* upgrade in the range, so that no upgrade is dropped.                    *)
LEMMA ProxyStep ==
    ASSUME ConstantsTyped, EInv, HandleEvmProxyHistory
    PROVE  EInv'
<1> USE DEF EvmJob
<1>1. checkpoint \in [EvmJob -> Nat] /\ checkpoint["contract"] \in Nat
  BY Zenon DEF EInv, Typed
<1>2. PICK bound \in Nat : bound = checkpoint["contract"]
  BY <1>1, Zenon
<1>3. PICK end \in Nat : end = End("proxy", bound)
  BY <1>1, <1>2 DEF End, Least, ConstantsTyped
<1> DEFINE heights == {h \in (checkpoint["proxy"] + 1) .. end : contract # NotStored /\ Upgrades(h) # {}}
<1>4. /\ Moves("proxy", End("proxy", bound))
      /\ UNCHANGED <<chain, evm_transaction, evm_event, evm_internal, contract>>
  BY <1>2, Zenon DEF HandleEvmProxyHistory, ProxyEnd
<1>5. PICK kept \in [heights -> Implementation] :
         /\ \A h \in heights : kept[h] \in Upgrades(h)
         /\ history' = history \cup {[height |-> h, implementation |-> kept[h]] : h \in heights}
  BY <1>2, <1>3, Zenon DEF HandleEvmProxyHistory, ProxyEnd
<1>6. /\ checkpoint' \in [EvmJob -> Nat] /\ end <= bound
      /\ checkpoint["proxy"] < end /\ checkpoint'["proxy"] = end
      /\ \A job \in EvmJob : job # "proxy" => checkpoint'[job] = checkpoint[job]
  BY <1>3, <1>4, MovesForward, Zenon DEF EInv
<1>7. \A hash \in Hash : chain[hash].height \in Nat
  BY ChainFacts, Zenon DEF EInv
<1>8. Typed' /\ Ordered'
  BY <1>1, <1>2, <1>4, <1>6, Zenon DEF EInv, Typed, Ordered
<1>9. Rows' /\ LoggersStored'
  BY <1>4, <1>6, Zenon DEF EInv, Rows, TxRows, EventsTrue, EventsThere, InnerRows, LoggersStored, IsLog, Hash
<1>10. CreatorsKnown'
  BY <1>1, <1>4, <1>6, <1>7, CreatorsStay, Zenon DEF EInv
<1>11. end <= checkpoint["event"]
  BY <1>1, <1>2, <1>6 DEF EInv, Ordered
<1>12. \A h \in heights : h \in Nat /\ checkpoint["proxy"] < h /\ h <= end /\ h <= checkpoint["event"]
  BY <1>1, <1>11
<1>13. \A r \in history' : r \in history \/ \E h \in heights : r = [height |-> h, implementation |-> kept[h]]
  BY <1>5, Zenon
<1>14. \A r \in history : r.height \in Nat /\ r.height <= checkpoint["proxy"]
  BY Zenon DEF EInv, History, HistoryTrue
<1>15. HistoryTrue'
  <2> SUFFICES ASSUME NEW r \in history'
               PROVE  /\ r.height \in Nat /\ r.height <= end
                      /\ r = [height |-> r.height, implementation |-> r.implementation]
                      /\ \E hash \in Hash : Announces(hash, r.height) /\ chain[hash].log = r.implementation
    BY <1>4, <1>6, Zenon DEF HistoryTrue, Announces, Hash
  <2>1. CASE r \in history
    <3>1. r.height <= end
      BY <1>1, <1>6, <1>14, <2>1
    <3> QED
      BY <2>1, <3>1, Zenon DEF EInv, History, HistoryTrue
  <2>2. ASSUME NEW h \in heights, r = [height |-> h, implementation |-> kept[h]]
        PROVE  /\ r.height \in Nat /\ r.height <= end
               /\ r = [height |-> r.height, implementation |-> r.implementation]
               /\ \E hash \in Hash : Announces(hash, r.height) /\ chain[hash].log = r.implementation
    <3>1. kept[h] \in Upgrades(h) /\ h \in Nat /\ h <= checkpoint["event"] /\ h <= end
      BY <1>5, <1>12, Zenon
    <3>2. \E hash \in Hash : Announces(hash, h) /\ chain[hash].log = kept[h]
      BY <3>1, UpgradeFacts, Zenon
    <3>3. r.height = h /\ r.implementation = kept[h]
      BY <2>2, Zenon
    <3> QED
      BY <2>2, <3>1, <3>2, <3>3, Zenon
  <2> QED
    BY <1>13, <2>1, <2>2, Zenon
<1>16. HistoryOnce'
  <2> SUFFICES ASSUME NEW r \in history', NEW s \in history', r.height = s.height
               PROVE  r = s
    BY Zenon DEF HistoryOnce
  <2>1. CASE r \in history /\ s \in history
    BY <2>1, Zenon DEF EInv, History, HistoryOnce
  <2>2. \A q \in history' : q \notin history => checkpoint["proxy"] < q.height
    BY <1>12, <1>13
  <2>3. CASE r \notin history /\ s \notin history
    <3>1. PICK h \in heights : r = [height |-> h, implementation |-> kept[h]]
      BY <1>13, <2>3, Zenon
    <3>2. PICK k \in heights : s = [height |-> k, implementation |-> kept[k]]
      BY <1>13, <2>3, Zenon
    <3>3. r.height = h /\ s.height = k
      BY <3>1, <3>2, Zenon
    <3> QED
      BY <3>1, <3>2, <3>3, Zenon
  <2> QED
    BY <1>1, <1>14, <2>1, <2>2, <2>3
<1>17. HistoryThere'
  <2> SUFFICES ASSUME NEW hash \in Hash, chain[hash].log \in Implementation, chain[hash].height <= end
               PROVE  \E r \in history' : r.height = chain[hash].height
    BY <1>4, <1>6, Zenon DEF HistoryThere, Hash
  <2>1. CASE chain[hash].height <= checkpoint["proxy"]
    BY <1>5, <2>1, Zenon DEF EInv, History, HistoryThere
  <2>2. CASE checkpoint["proxy"] < chain[hash].height
    <3>1. PICK h \in Nat : h = chain[hash].height
      BY <1>7, Zenon
    <3>2. h <= checkpoint["event"] /\ h <= checkpoint["contract"]
      BY <1>1, <1>2, <1>6, <1>11, <3>1
    <3>3. Announces(hash, h)
      BY <3>1, Zenon DEF Announces
    <3>4. Upgrades(h) # {}
      BY <3>2, <3>3, UpgradeFacts, Zenon
    <3>5. contract # NotStored
      BY <3>1, <3>2, ChainFacts, Zenon DEF EInv, LoggersStored
    <3>6. h \in heights
      BY <1>1, <2>2, <3>1, <3>4, <3>5
    <3>7. [height |-> h, implementation |-> kept[h]] \in history'
      BY <1>5, <3>6, Zenon
    <3> QED
      BY <3>1, <3>7, Zenon
  <2> QED
    BY <1>1, <1>7, <2>1, <2>2
<1> QED
  BY <1>8, <1>9, <1>10, <1>15, <1>16, <1>17 DEF EInv, History
-----------------------------------------------------------------------------
LEMMA EvmStutter ==
    ASSUME EInv, UNCHANGED evmVars
    PROVE  EInv'
<1>1. UNCHANGED <<chain, evm_transaction, evm_event, evm_internal, contract, history, checkpoint>>
  BY Zenon DEF evmVars
<1>2. Typed' /\ Ordered'
  BY <1>1, Zenon DEF EInv, Typed, Ordered
<1>3. Rows'
  BY <1>1, Zenon DEF EInv, Rows, TxRows, EventsTrue, EventsThere, InnerRows, IsLog, Hash
<1>4. LoggersStored'
  BY <1>1, ZenonT(40) DEF EInv, LoggersStored, IsLog, Hash
<1>5. CreatorsKnown'
  BY <1>1 DEF EInv, CreatorsKnown, CreatorKnown, Meddled, Meddles, Untraced, Creation, Hash
<1>6. History'
  BY <1>1, Zenon DEF EInv, History, HistoryTrue, HistoryOnce, HistoryThere, Announces, Hash
<1> QED
  BY <1>2, <1>3, <1>4, <1>5, <1>6, Zenon DEF EInv

LEMMA EvmInvariant == ASSUME ConstantsTyped PROVE EvmSpec => []EInv
<1>1. EvmInit => EInv
  BY EvmStart, Zenon
<1>2. EInv /\ [EvmNext]_evmVars => EInv'
  BY TransactionStep, EventStep, InternalStep, ContractStep, ProxyStep, EvmStutter, Zenon DEF EvmNext
<1> QED
  BY <1>1, <1>2, PTL DEF EvmSpec

LEMMA CreatorsFollow ==
    ASSUME ConstantsTyped, EInv
    PROVE  CreatorsRight
<1> SUFFICES ASSUME NEW c \in Creation
             PROVE  \/ chain[c].height > checkpoint["contract"] /\ contract = NotStored
                    \/ Untraced(c)
                    \/ contract = c
                    \/ Meddled(c)
  BY Zenon DEF CreatorsRight, Meddled
<1>1. CreatorKnown(c)
  BY Zenon DEF EInv, CreatorsKnown
<1>2. checkpoint["contract"] \in Nat /\ chain[c].height \in Nat
  BY ChainFacts, Zenon DEF EInv, Typed, EvmJob, Creation
<1> QED
  BY <1>1, <1>2, Zenon DEF CreatorKnown

(* Every row was announced, and every announcement has a row at its        *)
(* height: so the latest of the rows is one of the latest announcements.   *)
LEMMA ProxiesFollow ==
    ASSUME ConstantsTyped, EInv
    PROVE  ProxiesCurrent
<1> DEFINE proxy == checkpoint["proxy"]
<1>1. proxy \in Nat
  BY Zenon DEF EInv, Typed, EvmJob
<1>2. \A hash \in Hash : chain[hash].height \in Nat
  BY ChainFacts, Zenon DEF EInv
<1>3. \A r \in history : r.height \in Nat /\ r \in Announced
  <2> SUFFICES ASSUME NEW r \in history
               PROVE  r.height \in Nat /\ r \in Announced
    BY Zenon
  <2>1. PICK hash \in Hash : Announces(hash, r.height) /\ chain[hash].log = r.implementation
    BY Zenon DEF EInv, History, HistoryTrue
  <2>2. r.height \in Nat /\ r = [height |-> r.height, implementation |-> r.implementation]
    BY Zenon DEF EInv, History, HistoryTrue
  <2>3. r = [height |-> chain[hash].height, implementation |-> chain[hash].log]
    BY <2>1, <2>2, ZenonT(40) DEF Announces
  <2> QED
    BY <2>1, <2>2, <2>3, Zenon DEF Announced, Announces
<1>4. \A a \in Announced : a.height \in Nat
  BY <1>2 DEF Announced
<1>5. \A a \in Announced : a.height <= proxy => \E r \in history : r.height = a.height
  BY DEF EInv, History, HistoryThere, Announced
<1> SUFFICES ASSUME NEW h \in 1 .. proxy
             PROVE  /\ \A r, s \in LatestUpTo(h, history) : r = s
                    /\ LatestUpTo(h, history) \subseteq LatestUpTo(h, Announced)
                    /\ LatestUpTo(h, history) = {} => LatestUpTo(h, Announced) = {}
  BY Zenon DEF ProxiesCurrent
<1>6. h \in Nat /\ h <= proxy
  BY <1>1
<1> HIDE DEF proxy
<1>7. \A a \in Announced : a.height <= h => \E r \in history : r.height = a.height
  BY <1>1, <1>4, <1>5, <1>6
<1>8. \A r, s \in LatestUpTo(h, history) : r = s
  <2> SUFFICES ASSUME NEW r \in LatestUpTo(h, history), NEW s \in LatestUpTo(h, history)
               PROVE  r = s
    BY Zenon
  <2>1. /\ r \in history /\ s \in history
        /\ r.height <= s.height /\ s.height <= r.height
    BY Zenon DEF LatestUpTo
  <2>2. r.height = s.height
    BY <1>3, <2>1
  <2> QED
    BY <2>1, <2>2, Zenon DEF EInv, History, HistoryOnce
<1>9. LatestUpTo(h, history) \subseteq LatestUpTo(h, Announced)
  <2> SUFFICES ASSUME NEW r \in LatestUpTo(h, history)
               PROVE  r \in LatestUpTo(h, Announced)
    BY Zenon
  <2>1. r \in Announced /\ r.height <= h
    BY <1>3, Zenon DEF LatestUpTo
  <2>2. \A a \in Announced : a.height <= h => a.height <= r.height
    BY <1>7, Zenon DEF LatestUpTo
  <2> QED
    BY <2>1, <2>2, Zenon DEF LatestUpTo
<1>10. ASSUME NEW a \in LatestUpTo(h, Announced)
       PROVE  LatestUpTo(h, history) # {}
  <2>1. a \in Announced /\ a.height <= h
    BY Zenon DEF LatestUpTo
  <2>2. PICK r \in history : r.height = a.height
    BY <1>7, <2>1, Zenon
  <2>3. \A s \in history : s.height <= h => s.height <= r.height
    BY <1>3, <2>2, Zenon DEF LatestUpTo
  <2>4. r \in LatestUpTo(h, history)
    BY <2>1, <2>2, <2>3, Zenon DEF LatestUpTo
  <2> QED
    BY <2>4, Zenon
<1> QED
  BY <1>8, <1>9, <1>10, Zenon
-----------------------------------------------------------------------------
(* CRAWL_SMART_CONTRACT_EVM gives every contract the message that created  *)
(* it, unless it was not traced or another message meddles: whatever the   *)
(* messages, however the jobs before it interleave and whatever range of   *)
(* blocks a run takes.                                                     *)
THEOREM CreatorsAlwaysRight == ASSUME ConstantsTyped PROVE EvmSpec => []CreatorsRight
<1>1. EInv => CreatorsRight
  BY CreatorsFollow, Zenon
<1> QED
  BY <1>1, EvmInvariant, PTL

(* The history of a proxy that HANDLE_EVM_PROXY_HISTORY keeps has the      *)
(* implementation that the proxy announced last, at every height that the  *)
(* job has passed.                                                         *)
THEOREM ProxiesAlwaysCurrent == ASSUME ConstantsTyped PROVE EvmSpec => []ProxiesCurrent
<1>1. EInv => ProxiesCurrent
  BY ProxiesFollow, Zenon
<1> QED
  BY <1>1, EvmInvariant, PTL
=============================================================================
