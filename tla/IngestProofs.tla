---------------------------- MODULE IngestProofs ----------------------------
(***************************************************************************)
(* Proofs about Ingest, for every chain, batch size, set of workers and    *)
(* set of headerless heights.  First for any number of workers of a queue: *)
(* no checkpoint runs ahead of its table.  Then with one worker per queue: *)
(* rows are stored once and in order, checkpoints never move back, and the *)
(* pipeline implements Indexer, since every step of a worker extends a     *)
(* table, moves a cursor together with the rows it vouches for, or changes *)
(* neither.                                                                *)
(***************************************************************************)
EXTENDS Ingest, TLAPS

(* The provers that try a leaf, one after the other, and their time in     *)
(* seconds.                                                                *)
USE SMTT(40), ZenonT(40)

(* With a single dependency getCheckpoint's end is bounded by that row.    *)
LEMMA LastOfOne ==
    ASSUME NEW rs, NEW d, rs[d] \in Int
    PROVE  LastHeight(rs, {d}) = rs[d]
<1>1. CASE rs[d] = NoRow
  BY <1>1, Zenon DEF LastHeight
<1>2. CASE rs[d] # NoRow
  <2>1. {e \in {d} : rs[e] # NoRow} = {d}
    BY <1>2, Zenon
  <2>2. (CHOOSE e \in {d} : \A f \in {d} : rs[e] <= rs[f]) = d
    <3>1. \E e \in {d} : \A f \in {d} : rs[e] <= rs[f]
      OBVIOUS
    <3>2. QED
      BY <3>1, Zenon
  <2>3. QED
    BY <2>1, <2>2, Zenon DEF LastHeight
<1>3. QED
  BY <1>1, <1>2, Zenon

(* The steps of a worker, one by one: the case split of every proof below. *)
LEMMA WorkerSteps ==
    ASSUME NEW w \in Workers, Work(w)
    PROVE  \/ InitEnv(w)
           \/ \E latest \in 0 .. chain, headerless \in SUBSET MayBeHeaderless :
                 FetchBlocks(w, latest, headerless)
           \/ InsertBlocks(w) \/ UpdateCrawledBlock(w)
           \/ ReadJobRow(w) \/ ReadLastRow(w)
           \/ GetListRawTx(w) \/ InsertTxDecoded(w)
           \/ ListTxRaw(w) \/ InsertRelatedTx(w)
  BY Zenon DEF Work, CrawlBlock, JobCrawlTx, JobHandlerCrawlTx

(* A worker with no rows in hand has well-typed rows.                      *)
LEMMA NothingType == Nothing \in [Heights -> Nat]
  BY Zenon DEF Nothing

(* The end that getCheckpoint computes is a height.                        *)
LEMMA EndHeightType ==
    ASSUME NEW s \in Nat, NEW l \in {NoRow} \cup Nat, NEW n \in Nat
    PROVE  EndHeight(s, l, n) \in Nat
  BY DEF EndHeight, SmallerOf, NoRow, NoStep

(* An insert keeps the tables well typed.                                  *)
LEMMA InsertRowsType ==
    ASSUME TypeOK, NEW w \in Workers, InsertRows(w)
    PROVE  stored' \in [Jobs -> [Heights -> Nat]]
<1>1. JobOf[w] \in Jobs
  BY IngestAssumption, Zenon
<1>2. stored[JobOf[w]] \in [Heights -> Nat] /\ rows[w] \in [Heights -> Nat]
  BY <1>1, Zenon DEF TypeOK
<1>3. [h \in Heights |-> stored[JobOf[w]][h] + rows[w][h]] \in [Heights -> Nat]
  BY <1>2
<1>4. QED
  BY <1>3, Zenon DEF InsertRows, TypeOK

(* A job that ends leaves its worker well typed.                           *)
LEMMA FinishType ==
    ASSUME TypeOK, NEW w \in Workers, Finish(w)
    PROVE  /\ pc' \in [Workers -> Labels]
           /\ from' \in [Workers -> Nat]
           /\ to' \in [Workers -> Nat]
           /\ rows' \in [Workers -> [Heights -> Nat]]
  BY NothingType, StartBlockAssumption, Zenon DEF TypeOK, Finish, Goto, Labels

(* Every step keeps every variable in its type.                            *)
THEOREM TypeCorrect == Spec => []TypeOK
<1>1. Init => TypeOK
  BY NothingType, StartBlockAssumption, Zenon DEF Init, TypeOK, Labels
<1>2. TypeOK /\ [Next]_vars => TypeOK'
  <2> SUFFICES ASSUME TypeOK, [Next]_vars PROVE TypeOK'
    BY Zenon
  <2>1. CASE UNCHANGED vars
    BY <2>1, Zenon DEF vars, TypeOK
  <2>2. CASE NewBlock
    BY <2>2 DEF NewBlock, local, TypeOK
  <2>3. ASSUME NEW w \in Workers, Abort(w) PROVE TypeOK'
    BY <2>3, FinishType, Zenon DEF Abort, TypeOK
  <2>4. ASSUME NEW w \in Workers, Work(w) PROVE TypeOK'
    <3>0. JobOf[w] \in Jobs /\ CB \in Jobs /\ BlocksPerCall[JobOf[w]] \in Nat
      BY IngestAssumption, Zenon DEF Jobs
    <3>1. CASE InitEnv(w)
      BY <3>1, <3>0, StartBlockAssumption, Zenon
         DEF InitEnv, Goto, Labels, StartHeight, TypeOK
    <3>2. ASSUME NEW latest \in 0 .. chain, NEW headerless, FetchBlocks(w, latest, headerless)
          PROVE  TypeOK'
      <4>1. BlocksPerCall[CB] \in Nat
        BY IngestAssumption, Zenon DEF Jobs
      <4>2. SmallerOf(from[w] + BlocksPerCall[CB], latest) \in Nat
        BY <4>1 DEF SmallerOf, TypeOK
      <4>3. QED
        BY <3>2, <4>2, Zenon DEF FetchBlocks, Goto, Labels, TypeOK
    <3>3. CASE InsertBlocks(w)
      BY <3>3, InsertRowsType, Zenon DEF InsertBlocks, Goto, Labels, TypeOK
    <3>4. CASE UpdateCrawledBlock(w)
      BY <3>4, <3>0, FinishType, Zenon DEF UpdateCrawledBlock, TypeOK
    <3>5. CASE ReadJobRow(w)
      BY <3>5, <3>0, StartBlockAssumption, Zenon
         DEF ReadJobRow, Goto, Labels, StartHeight, TypeOK
    <3>6. CASE ReadLastRow(w)
      <4> DEFINE last == LastHeight(cp, DependsOn(JobOf[w]))
                 end == EndHeight(from[w], last, BlocksPerCall[JobOf[w]])
      <4>1. PICK d \in Jobs : DependsOn(JobOf[w]) = {d}
        BY Zenon DEF DependsOn, Jobs
      <4>2. cp[d] \in {NoRow} \cup Nat /\ cp[d] \in Int
        BY <4>1 DEF TypeOK, NoRow
      <4>3. last \in {NoRow} \cup Nat
        BY <4>1, <4>2, LastOfOne, Zenon
      <4>4. end \in Nat
        BY <4>3, <3>0, EndHeightType, Zenon DEF TypeOK
      <4>5. CASE Finish(w)
        BY <3>6, <4>5, FinishType, Zenon DEF ReadLastRow, TypeOK
      <4>6. CASE to' = [to EXCEPT ![w] = end] /\ Goto(w, "list") /\ UNCHANGED <<from, rows>>
        BY <3>6, <4>4, <4>6, Zenon DEF ReadLastRow, Goto, Labels, TypeOK
      <4>7. QED
        BY <3>6, <4>5, <4>6, Zenon DEF ReadLastRow
    <3>7. CASE GetListRawTx(w)
      BY <3>7, Zenon DEF GetListRawTx, Goto, Labels, TypeOK
    <3>8. CASE ListTxRaw(w)
      <4>1. stored[CT] \in [Heights -> Nat]
        BY Zenon DEF TypeOK, Jobs
      <4>2. QED
        BY <3>8, <4>1, Zenon DEF ListTxRaw, Goto, Labels, TypeOK
    <3>9. CASE InsertTxDecoded(w) \/ InsertRelatedTx(w)
      BY <3>9, <3>0, FinishType, InsertRowsType, Zenon
         DEF InsertTxDecoded, InsertRelatedTx, Commit, TypeOK
    <3>10. QED
      BY <2>4, <3>1, <3>2, <3>3, <3>4, <3>5, <3>6, <3>7, <3>8, <3>9, WorkerSteps, Zenon
  <2>5. QED
    BY <2>1, <2>2, <2>3, <2>4, Zenon DEF Next
<1>3. QED
  BY <1>1, <1>2, PTL DEF Spec

-----------------------------------------------------------------------------
(* Tables only grow, so coverage is never lost.                            *)
Grows(S, T) == \A j \in Jobs, h \in Heights : S[j][h] <= T[j][h]

(* A height that is covered stays covered when tables grow.                *)
LEMMA CoverageKept ==
    ASSUME NEW S \in [Jobs -> [Heights -> Nat]], NEW T \in [Jobs -> [Heights -> Nat]],
           Grows(S, T), NEW j \in Jobs, NEW n \in Int, CoveredBy(S, j, n)
    PROVE  CoveredBy(T, j, n)
<1> SUFFICES ASSUME NEW h \in Heights, h <= n, Due(j, h) PROVE T[j][h] > 0
  BY Zenon DEF CoveredBy
<1>1. S[j][h] > 0 /\ S[j][h] <= T[j][h] /\ S[j][h] \in Nat /\ T[j][h] \in Nat
  BY Zenon DEF CoveredBy, Grows
<1>2. QED
  BY <1>1

(* No block is due at or below the start block.                            *)
LEMMA NothingDueBelowStart ==
    ASSUME NEW S, NEW j
    PROVE  CoveredBy(S, j, StartBlock)
  BY StartBlockAssumption, IngestAssumption DEF CoveredBy, Heights

(* An insert only adds rows, those the worker has in hand.                 *)
LEMMA InsertGrows ==
    ASSUME TypeOK, NEW w \in Workers, InsertRows(w)
    PROVE  /\ Grows(stored, stored')
           /\ \A h \in Heights :
                 stored'[JobOf[w]][h] = stored[JobOf[w]][h] + rows[w][h]
<1>1. JobOf[w] \in Jobs
  BY IngestAssumption
<1>2. rows[w] \in [Heights -> Nat]
  BY Zenon DEF TypeOK
<1>3. \A h \in Heights : stored'[JobOf[w]][h] = stored[JobOf[w]][h] + rows[w][h]
  BY <1>1, Zenon DEF InsertRows, TypeOK
<1>4. ASSUME NEW j \in Jobs, NEW h \in Heights PROVE stored[j][h] <= stored'[j][h]
  <2>1. stored[j][h] \in Nat /\ rows[w][h] \in Nat
    BY <1>2, Zenon DEF TypeOK
  <2>2. CASE j = JobOf[w]
    BY <2>1, <2>2, <1>3
  <2>3. CASE j # JobOf[w]
    BY <2>1, <2>3 DEF InsertRows, TypeOK
  <2>4. QED
    BY <2>2, <2>3, Zenon
<1>5. QED
  BY <1>3, <1>4, Zenon DEF Grows

(* A step that writes no table lets the tables grow, trivially.            *)
LEMMA UnchangedGrows == ASSUME TypeOK, UNCHANGED stored PROVE Grows(stored, stored')
<1>1. \A j \in Jobs, h \in Heights : stored[j][h] \in Nat
  BY Zenon DEF TypeOK
<1>2. QED
  BY <1>1 DEF Grows

(* No step of the pipeline deletes a row.                                  *)
LEMMA StepGrows == ASSUME TypeOK, [Next]_vars PROVE Grows(stored, stored')
<1>1. CASE UNCHANGED stored
  BY <1>1, UnchangedGrows, Zenon
<1>2. ASSUME NEW w \in Workers, InsertRows(w) PROVE Grows(stored, stored')
  BY <1>2, InsertGrows, Zenon
<1>3. ASSUME NEW w \in Workers, Work(w)
      PROVE  UNCHANGED stored \/ InsertRows(w)
  BY <1>3, WorkerSteps, Zenon
     DEF InitEnv, FetchBlocks, InsertBlocks, UpdateCrawledBlock, ReadJobRow, ReadLastRow,
         GetListRawTx, InsertTxDecoded, ListTxRaw, InsertRelatedTx, Commit
<1>4. QED
  BY <1>1, <1>2, <1>3, Zenon DEF Next, NewBlock, Abort, vars

(* A worker whose variables a step leaves alone keeps its coverage.        *)
LEMMA BystanderCovered ==
    ASSUME TypeOK, TypeOK', Grows(stored, stored'),
           NEW v \in Workers, WorkerCovered(v),
           UNCHANGED <<pc[v], from[v], to[v], rows[v]>>
    PROVE  WorkerCovered(v)'
<1>1. JobOf[v] \in Jobs /\ Upstream(JobOf[v]) \in Jobs
  BY IngestAssumption, Zenon DEF Upstream, Jobs
<1>2. from[v] \in Int /\ to[v] \in Int
  BY DEF TypeOK
<1>3. /\ stored \in [Jobs -> [Heights -> Nat]]
      /\ stored' \in [Jobs -> [Heights -> Nat]]
  BY Zenon DEF TypeOK
<1>4. \A j \in Jobs, n \in Int : CoveredBy(stored, j, n) => CoveredBy(stored', j, n)
  BY <1>3, CoverageKept, Zenon
<1>5. Promised(v) => Promised(v)'
  <2> SUFFICES ASSUME Promised(v), NEW h \in Heights, h <= to[v], Due(JobOf[v], h)
               PROVE  stored'[JobOf[v]][h] + rows[v][h] > 0
    BY Zenon DEF Promised, Due
  <2>1. /\ stored[JobOf[v]][h] \in Nat /\ stored'[JobOf[v]][h] \in Nat
        /\ rows[v][h] \in Nat
    BY <1>1, <1>3, Zenon DEF TypeOK
  <2>2. stored[JobOf[v]][h] <= stored'[JobOf[v]][h]
    BY <1>1, Zenon DEF Grows
  <2>3. QED
    BY <2>1, <2>2 DEF Promised
<1>6. QED
  BY <1>1, <1>2, <1>4, <1>5, Zenon DEF WorkerCovered, Covered

IInv == TypeOK /\ NoHole /\ JobsCovered

(* The start a job reads is covered by its own table.                      *)
LEMMA StartCovered ==
    ASSUME TypeOK, NoHole, NEW j \in Jobs
    PROVE  Covered(j, StartHeight(cp[j]))
  BY NothingDueBelowStart, Zenon DEF NoHole, StartHeight, Covered

(* A step that moves one row, to a covered height, opens no hole.          *)
LEMMA NoHoleKept ==
    ASSUME TypeOK, TypeOK', Grows(stored, stored'), NoHole, NEW k \in Jobs,
           \A j \in Jobs : j # k => cp'[j] = cp[j],
           cp'[k] = cp[k] \/ CoveredBy(stored', k, cp'[k])
    PROVE  NoHole'
<1> SUFFICES ASSUME NEW j \in Jobs, cp'[j] # NoRow PROVE CoveredBy(stored', j, cp'[j])
  BY Zenon DEF NoHole, Covered
<1>1. CASE cp'[j] = cp[j]
  <2>1. CoveredBy(stored, j, cp[j]) /\ cp[j] \in Int
    BY <1>1 DEF NoHole, Covered, TypeOK, NoRow
  <2>2. /\ stored \in [Jobs -> [Heights -> Nat]]
        /\ stored' \in [Jobs -> [Heights -> Nat]]
    BY Zenon DEF TypeOK
  <2>3. QED
    BY <1>1, <2>1, <2>2, CoverageKept, Zenon
<1>2. QED
  BY <1>1, Zenon

(* A step of worker w, as the proof needs it: what it does to the others   *)
(* is nothing, and to the checkpoints at most to move one.                 *)
LEMMA WorkerStepFrame ==
    ASSUME TypeOK, NEW w \in Workers, Work(w) \/ Abort(w), NEW v \in Workers, v # w
    PROVE  UNCHANGED <<pc[v], from[v], to[v], rows[v]>>
<1>1. CASE Finish(w)
  BY <1>1, Zenon DEF Finish, Goto, TypeOK
<1>2. CASE Abort(w)
  BY <1>1, <1>2, Zenon DEF Abort
<1>3. CASE InitEnv(w) \/ ReadJobRow(w)
  BY <1>3, Zenon DEF InitEnv, ReadJobRow, Goto, TypeOK
<1>4. ASSUME NEW latest, NEW headerless, FetchBlocks(w, latest, headerless)
      PROVE  UNCHANGED <<pc[v], from[v], to[v], rows[v]>>
  BY <1>4, Zenon DEF FetchBlocks, Goto, TypeOK
<1>5. CASE InsertBlocks(w)
  BY <1>5, Zenon DEF InsertBlocks, Goto, TypeOK
<1>6. CASE UpdateCrawledBlock(w) \/ InsertTxDecoded(w) \/ InsertRelatedTx(w)
  BY <1>6, <1>1, Zenon DEF UpdateCrawledBlock, InsertTxDecoded, InsertRelatedTx, Commit
<1>7. CASE ReadLastRow(w)
  BY <1>7, <1>1, Zenon DEF ReadLastRow, Goto, TypeOK
<1>8. CASE GetListRawTx(w) \/ ListTxRaw(w)
  BY <1>8, Zenon DEF GetListRawTx, ListTxRaw, Goto, TypeOK
<1>9. QED
  BY <1>2, <1>3, <1>4, <1>5, <1>6, <1>7, <1>8, WorkerSteps, Zenon

(* An idle worker promises nothing.                                        *)
LEMMA FinishCovered ==
    ASSUME TypeOK, NEW w \in Workers, Finish(w)
    PROVE  WorkerCovered(w)'
<1>1. pc'[w] = "idle"
  BY Zenon DEF Finish, Goto, TypeOK
<1>2. QED
  BY <1>1, Zenon DEF WorkerCovered

(* What FetchBlocks takes in hand is all that is due up to its end.        *)
LEMMA FetchCovers ==
    ASSUME IInv, NEW w \in Workers, NEW latest \in 0 .. chain,
           NEW headerless \in SUBSET MayBeHeaderless, FetchBlocks(w, latest, headerless)
    PROVE  WorkerCovered(w)'
<1> DEFINE end == SmallerOf(from[w] + BlocksPerCall[CB], latest)
<1>1. /\ pc'[w] = "insert" /\ from'[w] = from[w] /\ to'[w] = end /\ stored' = stored
      /\ JobOf[w] = CB /\ pc[w] = "fetch"
  BY Zenon DEF IInv, TypeOK, FetchBlocks, Goto, At
<1>2. Covered(CB, from[w])
  BY <1>1, Zenon DEF IInv, JobsCovered, WorkerCovered
<1>3. ASSUME NEW h \in Heights, h <= end, Due(CB, h)
      PROVE  stored[CB][h] + rows'[w][h] > 0
  <2>1. rows'[w][h] = IF /\ from[w] < h /\ h <= end
                         /\ h \notin headerless /\ stored[CB][h] = 0 THEN 1 ELSE 0
    BY Zenon DEF FetchBlocks, IInv, TypeOK
  <2>2. h \notin headerless
    BY <1>3, Zenon DEF Due
  <2>3. stored[CB][h] \in Nat /\ from[w] \in Nat /\ h \in Int
    BY DEF IInv, TypeOK, Jobs, Heights
  <2>4. CASE h <= from[w]
    <3>1. stored[CB][h] > 0
      BY <1>2, <1>3, <2>4, Zenon DEF Covered, CoveredBy
    <3>2. QED
      BY <2>1, <2>3, <3>1
  <2>5. CASE from[w] < h
    BY <1>3, <2>1, <2>2, <2>3, <2>5
  <2>6. QED
    BY <2>3, <2>4, <2>5
<1>4. Promised(w)'
  BY <1>1, <1>3, Zenon DEF Promised, Due
<1>5. QED
  BY <1>1, <1>2, <1>4, Zenon DEF WorkerCovered, Covered

(* What is covered up to a height is covered up to a lower one.            *)
LEMMA CoveredBelow ==
    ASSUME NEW S, NEW j, NEW m \in Int, NEW n \in Int, m <= n, CoveredBy(S, j, n)
    PROVE  CoveredBy(S, j, m)
  BY StartBlockAssumption, IngestAssumption DEF CoveredBy, Heights

(* The end of a non-empty range is vouched for by the upstream row.        *)
LEMMA EndVouched ==
    ASSUME TypeOK, NEW j \in {CT, HT}, NEW s \in Nat,
           NEW e, e = EndHeight(s, LastHeight(cp, DependsOn(j)), BlocksPerCall[j]), s < e
    PROVE  e \in Nat /\ cp[Upstream(j)] \in Nat /\ e <= cp[Upstream(j)]
<1>1. DependsOn(j) = {Upstream(j)} /\ Upstream(j) \in Jobs
  BY Zenon DEF DependsOn, Upstream, Jobs
<1>2. cp[Upstream(j)] \in {NoRow} \cup Nat /\ cp[Upstream(j)] \in Int
  BY <1>1 DEF TypeOK, NoRow
<1>3. LastHeight(cp, DependsOn(j)) = cp[Upstream(j)]
  BY <1>1, <1>2, LastOfOne, Zenon
<1>4. BlocksPerCall[j] \in Nat
  BY IngestAssumption, Zenon DEF Jobs
<1>5. QED
  BY <1>2, <1>3, <1>4 DEF EndHeight, SmallerOf, NoRow, NoStep

(* The end a job reads is covered by the table it copies from.             *)
LEMMA ReadLastCovers ==
    ASSUME IInv, NEW w \in Workers, ReadLastRow(w)
    PROVE  WorkerCovered(w)'
<1> DEFINE j == JobOf[w]
           end == EndHeight(from[w], LastHeight(cp, DependsOn(j)), BlocksPerCall[j])
<1>1. j \in {CT, HT} /\ pc[w] = "last" /\ stored' = stored /\ from[w] \in Nat
  BY Zenon DEF ReadLastRow, IInv, TypeOK
<1>2. CASE Finish(w)
  BY <1>2, FinishCovered, Zenon DEF IInv
<1>3. CASE from[w] < end /\ to' = [to EXCEPT ![w] = end] /\ Goto(w, "list")
           /\ UNCHANGED <<from, rows>>
  <2>1. pc'[w] = "list" /\ to'[w] = end /\ from'[w] = from[w]
    BY <1>3, Zenon DEF Goto, IInv, TypeOK
  <2>2. end \in Nat /\ cp[Upstream(j)] \in Nat /\ end <= cp[Upstream(j)]
    BY <1>1, <1>3, EndVouched, Zenon DEF IInv
  <2>3. Upstream(j) \in Jobs /\ cp[Upstream(j)] # NoRow
    BY <2>2 DEF Upstream, Jobs, NoRow
  <2>4. CoveredBy(stored, Upstream(j), end)
    BY <2>2, <2>3, CoveredBelow DEF IInv, NoHole, Covered
  <2>5. Covered(j, from[w])
    BY <1>1, Zenon DEF IInv, JobsCovered, WorkerCovered
  <2>6. QED
    BY <1>1, <2>1, <2>4, <2>5, Zenon DEF WorkerCovered, Covered
<1>4. QED
  BY <1>2, <1>3, Zenon DEF ReadLastRow

(* What a job lists is all that is due up to its end.                      *)
LEMMA ListCovers ==
    ASSUME IInv, NEW w \in Workers, GetListRawTx(w) \/ ListTxRaw(w)
    PROVE  WorkerCovered(w)'
<1> DEFINE j == JobOf[w]
<1>1. /\ j \in {CT, HT} /\ pc[w] = "list" /\ pc'[w] = "commit" /\ stored' = stored
      /\ from'[w] = from[w] /\ to'[w] = to[w]
  BY Zenon DEF GetListRawTx, ListTxRaw, At, Goto, IInv, TypeOK
<1>2. Covered(j, from[w]) /\ Covered(Upstream(j), to[w])
  BY <1>1, Zenon DEF IInv, JobsCovered, WorkerCovered
<1>3. ASSUME NEW h \in Heights, h <= to[w], Due(j, h)
      PROVE  stored[j][h] + rows'[w][h] > 0
  <2>1. /\ stored[j][h] \in Nat /\ stored[Upstream(j)][h] \in Nat /\ h \in Int
        /\ from[w] \in Nat /\ to[w] \in Nat
    <3>1. j \in Jobs /\ Upstream(j) \in Jobs
      BY <1>1, Zenon DEF Jobs, Upstream
    <3>2. h \in Int
      BY DEF Heights
    <3>3. QED
      BY <3>1, <3>2, Zenon DEF IInv, TypeOK
  <2>2. Due(Upstream(j), h) /\ h \in HasTx
    BY <1>1, <1>3, Zenon DEF Due, Upstream, CB, CT, HT
  <2>3. stored[Upstream(j)][h] > 0
    BY <1>2, <1>3, <2>2, Zenon DEF Covered, CoveredBy
  <2>4. CASE h <= from[w]
    <3>1. stored[j][h] > 0
      BY <1>2, <1>3, <2>4, Zenon DEF Covered, CoveredBy
    <3>2. rows'[w][h] \in Nat
      BY <2>1, <2>3, <2>4 DEF GetListRawTx, ListTxRaw, IInv, TypeOK, Jobs
    <3>3. QED
      BY <2>1, <3>1, <3>2
  <2>5. CASE from[w] < h
    <3>1. InRange(w, h)
      BY <1>3, <2>5, Zenon DEF InRange
    <3>2. CASE GetListRawTx(w)
      <4>1. j = CT /\ Upstream(j) = CB
        BY <3>2, Zenon DEF GetListRawTx, At, Upstream
      <4>2. rows'[w][h] = IF stored[CT][h] = 0 THEN 1 ELSE 0
        BY <3>1, <3>2, <2>2, <2>3, <4>1, Zenon DEF GetListRawTx, IInv, TypeOK
      <4>3. QED
        BY <2>1, <4>1, <4>2
    <3>3. CASE ListTxRaw(w)
      <4>1. j = HT /\ Upstream(j) = CT
        BY <3>3, Zenon DEF ListTxRaw, At, Upstream, CT, HT
      <4>2. rows'[w][h] = stored[CT][h]
        BY <3>1, <3>3, Zenon DEF ListTxRaw, IInv, TypeOK
      <4>3. QED
        BY <2>1, <2>3, <4>1, <4>2
    <3>4. QED
      BY <3>2, <3>3, Zenon
  <2>6. QED
    BY <2>1, <2>4, <2>5
<1>4. Promised(w)'
  BY <1>1, <1>3, Zenon DEF Promised, Due
<1>5. QED
  BY <1>1, <1>2, <1>4, Zenon DEF WorkerCovered, Covered

(* The writes: what was promised becomes covered.                          *)
LEMMA PromiseKept ==
    ASSUME IInv, TypeOK', NEW w \in Workers, InsertRows(w), Promised(w)
    PROVE  CoveredBy(stored', JobOf[w], to[w])
  BY InsertGrows, Zenon DEF IInv, Promised, CoveredBy

(* The blocks of the range are covered once they are inserted.             *)
LEMMA InsertBlocksCovers ==
    ASSUME IInv, TypeOK', NEW w \in Workers, InsertBlocks(w)
    PROVE  WorkerCovered(w)'
<1>1. /\ JobOf[w] = CB /\ CB \in Jobs /\ pc[w] = "insert" /\ pc'[w] = "update"
      /\ from'[w] = from[w] /\ to'[w] = to[w] /\ from[w] \in Int /\ InsertRows(w)
  BY DEF InsertBlocks, At, Goto, IInv, TypeOK, Jobs
<1>2. Promised(w) /\ CoveredBy(stored, CB, from[w])
  BY <1>1, Zenon DEF IInv, JobsCovered, WorkerCovered, Covered
<1>3. CoveredBy(stored', CB, to[w])
  BY <1>1, <1>2, PromiseKept, Zenon
<1>4. CoveredBy(stored', CB, from[w])
  <2>1. /\ stored \in [Jobs -> [Heights -> Nat]]
        /\ stored' \in [Jobs -> [Heights -> Nat]]
    BY Zenon DEF IInv, TypeOK
  <2>2. Grows(stored, stored')
    BY <1>1, InsertGrows, Zenon DEF IInv
  <2>3. QED
    BY <1>1, <1>2, <2>1, <2>2, CoverageKept, Zenon
<1>5. QED
  BY <1>1, <1>3, <1>4, Zenon DEF WorkerCovered, Covered

(* The inductive invariant behind it, for any number of workers.           *)
LEMMA AlwaysCovered == Spec => []IInv
<1>1. Init => IInv
  <2> SUFFICES ASSUME Init PROVE IInv
    BY Zenon
  <2>1. TypeOK
    BY NothingType, StartBlockAssumption, Zenon DEF Init, TypeOK, Labels
  <2>2. NoHole
    BY Zenon DEF Init, NoHole
  <2>3. JobsCovered
    BY Zenon DEF Init, JobsCovered, WorkerCovered
  <2>4. QED
    BY <2>1, <2>2, <2>3, Zenon DEF IInv
<1>2. IInv /\ TypeOK' /\ [Next]_vars => IInv'
  <2> SUFFICES ASSUME IInv, TypeOK', [Next]_vars PROVE NoHole' /\ JobsCovered'
    BY Zenon DEF IInv
  <2>0. TypeOK /\ NoHole /\ JobsCovered /\ Grows(stored, stored')
    BY StepGrows, Zenon DEF IInv
  <2>1. CASE UNCHANGED <<cp, local>>
    <3>1. NoHole'
      BY <2>0, <2>1, NoHoleKept, Zenon DEF Jobs
    <3>2. JobsCovered'
      BY <2>0, <2>1, BystanderCovered, Zenon DEF JobsCovered, local
    <3>3. QED
      BY <3>1, <3>2, Zenon
  <2>2. ASSUME NEW w \in Workers, Work(w) \/ Abort(w), WorkerCovered(w)' PROVE JobsCovered'
    <3> SUFFICES ASSUME NEW v \in Workers, v # w PROVE WorkerCovered(v)'
      BY <2>2, Zenon DEF JobsCovered
    <3>1. UNCHANGED <<pc[v], from[v], to[v], rows[v]>>
      BY <2>0, <2>2, WorkerStepFrame, Zenon
    <3>2. QED
      BY <2>0, <3>1, BystanderCovered, Zenon DEF JobsCovered
  <2>3. UNCHANGED cp => NoHole'
    BY <2>0, NoHoleKept, Zenon DEF Jobs
  <2>4. ASSUME NEW w \in Workers, Abort(w) PROVE NoHole' /\ WorkerCovered(w)'
    BY <2>0, <2>3, <2>4, FinishCovered, Zenon DEF Abort
  <2>5. ASSUME NEW w \in Workers, Work(w) PROVE NoHole' /\ WorkerCovered(w)'
    <3>0. JobOf[w] \in Jobs /\ CB \in Jobs
      BY IngestAssumption, Zenon DEF Jobs
    <3>1. CASE InitEnv(w)
      <4>1. CoveredBy(stored', CB, StartHeight(cp[CB]))
        BY <2>0, <3>0, <3>1, StartCovered, Zenon DEF InitEnv, Covered
      <4>2. NoHole'
        BY <2>0, <3>0, <3>1, <4>1, NoHoleKept, Zenon DEF InitEnv, TypeOK
      <4>3. WorkerCovered(w)'
        BY <2>0, <3>1, <4>1, Zenon DEF InitEnv, At, Goto, TypeOK, WorkerCovered, Covered
      <4>4. QED
        BY <4>2, <4>3, Zenon
    <3>2. ASSUME NEW latest \in 0 .. chain, NEW headerless \in SUBSET MayBeHeaderless,
                 FetchBlocks(w, latest, headerless)
          PROVE  NoHole' /\ WorkerCovered(w)'
      BY <2>3, <3>2, FetchCovers, Zenon DEF FetchBlocks
    <3>3. CASE InsertBlocks(w)
      BY <2>3, <3>3, InsertBlocksCovers, Zenon DEF InsertBlocks
    <3>4. CASE UpdateCrawledBlock(w)
      <4>1. CoveredBy(stored', CB, to[w])
        BY <2>0, <3>4, Zenon DEF UpdateCrawledBlock, At, JobsCovered, WorkerCovered, Covered
      <4>2. NoHole'
        BY <2>0, <3>0, <3>4, <4>1, NoHoleKept, Zenon DEF UpdateCrawledBlock, TypeOK
      <4>3. QED
        BY <2>0, <3>4, <4>2, FinishCovered, Zenon DEF UpdateCrawledBlock
    <3>5. CASE ReadJobRow(w)
      <4>1. CoveredBy(stored', JobOf[w], StartHeight(cp[JobOf[w]]))
        BY <2>0, <3>0, <3>5, StartCovered, Zenon DEF ReadJobRow, Covered
      <4>2. WorkerCovered(w)'
        BY <2>0, <3>5, <4>1, Zenon DEF ReadJobRow, Goto, TypeOK, WorkerCovered, Covered
      <4>3. QED
        BY <2>3, <3>5, <4>2, Zenon DEF ReadJobRow
    <3>6. CASE ReadLastRow(w)
      BY <2>3, <3>6, ReadLastCovers, Zenon DEF ReadLastRow
    <3>7. CASE GetListRawTx(w) \/ ListTxRaw(w)
      BY <2>3, <3>7, ListCovers, Zenon DEF GetListRawTx, ListTxRaw
    <3>8. CASE InsertTxDecoded(w) \/ InsertRelatedTx(w)
      <4>1. pc[w] = "commit" /\ Commit(w)
        BY <3>8, Zenon DEF InsertTxDecoded, InsertRelatedTx, At
      <4>2. CoveredBy(stored', JobOf[w], to[w])
        BY <2>0, <4>1, PromiseKept, Zenon DEF Commit, JobsCovered, WorkerCovered, IInv
      <4>3. NoHole'
        BY <2>0, <3>0, <4>1, <4>2, NoHoleKept, Zenon DEF Commit, TypeOK
      <4>4. QED
        BY <2>0, <4>1, <4>3, FinishCovered, Zenon DEF Commit
    <3>9. QED
      BY <2>5, <3>1, <3>2, <3>3, <3>4, <3>5, <3>6, <3>7, <3>8, WorkerSteps, Zenon
  <2>6. ASSUME NEW w \in Workers, Work(w) \/ Abort(w) PROVE NoHole' /\ JobsCovered'
    BY <2>2, <2>4, <2>5, <2>6, Zenon
  <2>7. CASE NewBlock \/ UNCHANGED vars
    BY <2>1, <2>7, Zenon DEF NewBlock, vars, local
  <2>8. QED
    BY <2>6, <2>7, Zenon DEF Next
<1>3. QED
  BY <1>1, <1>2, TypeCorrect, PTL DEF Spec

(* Whatever fails, dies or runs concurrently, and however many workers a   *)
(* queue has, no checkpoint runs ahead of its table.                       *)
THEOREM NeverAHole == Spec => []NoHole
<1>1. IInv => NoHole
  BY Zenon DEF IInv
<1>2. QED
  BY <1>1, AlwaysCovered, PTL
-----------------------------------------------------------------------------
(* With one worker per queue.                                              *)

SInv == TypeOK /\ ExactlyOnce /\ InOrder /\ OnlyBelowCheckpoint /\ JobsExact

CpGrows == \A j \in Jobs : cp[j] <= cp'[j]

(* A checkpoint is a height or missing.                                    *)
LEMMA CpType == ASSUME TypeOK, NEW j \in Jobs
                PROVE  cp[j] \in Int /\ cp[j] >= -1 /\ StartHeight(cp[j]) \in Nat
                       /\ cp[j] <= StartHeight(cp[j])
  BY StartBlockAssumption DEF TypeOK, NoRow, StartHeight

(* The job that another one reads from is a job.                           *)
LEMMA UpstreamType == ASSUME NEW j \in Jobs PROVE Upstream(j) \in Jobs
  BY Zenon DEF Upstream, Jobs

(* A step moves at most the checkpoint of the worker that takes it.        *)
LEMMA CpFrame ==
    ASSUME TypeOK, NEW w \in Workers, Work(w) \/ Abort(w), NEW j \in Jobs, j # JobOf[w]
    PROVE  cp'[j] = cp[j]
<1>1. CASE UNCHANGED cp
  BY <1>1, Zenon
<1>2. CASE InitEnv(w) \/ UpdateCrawledBlock(w)
  BY <1>2, Zenon DEF InitEnv, UpdateCrawledBlock, At, TypeOK
<1>3. CASE InsertTxDecoded(w) \/ InsertRelatedTx(w)
  BY <1>3, Zenon DEF InsertTxDecoded, InsertRelatedTx, Commit, TypeOK
<1>4. ASSUME NEW latest, NEW headerless, FetchBlocks(w, latest, headerless)
      PROVE  UNCHANGED cp
  BY <1>4, Zenon DEF FetchBlocks
<1>5. QED
  BY <1>1, <1>2, <1>3, <1>4, WorkerSteps, Zenon
     DEF Abort, InsertBlocks, ReadJobRow, ReadLastRow, GetListRawTx, ListTxRaw

(* Checkpoints grow: the row a job has read is still the row.              *)
LEMMA WorkerCpGrows ==
    ASSUME SInv, NEW w \in Workers, Work(w) \/ Abort(w)
    PROVE  CpGrows
<1>0. TypeOK /\ WorkerExact(w) /\ JobOf[w] \in Jobs /\ CB \in Jobs
  BY IngestAssumption, Zenon DEF SInv, JobsExact, Jobs
<1> SUFFICES cp[JobOf[w]] <= cp'[JobOf[w]]
  BY <1>0, CpFrame, CpType DEF CpGrows
<1>1. CASE UNCHANGED cp
  BY <1>0, <1>1, CpType
<1>2. CASE InitEnv(w)
  BY <1>0, <1>2, CpType, Zenon DEF InitEnv, At, TypeOK
<1>3. CASE UpdateCrawledBlock(w)
  <2>1. from[w] = StartHeight(cp[CB]) /\ JobOf[w] = CB
    BY <1>0, <1>3, Zenon DEF UpdateCrawledBlock, At, WorkerExact
  <2>2. cp'[CB] = IF from[w] < to[w] THEN to[w] ELSE cp[CB]
    BY <1>0, <1>3, Zenon DEF UpdateCrawledBlock, TypeOK
  <2>3. to[w] \in Nat
    BY <1>0, Zenon DEF TypeOK
  <2>4. QED
    BY <1>0, <2>1, <2>2, <2>3, CpType
<1>4. CASE InsertTxDecoded(w) \/ InsertRelatedTx(w)
  <2>1. from[w] = StartHeight(cp[JobOf[w]]) /\ from[w] < to[w] /\ to[w] \in Nat
    BY <1>0, <1>4, Zenon DEF InsertTxDecoded, InsertRelatedTx, At, WorkerExact, TypeOK
  <2>2. cp'[JobOf[w]] = to[w]
    BY <1>0, <1>4, Zenon DEF InsertTxDecoded, InsertRelatedTx, Commit, TypeOK
  <2>3. QED
    BY <1>0, <2>1, <2>2, CpType
<1>5. ASSUME NEW latest, NEW headerless, FetchBlocks(w, latest, headerless)
      PROVE  UNCHANGED cp
  BY <1>5, Zenon DEF FetchBlocks
<1>6. QED
  BY <1>1, <1>2, <1>3, <1>4, <1>5, WorkerSteps, Zenon
     DEF Abort, InsertBlocks, ReadJobRow, ReadLastRow, GetListRawTx, ListTxRaw

(* A worker that a step leaves alone, and whose own checkpoint it leaves   *)
(* alone, keeps what it knows.                                             *)
LEMMA BystanderExact ==
    ASSUME TypeOK, TypeOK', Grows(stored, stored'), CpGrows,
           NEW v \in Workers, WorkerExact(v), cp'[JobOf[v]] = cp[JobOf[v]],
           UNCHANGED <<pc[v], from[v], to[v], rows[v]>>
    PROVE  WorkerExact(v)'
<1> DEFINE u == Upstream(JobOf[v])
<1>1. JobOf[v] \in Jobs /\ u \in Jobs /\ CB \in Jobs
  BY IngestAssumption, UpstreamType, Zenon DEF Jobs
<1>2. cp[u] # NoRow => cp'[u] # NoRow
  BY <1>1, CpType DEF CpGrows, TypeOK, NoRow
<1>3. to[v] <= cp[u] => to[v] <= cp'[u]
  <2>1. cp[u] \in Int /\ cp'[u] \in Int /\ to[v] \in Int /\ cp[u] <= cp'[u]
    BY <1>1 DEF CpGrows, TypeOK, NoRow
  <2>2. QED
    BY <2>1
<1>4. ASSUME NEW h \in Heights, InHand(v, h) PROVE InHand(v, h)'
  <2>1. /\ stored[u][h] > 0 /\ stored[u][h] \in Nat /\ stored'[u][h] \in Nat
        /\ stored[u][h] <= stored'[u][h]
    BY <1>1, <1>4, Zenon DEF InHand, Grows, TypeOK
  <2>2. stored'[u][h] > 0
    BY <2>1
  <2>3. QED
    BY <1>4, <2>2, Zenon DEF InHand, InRange
<1>5. QED
  BY <1>1, <1>2, <1>3, <1>4, Zenon DEF WorkerExact

Tables == ExactlyOnce /\ InOrder /\ OnlyBelowCheckpoint

(* Steps that insert nothing and move at most the row of CRAWL_BLOCK.      *)
LEMMA TablesKept ==
    ASSUME SInv, TypeOK', CpGrows, stored' = stored,
           cp'[CT] = cp[CT], cp'[HT] = cp[HT]
    PROVE  Tables'
<1>1. CB \in Jobs /\ cp[CB] \in Int /\ cp'[CB] \in Int /\ cp[CB] <= cp'[CB] /\ cp[CB] >= -1
  BY CpType DEF SInv, TypeOK, NoRow, Jobs, CpGrows
<1>2. cp[CB] # NoRow => cp'[CB] # NoRow
  BY <1>1 DEF NoRow
<1>3. ExactlyOnce' /\ OnlyBelowCheckpoint' /\ Behind(HT, CT)'
  BY Zenon DEF SInv, ExactlyOnce, OnlyBelowCheckpoint, InOrder, Behind
<1>4. Behind(CT, CB)'
  <2>1. cp[CT] # NoRow => cp[CT] <= cp'[CB]
    <3>1. cp[CT] \in Int
      BY CpType, Zenon DEF SInv, Jobs
    <3>2. QED
      BY <1>1, <3>1 DEF SInv, InOrder, Behind
  <2>2. ASSUME NEW h \in Heights, h <= cp[CB] PROVE h <= cp'[CB]
    BY <1>1, <2>2 DEF Heights
  <2>3. QED
    BY <1>2, <2>1, <2>2, Zenon DEF SInv, InOrder, Behind
<1>5. QED
  BY <1>3, <1>4, Zenon DEF Tables, InOrder

(* Inserting blocks keeps the tables exact: stored ones are skipped.       *)
LEMMA InsertBlocksTables ==
    ASSUME SInv, TypeOK', NEW w \in Workers, InsertBlocks(w)
    PROVE  Tables'
<1>1. /\ JobOf[w] = CB /\ CB \in Jobs /\ CT \in Jobs /\ HT \in Jobs
      /\ CB # CT /\ CB # HT /\ InsertRows(w) /\ cp' = cp
  BY Zenon DEF InsertBlocks, At, Jobs, CB, CT, HT
<1>2. /\ Grows(stored, stored')
      /\ \A h \in Heights : stored'[CB][h] = stored[CB][h] + rows[w][h]
  BY <1>1, InsertGrows, Zenon DEF SInv
<1>3. stored'[CT] = stored[CT] /\ stored'[HT] = stored[HT]
  BY <1>1, Zenon DEF InsertRows, SInv, TypeOK
<1>4. \A h \in Heights : stored[CB][h] \in Nat /\ rows[w][h] \in Nat
  BY <1>1, Zenon DEF SInv, TypeOK
<1>5. \A h \in Heights : stored'[CB][h] <= 1
  BY <1>2, <1>4 DEF InsertBlocks
<1>6. ExactlyOnce'
  BY <1>3, <1>5, Zenon DEF SInv, ExactlyOnce, Jobs
<1>7. OnlyBelowCheckpoint' /\ Behind(HT, CT)'
  BY <1>1, <1>3, Zenon DEF SInv, OnlyBelowCheckpoint, InOrder, Behind
<1>8. Behind(CT, CB)'
  <2>1. \A h \in Heights : stored[CB][h] > 0 => stored'[CB][h] > 0
    BY <1>2, <1>4
  <2>2. QED
    BY <1>1, <1>3, <2>1, Zenon DEF SInv, InOrder, Behind
<1>9. QED
  BY <1>6, <1>7, <1>8, Zenon DEF Tables, InOrder

(* The commit of a range: nothing of it was stored, all of it is upstream. *)
LEMMA CommitTables ==
    ASSUME SInv, TypeOK', CpGrows, NEW w \in Workers,
           InsertTxDecoded(w) \/ InsertRelatedTx(w)
    PROVE  Tables'
<1> DEFINE j == JobOf[w]
           u == Upstream(j)
<1>1. /\ j \in {CT, HT} /\ j \in Jobs /\ u \in Jobs /\ u # j /\ CT # HT /\ CB \notin {CT, HT}
      /\ pc[w] = "commit" /\ Commit(w) /\ InsertRows(w) /\ WorkerExact(w) /\ TypeOK
  BY Zenon DEF InsertTxDecoded, InsertRelatedTx, At, Commit, Upstream, Jobs, CB, CT, HT, SInv, JobsExact
<1>2. /\ from[w] = StartHeight(cp[j]) /\ from[w] < to[w] /\ cp[u] # NoRow /\ to[w] <= cp[u]
      /\ \A h \in Heights : rows[w][h] > 0 => InHand(w, h)
  BY <1>1, Zenon DEF WorkerExact
<1>3. /\ cp'[j] = to[w] /\ to[w] \in Nat /\ from[w] \in Nat /\ cp'[j] # NoRow
      /\ \A k \in Jobs : k # j => cp'[k] = cp[k]
  BY <1>1 DEF Commit, TypeOK, NoRow
<1>4. /\ \A h \in Heights : stored'[j][h] = stored[j][h] + rows[w][h]
      /\ \A k \in Jobs : k # j => stored'[k] = stored[k]
  BY <1>1, InsertGrows, Zenon DEF InsertRows, TypeOK
<1>5. \A h \in Heights : h \in Int /\ stored[j][h] \in Nat /\ rows[w][h] \in Nat
  <2>1. \A h \in Heights : h \in Int
    BY DEF Heights
  <2>2. QED
    BY <1>1, <2>1, Zenon DEF TypeOK
<1>6. cp[j] \in Int /\ cp[u] \in Int /\ cp[j] <= from[w] /\ cp[j] <= to[w]
  BY <1>1, <1>2, <1>3, CpType
<1>7. ASSUME NEW h \in Heights
      PROVE  /\ stored'[j][h] <= 1
             /\ stored'[j][h] > 0 => h <= to[w] /\ stored[u][h] > 0 /\ h <= cp[u]
  <2>1. CASE rows[w][h] = 0
    <3>1. stored'[j][h] = stored[j][h]
      BY <1>4, <1>5, <2>1
    <3>2. stored[j][h] <= 1
      BY <1>1, Zenon DEF SInv, ExactlyOnce
    <3>3. stored[j][h] > 0 => h <= cp[j]
      BY <1>1, Zenon DEF SInv, OnlyBelowCheckpoint
    <3>4. stored[j][h] > 0 => stored[u][h] > 0 /\ h <= cp[u]
      BY <1>1, Zenon DEF SInv, InOrder, Behind, Upstream
    <3>5. QED
      BY <1>5, <1>6, <1>3, <3>1, <3>2, <3>3, <3>4
  <2>2. CASE rows[w][h] > 0
    <3>1. from[w] < h /\ h <= to[w] /\ rows[w][h] <= 1 /\ stored[u][h] > 0
      BY <1>2, <2>2, Zenon DEF InHand, InRange
    <3>2. stored[j][h] = 0
      <4>1. ~ (h <= cp[j])
        BY <1>3, <1>5, <1>6, <3>1
      <4>2. ~ (stored[j][h] > 0)
        BY <1>1, <4>1, Zenon DEF SInv, OnlyBelowCheckpoint
      <4>3. QED
        BY <1>5, <4>2
    <3>3. h <= cp[u]
      BY <1>2, <1>3, <1>5, <1>6, <3>1
    <3>4. QED
      BY <1>4, <1>5, <3>1, <3>2, <3>3
  <2>3. QED
    BY <1>5, <2>1, <2>2
<1>8. ExactlyOnce'
  BY <1>1, <1>4, <1>7, Zenon DEF SInv, ExactlyOnce
<1>9. OnlyBelowCheckpoint'
  BY <1>1, <1>3, <1>4, <1>7, Zenon DEF SInv, OnlyBelowCheckpoint, Jobs
<1>10. InOrder'
  <2>1. Behind(j, u)'
    BY <1>1, <1>2, <1>3, <1>4, <1>7, Zenon DEF Behind
  <2>2. CASE j = HT
    <3>1. Behind(CT, CB)'
      BY <1>1, <1>3, <1>4, <2>2, Zenon DEF SInv, InOrder, Behind, Jobs
    <3>2. QED
      BY <2>1, <2>2, <3>1, Zenon DEF InOrder, Upstream, CT, HT
  <2>3. CASE j = CT
    <3>1. cp'[HT] = cp[HT] /\ stored'[HT] = stored[HT] /\ cp[HT] \in Int
      BY <1>1, <1>3, <1>4, <2>3, CpType, Zenon DEF Jobs
    <3>2. cp[HT] # NoRow => cp[HT] <= to[w]
      BY <1>3, <1>6, <2>3, <3>1 DEF SInv, InOrder, Behind
    <3>3. ASSUME NEW h \in Heights, stored[HT][h] > 0
          PROVE  h <= to[w] /\ stored'[CT][h] > 0
      <4>1. h <= cp[CT] /\ stored[CT][h] > 0
        BY <3>3, Zenon DEF SInv, InOrder, Behind
      <4>2. QED
        BY <1>3, <1>4, <1>5, <1>6, <2>3, <4>1
    <3>4. Behind(HT, CT)'
      BY <1>3, <2>3, <3>1, <3>2, <3>3, Zenon DEF Behind
    <3>5. QED
      BY <2>1, <2>3, <3>4, Zenon DEF InOrder, Upstream
  <2>4. QED
    BY <1>1, <2>2, <2>3, Zenon
<1>11. QED
  BY <1>8, <1>9, <1>10, Zenon DEF Tables

(* The worker that takes the step.                                         *)
LEMMA ActorExact ==
    ASSUME SInv, TypeOK', NEW w \in Workers, Work(w) \/ Abort(w)
    PROVE  WorkerExact(w)'
<1> DEFINE j == JobOf[w]
           u == Upstream(j)
<1>0. /\ TypeOK /\ WorkerExact(w) /\ j \in Jobs /\ u \in Jobs /\ CB \in Jobs
      /\ from[w] \in Nat /\ to[w] \in Nat
  BY IngestAssumption, UpstreamType, Zenon DEF SInv, JobsExact, Jobs, TypeOK
<1>1. CASE Finish(w)
  <2>1. pc'[w] = "idle"
    BY <1>0, <1>1, Zenon DEF Finish, Goto, TypeOK
  <2>2. QED
    BY <2>1, Zenon DEF WorkerExact
<1>2. CASE InitEnv(w)
  <2>1. /\ j = CB /\ pc'[w] = "fetch" /\ from'[w] = StartHeight(cp[CB])
        /\ cp'[CB] = StartHeight(cp[CB])
    BY <1>0, <1>2, Zenon DEF InitEnv, At, Goto, TypeOK
  <2>2. cp'[CB] # NoRow /\ StartHeight(cp'[CB]) = cp'[CB]
    BY <1>0, <2>1, CpType DEF StartHeight, NoRow
  <2>3. QED
    BY <2>1, <2>2, Zenon DEF WorkerExact
<1>3. ASSUME NEW latest, NEW headerless, FetchBlocks(w, latest, headerless)
      PROVE  WorkerExact(w)'
  <2>1. /\ j = CB /\ pc[w] = "fetch" /\ pc'[w] = "insert" /\ from'[w] = from[w] /\ cp' = cp
    BY <1>0, <1>3, Zenon DEF FetchBlocks, At, Goto, TypeOK
  <2>2. QED
    BY <1>0, <2>1, Zenon DEF WorkerExact
<1>4. CASE InsertBlocks(w)
  <2>1. /\ j = CB /\ pc[w] = "insert" /\ pc'[w] = "update" /\ from'[w] = from[w] /\ cp' = cp
    BY <1>0, <1>4, Zenon DEF InsertBlocks, At, Goto, TypeOK
  <2>2. QED
    BY <1>0, <2>1, Zenon DEF WorkerExact
<1>5. CASE ReadJobRow(w)
  <2>1. /\ j \in {CT, HT} /\ pc'[w] = "last" /\ from'[w] = StartHeight(cp[j]) /\ cp' = cp
    BY <1>0, <1>5, Zenon DEF ReadJobRow, Goto, TypeOK
  <2>2. QED
    BY <2>1, Zenon DEF WorkerExact
<1>6. CASE ReadLastRow(w)
  <2> DEFINE end == EndHeight(from[w], LastHeight(cp, DependsOn(j)), BlocksPerCall[j])
  <2>1. CASE from[w] < end /\ to' = [to EXCEPT ![w] = end] /\ Goto(w, "list")
             /\ UNCHANGED <<from, rows>>
    <3>1. /\ j \in {CT, HT} /\ pc[w] = "last" /\ pc'[w] = "list" /\ from'[w] = from[w]
          /\ to'[w] = end /\ cp' = cp
      BY <1>0, <1>6, <2>1, Zenon DEF ReadLastRow, Goto, TypeOK
    <3>2. cp[u] \in Nat /\ end <= cp[u]
      BY <1>0, <2>1, <3>1, EndVouched, Zenon
    <3>3. cp[u] # NoRow
      BY <3>2 DEF NoRow
    <3>4. from[w] = StartHeight(cp[j])
      BY <1>0, <3>1, Zenon DEF WorkerExact
    <3>5. QED
      BY <2>1, <3>1, <3>2, <3>3, <3>4, Zenon DEF WorkerExact
  <2>2. QED
    BY <1>1, <1>6, <2>1, Zenon DEF ReadLastRow
<1>7. CASE GetListRawTx(w) \/ ListTxRaw(w)
  <2>1. /\ j \in {CT, HT} /\ pc[w] = "list" /\ pc'[w] = "commit" /\ from'[w] = from[w]
        /\ to'[w] = to[w] /\ cp' = cp /\ stored' = stored
    BY <1>0, <1>7, Zenon DEF GetListRawTx, ListTxRaw, At, Goto, TypeOK
  <2>2. ASSUME NEW h \in Heights, rows'[w][h] > 0 PROVE InHand(w, h)'
    <3>1. CASE GetListRawTx(w)
      <4>1. rows'[w][h] = IF InRange(w, h) /\ stored[CB][h] > 0 /\ h \in HasTx /\ stored[CT][h] = 0
                          THEN 1 ELSE 0
        BY <1>0, <3>1, Zenon DEF GetListRawTx, TypeOK
      <4>2. u = CB
        BY <3>1, Zenon DEF GetListRawTx, At, Upstream
      <4>3. InRange(w, h) /\ stored[CB][h] > 0 /\ rows'[w][h] = 1
        BY <2>2, <4>1
      <4>4. from'[w] < h /\ h <= to'[w]
        BY <2>1, <4>3, Zenon DEF InRange
      <4>5. QED
        BY <2>1, <4>2, <4>3, <4>4 DEF InHand, InRange
    <3>2. CASE ListTxRaw(w)
      <4>1. rows'[w][h] = IF InRange(w, h) THEN stored[CT][h] ELSE 0
        BY <1>0, <3>2, Zenon DEF ListTxRaw, TypeOK
      <4>2. u = CT /\ CT \in Jobs
        BY <3>2, Zenon DEF ListTxRaw, At, Upstream, CT, HT, Jobs
      <4>3. stored[CT][h] <= 1
        BY <4>2, Zenon DEF SInv, ExactlyOnce
      <4>4. InRange(w, h) /\ stored[CT][h] > 0
        BY <2>2, <4>1
      <4>5. QED
        BY <2>1, <4>1, <4>2, <4>3, <4>4, Zenon DEF InHand, InRange
    <3>3. QED
      BY <1>7, <3>1, <3>2, Zenon
  <2>3. QED
    BY <1>0, <2>1, <2>2, Zenon DEF WorkerExact
<1>8. QED
  BY <1>1, <1>2, <1>3, <1>4, <1>5, <1>6, <1>7, WorkerSteps, Zenon
     DEF Abort, UpdateCrawledBlock, InsertTxDecoded, InsertRelatedTx, Commit

(* A step of a worker keeps the tables exact and in order.                 *)
LEMMA WorkerTables ==
    ASSUME SInv, TypeOK', CpGrows, NEW w \in Workers, Work(w) \/ Abort(w)
    PROVE  Tables'
<1>1. CASE InsertBlocks(w)
  BY <1>1, InsertBlocksTables, Zenon
<1>2. CASE InsertTxDecoded(w) \/ InsertRelatedTx(w)
  BY <1>2, CommitTables, Zenon
<1>3. CASE UNCHANGED <<stored, cp>>
  BY <1>3, TablesKept, Zenon
<1>4. CASE InitEnv(w) \/ UpdateCrawledBlock(w)
  <2>1. stored' = stored /\ JobOf[w] = CB /\ CT # CB /\ HT # CB /\ {CT, HT} \subseteq Jobs
    BY <1>4, Zenon DEF InitEnv, UpdateCrawledBlock, At, Jobs, CB, CT, HT
  <2>2. cp'[CT] = cp[CT] /\ cp'[HT] = cp[HT]
    BY <2>1, CpFrame, Zenon DEF SInv
  <2>3. QED
    BY <2>1, <2>2, TablesKept, Zenon
<1>5. ASSUME NEW latest, NEW headerless, FetchBlocks(w, latest, headerless)
      PROVE  UNCHANGED <<stored, cp>>
  BY <1>5, Zenon DEF FetchBlocks
<1>6. QED
  BY <1>1, <1>2, <1>3, <1>4, <1>5, WorkerSteps, Zenon
     DEF Abort, ReadJobRow, ReadLastRow, GetListRawTx, ListTxRaw

(* Every step preserves the strengthened invariant.                        *)
LEMMA ExactInductive ==
    ASSUME OneWorkerPerQueue
    PROVE  SInv /\ TypeOK' /\ [Next]_vars => SInv' /\ CpGrows
<1> SUFFICES ASSUME SInv, TypeOK', [Next]_vars PROVE Tables' /\ JobsExact' /\ CpGrows
  BY Zenon DEF SInv, Tables
<1>0. TypeOK /\ Grows(stored, stored')
  BY StepGrows, Zenon DEF SInv
<1>1. CASE UNCHANGED <<cp, stored, local>>
  <2>1. CpGrows
    BY <1>0, <1>1, CpType DEF CpGrows
  <2>2. JobsExact'
    BY <1>0, <1>1, <2>1, BystanderExact, Zenon DEF SInv, JobsExact, local
  <2>3. QED
    BY <1>1, <2>1, <2>2, TablesKept, Zenon
<1>2. ASSUME NEW w \in Workers, Work(w) \/ Abort(w)
      PROVE  Tables' /\ JobsExact' /\ CpGrows
  <2>1. CpGrows
    BY <1>2, WorkerCpGrows, Zenon
  <2>2. Tables'
    BY <1>2, <2>1, WorkerTables, Zenon
  <2>3. ASSUME NEW v \in Workers PROVE WorkerExact(v)'
    <3>1. CASE v = w
      BY <1>2, <3>1, ActorExact, Zenon
    <3>2. CASE v # w
      <4>1. JobOf[v] # JobOf[w] /\ JobOf[v] \in Jobs
        BY <3>2, IngestAssumption, Zenon DEF OneWorkerPerQueue
      <4>2. cp'[JobOf[v]] = cp[JobOf[v]]
        BY <1>0, <1>2, <4>1, CpFrame, Zenon
      <4>3. UNCHANGED <<pc[v], from[v], to[v], rows[v]>>
        BY <1>0, <1>2, <3>2, WorkerStepFrame, Zenon
      <4>4. QED
        BY <1>0, <2>1, <4>2, <4>3, BystanderExact, Zenon DEF SInv, JobsExact
    <3>3. QED
      BY <3>1, <3>2, Zenon
  <2>4. QED
    BY <2>1, <2>2, <2>3, Zenon DEF JobsExact
<1>3. CASE NewBlock \/ UNCHANGED vars
  BY <1>1, <1>3, Zenon DEF NewBlock, vars, local
<1>4. QED
  BY <1>2, <1>3, Zenon DEF Next

(* The strengthened invariant holds initially.                             *)
LEMMA ExactInit == Init => SInv
<1> SUFFICES ASSUME Init PROVE SInv
  OBVIOUS
<1>1. TypeOK
  BY NothingType, StartBlockAssumption DEF Init, TypeOK, Labels
<1>2. \A j \in Jobs, h \in Heights : stored[j][h] = 0
  BY Zenon DEF Init, Nothing
<1>3. ExactlyOnce /\ OnlyBelowCheckpoint
  BY <1>2 DEF ExactlyOnce, OnlyBelowCheckpoint, Jobs
<1>4. InOrder
  BY <1>2 DEF Init, InOrder, Behind, Jobs
<1>5. JobsExact
  BY Zenon DEF Init, JobsExact, WorkerExact
<1>6. QED
  BY <1>1, <1>3, <1>4, <1>5, Zenon DEF SInv

(* With one worker per queue no block has its rows stored twice:           *)
(* handleJobCrawlBlock skips stored blocks, and the other jobs move their  *)
(* row with their inserts.                                                 *)
THEOREM StoredExactlyOnce ==
    ASSUME OneWorkerPerQueue
    PROVE  Spec => []ExactlyOnce
<1>1. SInv /\ TypeOK' /\ [Next]_vars => SInv'
  BY ExactInductive, Zenon
<1>2. SInv => ExactlyOnce
  BY Zenon DEF SInv
<1>3. QED
  BY <1>1, <1>2, ExactInit, TypeCorrect, PTL DEF Spec

(* With one worker per queue no table runs ahead of the one it is copied   *)
(* from: CRAWL_TRANSACTION and HANDLE_TRANSACTION read only what the       *)
(* checkpoint of the job before them vouches for.                          *)
THEOREM StoredInOrder ==
    ASSUME OneWorkerPerQueue
    PROVE  Spec => []InOrder
<1>1. SInv /\ TypeOK' /\ [Next]_vars => SInv'
  BY ExactInductive
<1>2. SInv => InOrder
  BY Zenon DEF SInv
<1>3. QED
  BY <1>1, <1>2, ExactInit, TypeCorrect, PTL DEF Spec

(* With one worker per queue no job writes a checkpoint below the one it   *)
(* read: getCheckpoint gives a range that is empty or lies above it.       *)
THEOREM CheckpointsNeverBack ==
    ASSUME OneWorkerPerQueue
    PROVE  Spec => CheckpointsGrow
<1>1. SInv /\ TypeOK' /\ [Next]_vars => SInv' /\ [\A j \in Jobs : cp[j] <= cp'[j]]_cp
  BY ExactInductive, Zenon DEF CpGrows
<1>2. QED
  BY <1>1, ExactInit, TypeCorrect, PTL DEF Spec, CheckpointsGrow
-----------------------------------------------------------------------------
(* The refinement of Indexer.                                              *)

RInv == WithinChain /\ JobsWithin
FullInv == IInv /\ SInv /\ RInv

(* A height that a cursor can have.                                        *)
LEMMA CursorType ==
    ASSUME FullInv, NEW j \in Jobs
    PROVE  /\ StartHeight(cp[j]) \in Nat /\ chain \in Nat /\ StartBlock \in Nat /\ TopBlock \in Nat
           /\ StartBlock <= StartHeight(cp[j]) /\ StartHeight(cp[j]) <= chain
           /\ chain <= TopBlock \/ chain = StartBlock
  BY CpType, StartBlockAssumption, IngestAssumption, Zenon DEF FullInv, SInv, RInv, WithinChain, TypeOK

(* A range that a job may commit ends at or below the height of the        *)
(* network.                                                                *)
LEMMA ToWithin ==
    ASSUME FullInv, NEW w \in Workers, pc[w] \in {"insert", "update", "commit"}
    PROVE  to[w] \in Nat /\ to[w] <= chain
<1>1. to[w] \in Nat /\ JobOf[w] \in Jobs /\ Upstream(JobOf[w]) \in Jobs
  BY IngestAssumption, UpstreamType, Zenon DEF FullInv, SInv, TypeOK
<1>2. CASE pc[w] \in {"insert", "update"}
  BY <1>1, <1>2, Zenon DEF FullInv, RInv, JobsWithin, WorkerWithin
<1>3. CASE pc[w] = "commit"
  <2> DEFINE u == Upstream(JobOf[w])
  <2>1. cp[u] # NoRow /\ to[w] <= cp[u] /\ cp[u] \in Int
    BY <1>1, <1>3, CpType, Zenon DEF FullInv, SInv, JobsExact, WorkerExact
  <2>2. cp[u] = StartHeight(cp[u]) /\ StartHeight(cp[u]) <= chain /\ chain \in Nat
    BY <1>1, <2>1, CursorType, Zenon DEF StartHeight
  <2>3. QED
    BY <1>1, <2>1, <2>2
<1>4. QED
  BY <1>2, <1>3, Zenon

(* No worker changes the network.                                          *)
LEMMA WorkerChain == ASSUME NEW w \in Workers, Work(w) \/ Abort(w) PROVE chain' = chain
<1>1. ASSUME NEW latest, NEW headerless, FetchBlocks(w, latest, headerless)
      PROVE  chain' = chain
  BY <1>1, Zenon DEF FetchBlocks
<1>2. QED
  BY <1>1, WorkerSteps, Zenon DEF Abort, InitEnv, InsertBlocks, UpdateCrawledBlock, ReadJobRow,
     ReadLastRow, GetListRawTx, ListTxRaw, InsertTxDecoded, InsertRelatedTx, Commit

(* Checkpoints stay between the first block and the network's height.      *)
LEMMA WithinKept ==
    ASSUME FullInv, TypeOK', CpGrows, NEW w \in Workers, Work(w) \/ Abort(w)
    PROVE  WithinChain'
<1>0. /\ TypeOK /\ JobOf[w] \in Jobs /\ CB \in Jobs /\ chain \in Nat
      /\ from[w] \in Nat /\ to[w] \in Nat
  BY IngestAssumption, Zenon DEF FullInv, SInv, TypeOK, Jobs
<1>1. chain' = chain
  BY WorkerChain, Zenon
<1>2. SUFFICES ASSUME NEW j \in Jobs
               PROVE  StartBlock <= StartHeight(cp'[j]) /\ StartHeight(cp'[j]) <= chain
  BY <1>1, Zenon DEF WithinChain, FullInv, RInv
<1>3. /\ StartBlock <= StartHeight(cp[j]) /\ StartHeight(cp[j]) <= chain
      /\ StartHeight(cp[j]) \in Nat /\ StartBlock \in Nat
  BY CursorType, Zenon
<1>4. CASE cp'[j] = cp[j]
  BY <1>3, <1>4, Zenon
<1>5. CASE cp'[j] = StartHeight(cp[j])
  BY <1>3, <1>5, Zenon DEF StartHeight, NoRow
<1>6. CASE cp'[j] = to[w] /\ from[w] = StartHeight(cp[j]) /\ from[w] < to[w] /\ to[w] <= chain
  BY <1>0, <1>3, <1>6 DEF StartHeight, NoRow
<1>7. CASE j # JobOf[w]
  BY <1>0, <1>4, <1>7, CpFrame, Zenon
<1>8. CASE j = JobOf[w] /\ InitEnv(w)
  BY <1>0, <1>5, <1>8, Zenon DEF InitEnv, At, TypeOK
<1>9. CASE j = JobOf[w] /\ UpdateCrawledBlock(w)
  <2>1. from[w] = StartHeight(cp[j]) /\ j = CB /\ pc[w] = "update"
    BY <1>0, <1>9, Zenon DEF UpdateCrawledBlock, At, WorkerExact, FullInv, SInv, JobsExact
  <2>2. cp'[j] = IF from[w] < to[w] THEN to[w] ELSE cp[j]
    BY <1>0, <1>9, <2>1, Zenon DEF UpdateCrawledBlock, TypeOK
  <2>3. to[w] <= chain
    BY <2>1, ToWithin, Zenon
  <2>4. QED
    BY <1>4, <1>6, <2>1, <2>2, <2>3, Zenon
<1>10. CASE j = JobOf[w] /\ (InsertTxDecoded(w) \/ InsertRelatedTx(w))
  <2>1. from[w] = StartHeight(cp[j]) /\ from[w] < to[w] /\ pc[w] = "commit"
    BY <1>0, <1>10, Zenon DEF InsertTxDecoded, InsertRelatedTx, At, WorkerExact, FullInv, SInv, JobsExact
  <2>2. cp'[j] = to[w]
    BY <1>0, <1>10, Zenon DEF InsertTxDecoded, InsertRelatedTx, Commit, TypeOK
  <2>3. to[w] <= chain
    BY <2>1, ToWithin, Zenon
  <2>4. QED
    BY <1>6, <2>1, <2>2, <2>3, Zenon
<1>11. ASSUME NEW latest, NEW headerless, FetchBlocks(w, latest, headerless)
       PROVE  cp' = cp
  BY <1>11, Zenon DEF FetchBlocks
<1>12. QED
  BY <1>4, <1>7, <1>8, <1>9, <1>10, <1>11, WorkerSteps, Zenon
     DEF Abort, InsertBlocks, ReadJobRow, ReadLastRow, GetListRawTx, ListTxRaw

(* A worker that a step leaves alone stays within the chain, which only    *)
(* grows.                                                                  *)
LEMMA BystanderWithin ==
    ASSUME TypeOK, TypeOK', chain <= chain', NEW v \in Workers, WorkerWithin(v),
           UNCHANGED <<pc[v], from[v], to[v], rows[v]>>
    PROVE  WorkerWithin(v)'
<1>1. to[v] \in Nat /\ chain \in Nat /\ chain' \in Nat
  BY Zenon DEF TypeOK
<1>2. to[v] <= chain => to'[v] <= chain'
  BY <1>1
<1>3. QED
  BY <1>2, Zenon DEF WorkerWithin, InRange

(* The worker that takes the step: what is fetched lies in the range.      *)
LEMMA ActorWithin ==
    ASSUME FullInv, TypeOK', NEW w \in Workers, Work(w) \/ Abort(w)
    PROVE  WorkerWithin(w)'
<1>0. TypeOK /\ WorkerWithin(w) /\ CB \in Jobs /\ from[w] \in Nat /\ chain \in Nat
  BY Zenon DEF FullInv, SInv, RInv, JobsWithin, TypeOK, Jobs
<1>1. ASSUME pc'[w] \notin {"insert", "update"} PROVE WorkerWithin(w)'
  BY <1>1, Zenon DEF WorkerWithin
<1>2. ASSUME NEW latest \in 0 .. chain, NEW headerless, FetchBlocks(w, latest, headerless)
      PROVE  WorkerWithin(w)'
  <2> DEFINE end == SmallerOf(from[w] + BlocksPerCall[CB], latest)
  <2>1. BlocksPerCall[CB] \in Nat
    BY <1>0, IngestAssumption, Zenon
  <2>2. end <= chain
    BY <1>0, <2>1 DEF SmallerOf
  <2>3. to'[w] = end /\ from'[w] = from[w] /\ chain' = chain
    BY <1>0, <1>2, Zenon DEF FetchBlocks, TypeOK
  <2>4. ASSUME NEW h \in Heights, rows'[w][h] > 0 PROVE from[w] < h /\ h <= end
    BY <1>0, <1>2, <2>4 DEF FetchBlocks, TypeOK
  <2>5. QED
    BY <2>2, <2>3, <2>4, Zenon DEF WorkerWithin, InRange
<1>3. CASE InsertBlocks(w)
  BY <1>0, <1>3, Zenon DEF InsertBlocks, At, Goto, TypeOK, WorkerWithin
<1>4. CASE Finish(w)
  BY <1>0, <1>1, <1>4, Zenon DEF Finish, Goto, TypeOK
<1>5. CASE InitEnv(w) \/ ReadJobRow(w) \/ GetListRawTx(w) \/ ListTxRaw(w)
  BY <1>0, <1>1, <1>5, Zenon DEF InitEnv, ReadJobRow, GetListRawTx, ListTxRaw, Goto, TypeOK
<1>6. CASE ReadLastRow(w)
  <2>1. CASE Goto(w, "list")
    BY <1>0, <1>1, <2>1, Zenon DEF Goto, TypeOK
  <2>2. QED
    BY <1>4, <1>6, <2>1, Zenon DEF ReadLastRow
<1>7. QED
  BY <1>2, <1>3, <1>4, <1>5, <1>6, WorkerSteps, Zenon
     DEF Abort, UpdateCrawledBlock, InsertTxDecoded, InsertRelatedTx, Commit

(* Every step stays within the chain.                                      *)
LEMMA RangesInductive ==
    ASSUME FullInv, TypeOK', CpGrows, [Next]_vars
    PROVE  RInv'
<1>0. TypeOK /\ chain \in Nat
  BY Zenon DEF FullInv, SInv, TypeOK
<1>1. CASE NewBlock
  <2>1. chain' = chain + 1 /\ chain < TopBlock /\ UNCHANGED <<cp, pc, from, to, rows>>
    BY <1>1, Zenon DEF NewBlock, local
  <2>2. ASSUME NEW j \in Jobs
        PROVE  StartBlock <= StartHeight(cp'[j]) /\ StartHeight(cp'[j]) <= chain'
    <3>1. cp'[j] = cp[j]
      BY <2>1, Zenon
    <3>2. QED
      BY <1>0, <2>1, <3>1, CursorType
  <2>3. StartBlock <= chain' /\ chain' <= TopBlock
    BY <1>0, <2>1, StartBlockAssumption, IngestAssumption DEF FullInv, RInv, WithinChain
  <2>4. JobsWithin'
    BY <1>0, <2>1, BystanderWithin DEF FullInv, RInv, JobsWithin
  <2>5. QED
    BY <2>2, <2>3, <2>4, Zenon DEF RInv, WithinChain
<1>2. ASSUME NEW w \in Workers, Work(w) \/ Abort(w) PROVE RInv'
  <2>1. WithinChain'
    BY <1>2, WithinKept, Zenon
  <2>2. chain' = chain
    BY <1>2, WorkerChain, Zenon
  <2>3. ASSUME NEW v \in Workers PROVE WorkerWithin(v)'
    <3>1. CASE v = w
      BY <1>2, <3>1, ActorWithin, Zenon
    <3>2. CASE v # w
      <4>1. UNCHANGED <<pc[v], from[v], to[v], rows[v]>>
        BY <1>0, <1>2, <3>2, WorkerStepFrame, Zenon
      <4>2. QED
        BY <1>0, <2>2, <4>1, BystanderWithin DEF FullInv, RInv, JobsWithin
    <3>3. QED
      BY <3>1, <3>2, Zenon
  <2>4. QED
    BY <2>1, <2>3, Zenon DEF RInv, JobsWithin
<1>3. CASE UNCHANGED vars
  BY <1>0, <1>3, Zenon DEF vars, FullInv, RInv, WithinChain, JobsWithin, WorkerWithin, InRange
<1>4. QED
  BY <1>1, <1>2, <1>3, Zenon DEF Next

-----------------------------------------------------------------------------
(* A step that moves the cursor of j to n with the rows of the blocks in S *)
(* is a step of Indexer.                                                   *)
LEMMA AdvanceMaps ==
    ASSUME NEW j \in Jobs, NEW n \in Heights, NEW S \in SUBSET Heights,
           StartHeight(cp[j]) < n,
           n <= IF j = CB THEN chain ELSE StartHeight(cp[Upstream(j)]),
           \A h \in S : StartHeight(cp[j]) < h /\ h <= n /\ ~ (stored[j][h] > 0),
           j # CB => \A h \in S : stored[Upstream(j)][h] > 0,
           \A h \in Heights : h <= n /\ Due(j, h) => stored[j][h] > 0 \/ h \in S,
           chain' = chain,
           \A k \in Jobs : StartHeight(cp'[k]) = IF k = j THEN n ELSE StartHeight(cp[k]),
           \A k \in Jobs, h \in Heights :
              stored'[k][h] > 0 <=> stored[k][h] > 0 \/ (k = j /\ h \in S)
    PROVE  Abstract!Advance(j, n, S)
<1> DEFINE Cursor == [k \in Jobs |-> StartHeight(cp[k])]
           Table == [k \in Jobs |-> {h \in Heights : stored[k][h] > 0}]
<1>0. CB \in Jobs /\ Upstream(j) \in Jobs
  BY UpstreamType, Zenon DEF Jobs
<1>1. Cursor' = [Cursor EXCEPT ![j] = n]
  BY Zenon
<1>2. Table' = [Table EXCEPT ![j] = @ \cup S]
  BY Zenon
<1>3. Abstract!Vouched(j, n, Table[j] \cup S)
  BY Zenon DEF Abstract!Vouched, Abstract!Heights, Heights
<1>4. Cursor[j] < n /\ n <= Abstract!Limit(j)
  BY <1>0, Zenon DEF Abstract!Limit
<1>5. S \subseteq {h \in Abstract!Heights : Cursor[j] < h /\ h <= n} \ Table[j]
  BY Zenon DEF Abstract!Heights, Heights
<1>6. j # CB => S \subseteq Table[Upstream(j)]
  BY <1>0, Zenon
<1>7. QED
  BY <1>0, <1>1, <1>2, <1>3, <1>4, <1>5, <1>6, Zenon DEF Abstract!Advance

(* The insert of CRAWL_BLOCK extends the first table above its cursor.     *)
LEMMA InsertMaps ==
    ASSUME FullInv, NEW w \in Workers, InsertBlocks(w)
    PROVE  Abstract!Next
<1> DEFINE Cursor == [k \in Jobs |-> StartHeight(cp[k])]
           Table == [k \in Jobs |-> {h \in Heights : stored[k][h] > 0}]
<1>0. PICK S \in SUBSET Heights : S = {h \in Heights : rows[w][h] > 0}
  BY Zenon
<1>1. /\ JobOf[w] = CB /\ CB \in Jobs /\ pc[w] = "insert" /\ InsertRows(w)
      /\ TypeOK /\ cp' = cp /\ chain' = chain
  BY Zenon DEF InsertBlocks, At, Jobs, FullInv, SInv
<1>2. \A k \in Jobs, h \in Heights : stored[k][h] \in Nat /\ rows[w][h] \in Nat
  BY <1>1, Zenon DEF TypeOK
<1>3. /\ \A h \in Heights : stored'[CB][h] = stored[CB][h] + rows[w][h]
      /\ \A k \in Jobs : k # CB => stored'[k] = stored[k]
  BY <1>1, InsertGrows, Zenon DEF InsertRows, TypeOK
<1>4. Table' = [Table EXCEPT ![CB] = @ \cup S]
  <2>1. \A h \in Heights : stored'[CB][h] > 0 <=> stored[CB][h] > 0 \/ rows[w][h] > 0
    BY <1>1, <1>2, <1>3
  <2>2. QED
    BY <1>0, <1>1, <1>3, <2>1, Zenon
<1>5. ASSUME NEW h \in S PROVE StartHeight(cp[CB]) < h /\ h <= chain /\ ~ (stored[CB][h] > 0)
  <2>1. from[w] < h /\ h <= to[w]
    BY <1>0, <1>1, Zenon DEF FullInv, RInv, JobsWithin, WorkerWithin, InRange
  <2>2. from[w] = StartHeight(cp[CB])
    BY <1>1, Zenon DEF FullInv, SInv, JobsExact, WorkerExact
  <2>3. to[w] \in Nat /\ to[w] <= chain /\ chain \in Nat /\ h \in Int
    BY <1>1, ToWithin DEF TypeOK, Heights
  <2>4. rows[w][h] + stored[CB][h] <= 1
    BY Zenon DEF InsertBlocks
  <2>5. QED
    BY <1>0, <1>1, <1>2, <2>1, <2>2, <2>3, <2>4
<1>6. Abstract!Limit(CB) = chain
  BY Zenon DEF Abstract!Limit
<1>7. S \subseteq {h \in Abstract!Heights : Cursor[CB] < h /\ h <= Abstract!Limit(CB)} \ Table[CB]
  BY <1>1, <1>5, <1>6, Zenon DEF Abstract!Heights, Heights
<1>8. Abstract!Extend(CB, S)
  BY <1>1, <1>4, <1>7, Zenon DEF Abstract!Extend
<1>9. S \in SUBSET Abstract!Heights
  BY Zenon DEF Abstract!Heights, Heights
<1>10. QED
  BY <1>1, <1>8, <1>9, Zenon DEF Abstract!Next

(* The update of CRAWL_BLOCK moves the cursor over rows that are stored.   *)
LEMMA UpdateMaps ==
    ASSUME FullInv, NEW w \in Workers, UpdateCrawledBlock(w), from[w] < to[w]
    PROVE  Abstract!Next
<1>1. /\ JobOf[w] = CB /\ CB \in Jobs /\ pc[w] = "update" /\ TypeOK
      /\ chain' = chain /\ stored' = stored
  BY Zenon DEF UpdateCrawledBlock, At, Jobs, FullInv, SInv
<1>2. cp'[CB] = to[w] /\ \A k \in Jobs : k # CB => cp'[k] = cp[k]
  BY <1>1, Zenon DEF UpdateCrawledBlock, TypeOK
<1>3. from[w] = StartHeight(cp[CB]) /\ to[w] \in Nat /\ to[w] <= chain
  BY <1>1, ToWithin, Zenon DEF FullInv, SInv, JobsExact, WorkerExact
<1>4. PICK n \in Heights : n = to[w]
  BY <1>1, <1>3, CursorType DEF Heights
<1>5. StartHeight(cp'[CB]) = n
  BY <1>2, <1>3, <1>4 DEF StartHeight, NoRow
<1>6. \A h \in Heights : h <= n /\ Due(CB, h) => stored[CB][h] > 0
  BY <1>1, <1>4, Zenon DEF FullInv, IInv, JobsCovered, WorkerCovered, Covered, CoveredBy
<1>7. \A k \in Jobs : StartHeight(cp'[k]) = IF k = CB THEN n ELSE StartHeight(cp[k])
  BY <1>2, <1>5, Zenon
<1>8. Abstract!Advance(CB, n, {})
  BY <1>1, <1>3, <1>4, <1>6, <1>7, AdvanceMaps, Zenon
<1>9. QED
  BY <1>1, <1>8, Zenon DEF Abstract!Next, Abstract!Heights, Heights

(* The commit of the other two jobs moves the cursor with its rows.        *)
LEMMA CommitMaps ==
    ASSUME FullInv, NEW w \in Workers, InsertTxDecoded(w) \/ InsertRelatedTx(w)
    PROVE  Abstract!Next
<1>1. PICK j \in Jobs : j = JobOf[w]
  BY IngestAssumption, Zenon
<1> DEFINE u == Upstream(j)
<1>2. PICK S \in SUBSET Heights : S = {h \in Heights : rows[w][h] > 0}
  BY Zenon
<1>3. /\ j \in {CT, HT} /\ j # CB /\ u \in Jobs /\ pc[w] = "commit" /\ Commit(w) /\ InsertRows(w)
      /\ TypeOK /\ WorkerExact(w) /\ chain' = chain
  BY <1>1, UpstreamType, Zenon
     DEF InsertTxDecoded, InsertRelatedTx, At, Commit, CB, CT, HT, FullInv, SInv, JobsExact
<1>4. /\ from[w] = StartHeight(cp[j]) /\ from[w] < to[w] /\ cp[u] # NoRow /\ to[w] <= cp[u]
      /\ \A h \in Heights : rows[w][h] > 0 => from[w] < h /\ h <= to[w] /\ stored[u][h] > 0
  BY <1>1, <1>3, Zenon DEF WorkerExact, InHand, InRange
<1>5. to[w] \in Nat /\ to[w] <= chain /\ from[w] \in Nat
  BY <1>3, ToWithin, Zenon DEF TypeOK
<1>6. PICK n \in Heights : n = to[w]
  <2>1. /\ StartBlock \in Nat /\ TopBlock \in Nat /\ chain \in Nat /\ StartHeight(cp[j]) \in Nat
        /\ StartBlock <= StartHeight(cp[j]) /\ StartHeight(cp[j]) <= chain
        /\ chain <= TopBlock \/ chain = StartBlock
    BY CursorType, Zenon
  <2>2. StartBlock < to[w] /\ to[w] <= TopBlock
    BY <1>4, <1>5, <2>1
  <2>3. to[w] \in Heights
    BY <1>5, <2>1, <2>2 DEF Heights
  <2>4. QED
    BY <2>3, Zenon
<1>7. cp'[j] = n /\ \A k \in Jobs : k # j => cp'[k] = cp[k]
  BY <1>1, <1>3, <1>6, Zenon DEF Commit, TypeOK
<1>8. \A k \in Jobs : StartHeight(cp'[k]) = IF k = j THEN n ELSE StartHeight(cp[k])
  BY <1>5, <1>6, <1>7 DEF StartHeight, NoRow
<1>9. \A k \in Jobs, h \in Heights : h \in Int /\ stored[k][h] \in Nat /\ rows[w][h] \in Nat
  <2>1. \A h \in Heights : h \in Int
    BY DEF Heights
  <2>2. QED
    BY <1>3, <2>1, Zenon DEF TypeOK
<1>10. /\ \A h \in Heights : stored'[j][h] = stored[j][h] + rows[w][h]
       /\ \A k \in Jobs : k # j => stored'[k] = stored[k]
  BY <1>1, <1>3, InsertGrows, Zenon DEF InsertRows, TypeOK
<1>11. \A k \in Jobs, h \in Heights :
          stored'[k][h] > 0 <=> stored[k][h] > 0 \/ (k = j /\ h \in S)
  <2>1. \A h \in Heights : stored'[j][h] > 0 <=> stored[j][h] > 0 \/ rows[w][h] > 0
    BY <1>9, <1>10
  <2>2. QED
    BY <1>2, <1>10, <2>1, Zenon
<1>12. ASSUME NEW h \in S PROVE StartHeight(cp[j]) < h /\ h <= n /\ ~ (stored[j][h] > 0)
  <2>1. StartHeight(cp[j]) < h /\ h <= n
    BY <1>2, <1>4, <1>6, Zenon
  <2>2. stored[j][h] > 0 => h <= StartHeight(cp[j])
    BY <1>3, Zenon DEF FullInv, SInv, OnlyBelowCheckpoint, StartHeight
  <2>3. QED
    BY <1>4, <1>5, <1>9, <2>1, <2>2
<1>13. \A h \in S : stored[u][h] > 0
  BY <1>2, <1>4, Zenon
<1>14. \A h \in Heights : h <= n /\ Due(j, h) => stored[j][h] > 0 \/ h \in S
  <2>1. \A h \in Heights : h <= n /\ Due(j, h) => stored[j][h] + rows[w][h] > 0
    BY <1>1, <1>3, <1>6, Zenon DEF FullInv, IInv, JobsCovered, WorkerCovered, Promised
  <2>2. QED
    BY <1>2, <1>9, <2>1
<1>15. StartHeight(cp[j]) < n /\ n <= StartHeight(cp[u])
  BY <1>4, <1>6, Zenon DEF StartHeight
<1>16. Abstract!Advance(j, n, S)
  BY <1>3, <1>8, <1>11, <1>12, <1>13, <1>14, <1>15, AdvanceMaps, Zenon
<1>17. QED
  BY <1>16, Zenon DEF Abstract!Next, Abstract!Heights, Heights

(* Every step of the pipeline is a step of Indexer or changes nothing that *)
(* Indexer sees.                                                           *)
LEMMA StepMaps ==
    ASSUME FullInv, [Next]_vars
    PROVE  [Abstract!Next]_(Abstract!vars)
<1>0. TypeOK
  BY Zenon DEF FullInv, SInv
<1>1. ASSUME chain' = chain, stored' = stored,
             \A j \in Jobs : StartHeight(cp'[j]) = StartHeight(cp[j])
      PROVE  UNCHANGED Abstract!vars
  BY <1>1, Zenon DEF Abstract!vars
<1>2. CASE UNCHANGED <<chain, cp, stored>>
  BY <1>1, <1>2, Zenon
<1>3. CASE NewBlock
  <2>1. Abstract!NewBlock
    BY <1>3, Zenon DEF NewBlock, Abstract!NewBlock
  <2>2. QED
    BY <2>1, Zenon DEF Abstract!Next
<1>4. ASSUME NEW w \in Workers, Work(w) \/ Abort(w)
      PROVE  Abstract!Next \/ UNCHANGED Abstract!vars
  <2>0. CB \in Jobs /\ chain' = chain
    BY <1>4, WorkerChain, Zenon DEF Jobs
  <2>1. CASE InitEnv(w)
    <3>1. cp' = [cp EXCEPT ![CB] = StartHeight(cp[CB])] /\ stored' = stored
      BY <2>1, Zenon DEF InitEnv
    <3>2. StartHeight(StartHeight(cp[CB])) = StartHeight(cp[CB])
      BY <1>0, <2>0, CpType, Zenon DEF StartHeight, NoRow
    <3>3. \A j \in Jobs : StartHeight(cp'[j]) = StartHeight(cp[j])
      BY <1>0, <3>1, <3>2, Zenon DEF TypeOK
    <3>4. QED
      BY <1>1, <2>0, <3>1, <3>3, Zenon
  <2>2. CASE InsertBlocks(w)
    BY <2>2, InsertMaps, Zenon
  <2>3. CASE UpdateCrawledBlock(w)
    <3>1. CASE from[w] < to[w]
      BY <2>3, <3>1, UpdateMaps, Zenon
    <3>2. CASE ~ (from[w] < to[w])
      <4>1. cp' = cp /\ stored' = stored
        BY <1>0, <2>0, <2>3, <3>2, Zenon DEF UpdateCrawledBlock, TypeOK
      <4>2. QED
        BY <1>2, <2>0, <4>1, Zenon
    <3>3. QED
      BY <3>1, <3>2, Zenon
  <2>4. CASE InsertTxDecoded(w) \/ InsertRelatedTx(w)
    BY <2>4, CommitMaps, Zenon
  <2>5. ASSUME NEW latest, NEW headerless, FetchBlocks(w, latest, headerless)
        PROVE  UNCHANGED <<chain, cp, stored>>
    BY <2>5, Zenon DEF FetchBlocks
  <2>6. QED
    BY <1>2, <1>4, <2>1, <2>2, <2>3, <2>4, <2>5, WorkerSteps, Zenon
       DEF Abort, ReadJobRow, ReadLastRow, GetListRawTx, ListTxRaw
<1>5. QED
  BY <1>2, <1>3, <1>4, Zenon DEF Next, vars

(* With one worker per queue, and whatever fails or dies, CRAWL_BLOCK,     *)
(* CRAWL_TRANSACTION and HANDLE_TRANSACTION do what Indexer promises: each *)
(* table fills in block order, once, behind a cursor that vouches for it   *)
(* and within what the cursor of the table before it vouches for.          *)
THEOREM PipelineImplementsIndexer ==
    ASSUME OneWorkerPerQueue
    PROVE  Spec => ImplementsIndexer
<1>1. Init => RInv
  <2> SUFFICES ASSUME Init PROVE RInv
    BY Zenon
  <2>1. \A j \in Jobs : StartHeight(cp[j]) = StartBlock
    BY Zenon DEF Init, StartHeight
  <2>2. WithinChain
    BY <2>1, StartBlockAssumption DEF Init, WithinChain
  <2>3. JobsWithin
    BY Zenon DEF Init, JobsWithin, WorkerWithin
  <2>4. QED
    BY <2>2, <2>3, Zenon DEF RInv
<1>2. IInv /\ SInv /\ RInv /\ TypeOK' /\ [Next]_vars => SInv' /\ RInv'
  <2> SUFFICES ASSUME IInv, SInv, RInv, TypeOK', [Next]_vars PROVE SInv' /\ RInv'
    BY Zenon
  <2>1. SInv' /\ CpGrows
    BY ExactInductive, Zenon
  <2>2. QED
    BY <2>1, RangesInductive, Zenon DEF FullInv
<1>3. Init => Abstract!Init
  <2> SUFFICES ASSUME Init PROVE Abstract!Init
    OBVIOUS
  <2>1. \A j \in Jobs : StartHeight(cp[j]) = StartBlock
    BY DEF Init, StartHeight
  <2>2. \A j \in Jobs, h \in Heights : ~ (stored[j][h] > 0)
    BY DEF Init, Nothing
  <2>3. QED
    BY <2>1, <2>2, Zenon DEF Init, Abstract!Init
<1>4. IInv /\ SInv /\ RInv /\ [Next]_vars => [Abstract!Next]_(Abstract!vars)
  BY StepMaps, Zenon DEF FullInv
<1>5. QED
  BY <1>1, <1>2, <1>3, <1>4, ExactInit, AlwaysCovered, TypeCorrect, PTL
     DEF Spec, ImplementsIndexer, Abstract!Spec
=============================================================================
