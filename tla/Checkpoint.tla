----------------------------- MODULE Checkpoint -----------------------------
(***************************************************************************)
(* The table block_checkpoint and BlockCheckpoint.getCheckpoint.           *)
(*                                                                         *)
(* Every block-driven job of the indexer owns one row (job_name, height).  *)
(* Before it works, a job asks getCheckpoint for the half-open range       *)
(* (start, end] of blocks it may process: start is its own row, end is the *)
(* lowest row among the jobs it depends on, at most blocksPerCall further. *)
(* A row that does not exist is the height NoRow.                          *)
(***************************************************************************)
EXTENDS Integers, FiniteSets

CONSTANT StartBlock      \* config.crawlBlock.startBlock

ASSUME StartBlockAssumption == StartBlock \in Nat

NoRow == -1
NoStep == -1             \* getCheckpoint called without a configName

SmallerOf(a, b) == IF a <= b THEN a ELSE b

(* The two rows the method reads: the job's own ...                        *)
StartHeight(row) == IF row = NoRow THEN StartBlock ELSE row

(* mutant: the rows are sorted the other way round                         *)
LastHeightHighest(rows, deps) ==
    LET present == {d \in deps : rows[d] # NoRow}
    IN  IF present = {} THEN NoRow
        ELSE rows[CHOOSE d \in present : \A e \in present : rows[d] >= rows[e]]

(* ... and the lowest of the rows of deps that exist, if any does.         *)
LastHeight(rows, deps) ==
    LET present == {d \in deps : rows[d] # NoRow}
    IN  IF present = {} THEN NoRow
        ELSE rows[CHOOSE d \in present : \A e \in present : rows[d] <= rows[e]]

(* mutant: a call with a step ignores the rows of the dependencies         *)
EndHeightNoLimit(start, last, step) ==
    IF last = NoRow THEN 0
    ELSE IF step = NoStep THEN last ELSE start + step

EndHeight(start, last, step) ==
    IF last = NoRow THEN 0
    ELSE IF step = NoStep THEN last ELSE SmallerOf(start + step, last)
=============================================================================
