------------------------------- MODULE Ingest -------------------------------
(***************************************************************************)
(* The ingestion pipeline: three queues whose jobs copy the chain into     *)
(* Postgres.  CRAWL_BLOCK stores the blocks, CRAWL_TRANSACTION stores the  *)
(* transactions of the stored blocks, HANDLE_TRANSACTION stores the events *)
(* and messages of the stored transactions.                                *)
(*                                                                         *)
(* A worker consumes one queue and runs one job at a time; a job is a      *)
(* handler that awaits the node and the database several times, so it is   *)
(* split into the steps between two awaits that touch the database.  Any   *)
(* of them may throw, and the process may die at any of them: what was     *)
(* committed stays, the rest is forgotten and the next repetition of the   *)
(* job starts over (Abort).  Several workers of a queue run when the       *)
(* service is deployed more than once.                                     *)
(***************************************************************************)
EXTENDS Checkpoint

CONSTANTS
    Workers,          \* the workers of all queues
    JobOf,            \* the queue each worker consumes
    BlocksPerCall,    \* config.<job>.blocksPerCall, by job
    TopBlock,         \* bound: the chain stops growing here
    HasTx,            \* the heights whose block has transactions
    MayBeHeaderless   \* the heights the node may answer without a header

CB == "crawlBlock"
CT == "crawlTransaction"
HT == "handleTransaction"
Jobs == {CB, CT, HT}

Heights == (StartBlock + 1) .. TopBlock

ASSUME IngestAssumption ==
    /\ JobOf \in [Workers -> Jobs]
    /\ BlocksPerCall \in [Jobs -> Nat \ {0}]
    /\ TopBlock \in Nat
    /\ HasTx \subseteq Heights
    /\ MayBeHeaderless \subseteq Heights

VARIABLES
    chain,    \* the height of the network
    cp,       \* block_checkpoint: job -> height, or NoRow
    stored,   \* job -> height -> copies of that block's rows in its table
    pc,       \* worker -> where its current job is
    from,     \* worker -> the start height its job read
    to,       \* worker -> the end height its job computed
    rows      \* worker -> height -> the rows its job is about to insert

vars == <<chain, cp, stored, pc, from, to, rows>>
local == <<pc, from, to, rows>>

Nothing == [h \in Heights |-> 0]

Init ==
    /\ chain = StartBlock
    /\ cp = [j \in Jobs |-> NoRow]
    /\ stored = [j \in Jobs |-> Nothing]
    /\ pc = [w \in Workers |-> "idle"]
    /\ from = [w \in Workers |-> StartBlock]
    /\ to = [w \in Workers |-> StartBlock]
    /\ rows = [w \in Workers |-> Nothing]

At(w, j, label) == JobOf[w] = j /\ pc[w] = label
Goto(w, label) == pc' = [pc EXCEPT ![w] = label]

(* mutant: the range includes the block the last run ended with            *)
InRangeClosed(w, h) == from[w] <= h /\ h <= to[w]

InRange(w, h) == from[w] < h /\ h <= to[w]

(* the job of w is over, its local variables are gone                      *)
Finish(w) ==
    /\ Goto(w, "idle")
    /\ from' = [from EXCEPT ![w] = StartBlock]
    /\ to' = [to EXCEPT ![w] = StartBlock]
    /\ rows' = [rows EXCEPT ![w] = Nothing]

(* insert the rows of worker w into the table of its job                   *)
InsertRows(w) ==
    stored' = [stored EXCEPT ![JobOf[w]] =
                  [h \in Heights |-> stored[JobOf[w]][h] + rows[w][h]]]

-----------------------------------------------------------------------------
(* The network and its node.                                               *)
NewBlock ==
    /\ chain < TopBlock
    /\ chain' = chain + 1
    /\ UNCHANGED <<cp, stored, local>>

-----------------------------------------------------------------------------
(* CRAWL_BLOCK                                                             *)

(* initEnv: read the row, or create it at startBlock                       *)
InitEnv(w) ==
    /\ At(w, CB, "idle")
    /\ cp' = [cp EXCEPT ![CB] = StartHeight(@)]
    /\ from' = [from EXCEPT ![w] = StartHeight(cp[CB])]
    /\ Goto(w, "fetch")
    /\ UNCHANGED <<chain, stored, to, rows>>

(* mutant: the loop stops before the last block of the range               *)
FetchBlocksShort(w, latest, headerless) ==
    LET end == SmallerOf(from[w] + BlocksPerCall[CB], latest)
    IN  /\ At(w, CB, "fetch")
        /\ to' = [to EXCEPT ![w] = end]
        /\ rows' = [rows EXCEPT ![w] =
              [h \in Heights |->
                 IF from[w] < h /\ h < end /\ h \notin headerless /\ stored[CB][h] = 0
                 THEN 1 ELSE 0]]
        /\ Goto(w, "insert")
        /\ UNCHANGED <<chain, cp, stored, from>>

(* Ask for the latest height, which a node behind the network understates, *)
(* fetch the blocks, drop those without a header and those already stored. *)
FetchBlocks(w, latest, headerless) ==
    LET end == SmallerOf(from[w] + BlocksPerCall[CB], latest)
    IN  /\ At(w, CB, "fetch")
        /\ to' = [to EXCEPT ![w] = end]
        /\ rows' = [rows EXCEPT ![w] =
              [h \in Heights |->
                 IF /\ from[w] < h /\ h <= end
                    /\ h \notin headerless
                    /\ stored[CB][h] = 0
                 THEN 1 ELSE 0]]
        /\ Goto(w, "insert")
        /\ UNCHANGED <<chain, cp, stored, from>>

(* mutant: a conflict on the height is swallowed                           *)
InsertBlocksSwallow(w) ==
    /\ At(w, CB, "insert")
    /\ IF \A h \in Heights : rows[w][h] + stored[CB][h] <= 1
       THEN InsertRows(w) ELSE UNCHANGED stored
    /\ Goto(w, "update")
    /\ UNCHANGED <<chain, cp, from, to, rows>>

(* One transaction inserts the blocks.  The height is the primary key: if  *)
(* another worker has stored one of them, the job fails (Abort).           *)
InsertBlocks(w) ==
    /\ At(w, CB, "insert")
    /\ \A h \in Heights : rows[w][h] + stored[CB][h] <= 1
    /\ InsertRows(w)
    /\ Goto(w, "update")
    /\ UNCHANGED <<chain, cp, from, to, rows>>

(* mutants: the row is updated on an empty range too; the row moves by     *)
(* blocksPerCall whatever the height of the network                        *)
UpdateAlways(w) ==
    /\ At(w, CB, "update")
    /\ cp' = [cp EXCEPT ![CB] = to[w]]
    /\ Finish(w)
    /\ UNCHANGED <<chain, stored>>
UpdateByStep(w) ==
    /\ At(w, CB, "update")
    /\ cp' = [cp EXCEPT ![CB] = IF from[w] < to[w] THEN from[w] + BlocksPerCall[CB] ELSE @]
    /\ Finish(w)
    /\ UNCHANGED <<chain, stored>>

(* The row is updated after that transaction, not in it.                   *)
UpdateCrawledBlock(w) ==
    /\ At(w, CB, "update")
    /\ cp' = [cp EXCEPT ![CB] = IF from[w] < to[w] THEN to[w] ELSE @]
    /\ Finish(w)
    /\ UNCHANGED <<chain, stored>>

-----------------------------------------------------------------------------
(* getCheckpoint, for the two jobs that use it: its two queries are not in *)
(* one transaction.                                                        *)
DependsOn(j) == IF j = CT THEN {CB} ELSE {CT}

ReadJobRow(w) ==
    /\ JobOf[w] \in {CT, HT} /\ pc[w] = "idle"
    /\ from' = [from EXCEPT ![w] = StartHeight(cp[JobOf[w]])]
    /\ Goto(w, "last")
    /\ UNCHANGED <<chain, cp, stored, to, rows>>

(* mutant: a range of one block counts as empty                            *)
ReadLastRowEager(w) ==
    LET j == JobOf[w]
        end == EndHeight(from[w], LastHeight(cp, DependsOn(j)), BlocksPerCall[j])
    IN  /\ JobOf[w] \in {CT, HT} /\ pc[w] = "last"
        /\ \/ from[w] + 1 >= end /\ Finish(w)
           \/ /\ from[w] + 1 < end
              /\ to' = [to EXCEPT ![w] = end]
              /\ Goto(w, "list")
              /\ UNCHANGED <<from, rows>>
        /\ UNCHANGED <<chain, cp, stored>>

(* ... and the early return of both handlers on an empty range             *)
ReadLastRow(w) ==
    LET j == JobOf[w]
        end == EndHeight(from[w], LastHeight(cp, DependsOn(j)), BlocksPerCall[j])
    IN  /\ JobOf[w] \in {CT, HT} /\ pc[w] = "last"
        /\ \/ from[w] >= end /\ Finish(w)
           \/ /\ from[w] < end
              /\ to' = [to EXCEPT ![w] = end]
              /\ Goto(w, "list")
              /\ UNCHANGED <<from, rows>>
        /\ UNCHANGED <<chain, cp, stored>>

(* CRAWL_TRANSACTION: the transactions of the stored blocks of the range,  *)
(* without those whose hash is stored.  A node that answers fewer than the *)
(* block's tx_count makes the job fail (Abort).                            *)
GetListRawTx(w) ==
    /\ At(w, CT, "list")
    /\ rows' = [rows EXCEPT ![w] =
          [h \in Heights |->
             IF InRange(w, h) /\ stored[CB][h] > 0 /\ h \in HasTx /\ stored[CT][h] = 0
             THEN 1 ELSE 0]]
    /\ Goto(w, "commit")
    /\ UNCHANGED <<chain, cp, stored, from, to>>

(* HANDLE_TRANSACTION: every transaction row of the range                  *)
ListTxRaw(w) ==
    /\ At(w, HT, "list")
    /\ rows' = [rows EXCEPT ![w] =
          [h \in Heights |-> IF InRange(w, h) THEN stored[CT][h] ELSE 0]]
    /\ Goto(w, "commit")
    /\ UNCHANGED <<chain, cp, stored, from, to>>

(* One transaction inserts the rows and moves the checkpoint to the end.   *)
Commit(w) ==
    /\ InsertRows(w)
    /\ cp' = [cp EXCEPT ![JobOf[w]] = to[w]]
    /\ Finish(w)
    /\ UNCHANGED chain

InsertTxDecoded(w) == At(w, CT, "commit") /\ Commit(w)
InsertRelatedTx(w) == At(w, HT, "commit") /\ Commit(w)

-----------------------------------------------------------------------------
(* An exception in the handler, or the death of its process.  A handler    *)
(* has no effect before its first write, so a job that ends earlier leaves *)
(* what a job that ends just before that write leaves: Abort is taken at   *)
(* the writes.                                                             *)
Abort(w) ==
    /\ pc[w] \in {"insert", "update", "commit"}
    /\ Finish(w)
    /\ UNCHANGED <<chain, cp, stored>>

CrawlBlock(w) ==
    \/ InitEnv(w)
    \/ \E latest \in 0 .. chain, headerless \in SUBSET MayBeHeaderless :
          FetchBlocks(w, latest, headerless)
    \/ InsertBlocks(w)
    \/ UpdateCrawledBlock(w)

JobCrawlTx(w) == GetListRawTx(w) \/ InsertTxDecoded(w)
JobHandlerCrawlTx(w) == ListTxRaw(w) \/ InsertRelatedTx(w)

Work(w) ==
    \/ CrawlBlock(w)
    \/ ReadJobRow(w)
    \/ ReadLastRow(w)
    \/ JobCrawlTx(w)
    \/ JobHandlerCrawlTx(w)

Next ==
    \/ NewBlock
    \/ \E w \in Workers : Work(w) \/ Abort(w)

Spec == Init /\ [][Next]_vars

(* The queue repeats a job for ever, so a worker keeps taking steps; the   *)
(* node and the database may fail a job any number of times but not every  *)
(* time a job has blocks to store, and the node does not understate its    *)
(* height every time.                                                      *)
Fairness ==
    /\ \A w \in Workers : WF_vars(Work(w))
    /\ \A w \in {v \in Workers : JobOf[v] = CB} :
          /\ SF_vars(FetchBlocks(w, chain, {}))
          /\ SF_vars(from[w] < to[w] /\ InsertBlocks(w))
          /\ SF_vars(from[w] < to[w] /\ UpdateCrawledBlock(w))
    /\ \A w \in {v \in Workers : JobOf[v] # CB} :
          SF_vars(InsertTxDecoded(w) \/ InsertRelatedTx(w))

FairSpec == Spec /\ Fairness
-----------------------------------------------------------------------------
(* Properties                                                              *)

Labels == {"idle", "fetch", "insert", "update", "last", "list", "commit"}

(* Every variable keeps its type.                                          *)
TypeOK ==
    /\ chain \in Nat
    /\ cp \in [Jobs -> {NoRow} \cup Nat]
    /\ stored \in [Jobs -> [Heights -> Nat]]
    /\ pc \in [Workers -> Labels]
    /\ from \in [Workers -> Nat]
    /\ to \in [Workers -> Nat]
    /\ rows \in [Workers -> [Heights -> Nat]]

(* The blocks a job owes its table: a block whose header the node may      *)
(* withhold is nobody's due, and only blocks with transactions yield       *)
(* transaction, event and message rows.                                    *)
Due(j, h) == h \notin MayBeHeaderless /\ (j = CB \/ h \in HasTx)

CoveredBy(table, j, n) == \A h \in Heights : h <= n /\ Due(j, h) => table[j][h] > 0

Covered(j, n) == CoveredBy(stored, j, n)

(* A checkpoint never runs ahead of its table: every block at or below the *)
(* row of a job has its rows in the job's table, whatever failed, died or  *)
(* ran concurrently before (handleJobCrawlBlock updates the row after the  *)
(* insert; the other jobs move it in the same transaction).                *)
NoHole == \A j \in Jobs : cp[j] # NoRow => Covered(j, cp[j])

(* Why NoHole holds, as an inductive invariant.  Rows are never deleted, so *)
(* what was covered when a job read it is covered when the job writes: the *)
(* table up to the start it read, the table it copies from up to the end   *)
(* it computed, and, counting the rows in its hands, its own table up to   *)
(* the end.                                                                *)
Upstream(j) == IF j = CT THEN CB ELSE CT

Promised(w) ==
    \A h \in Heights :
       h <= to[w] /\ Due(JobOf[w], h) => stored[JobOf[w]][h] + rows[w][h] > 0

WorkerCovered(w) ==
    /\ pc[w] \in {"fetch", "insert", "update"} => JobOf[w] = CB
    /\ pc[w] \in {"last", "list", "commit"} => JobOf[w] \in {CT, HT}
    /\ pc[w] # "idle" => Covered(JobOf[w], from[w])
    /\ pc[w] = "list" => Covered(Upstream(JobOf[w]), to[w])
    /\ pc[w] \in {"insert", "commit"} => Promised(w)
    /\ pc[w] = "update" => Covered(JobOf[w], to[w])

JobsCovered == \A w \in Workers : WorkerCovered(w)

(* No block's transactions, events or messages are stored twice.           *)
ExactlyOnce == \A j \in Jobs, h \in Heights : stored[j][h] <= 1

(* A job that reads another job's table never overtakes it, and stores     *)
(* nothing for a block that the other has not finished.                    *)
Behind(i, j) ==
    /\ cp[i] # NoRow => cp[j] # NoRow /\ cp[i] <= cp[j]
    /\ \A h \in Heights : stored[i][h] > 0 => h <= cp[j] /\ stored[j][h] > 0
InOrder == Behind(CT, CB) /\ Behind(HT, CT)

(* Why they hold when no queue has two workers: nobody else moves the row  *)
(* a job has read, and what a job has in hand lies in its own range, within *)
(* what the upstream row vouches for.                                      *)
OneWorkerPerQueue == \A v, w \in Workers : JobOf[v] = JobOf[w] => v = w

OnlyBelowCheckpoint ==
    \A j \in {CT, HT}, h \in Heights : stored[j][h] > 0 => cp[j] # NoRow /\ h <= cp[j]

InHand(w, h) == InRange(w, h) /\ rows[w][h] <= 1 /\ stored[Upstream(JobOf[w])][h] > 0

WorkerExact(w) ==
    /\ pc[w] \in {"fetch", "insert", "update"} => JobOf[w] = CB /\ cp[CB] # NoRow
    /\ pc[w] \in {"last", "list", "commit"} => JobOf[w] \in {CT, HT}
    /\ pc[w] # "idle" => from[w] = StartHeight(cp[JobOf[w]])
    /\ pc[w] \in {"list", "commit"} =>
          /\ from[w] < to[w]
          /\ cp[Upstream(JobOf[w])] # NoRow /\ to[w] <= cp[Upstream(JobOf[w])]
    /\ pc[w] = "commit" => \A h \in Heights : rows[w][h] > 0 => InHand(w, h)

JobsExact == \A w \in Workers : WorkerExact(w)

(* No step of any job moves a checkpoint back.                             *)
CheckpointsGrow == [][\A j \in Jobs : cp[j] <= cp'[j]]_cp

(* Why the pipeline implements Indexer: checkpoints lie between the first  *)
(* block and the height of the network, and what CRAWL_BLOCK has in hand   *)
(* lies in the range that it asked for.                                    *)
WithinChain ==
    /\ StartBlock <= chain /\ (chain <= TopBlock \/ chain = StartBlock)
    /\ \A j \in Jobs : StartBlock <= StartHeight(cp[j]) /\ StartHeight(cp[j]) <= chain

WorkerWithin(w) ==
    /\ pc[w] \in {"insert", "update"} => to[w] <= chain
    /\ pc[w] = "insert" => \A h \in Heights : rows[w][h] > 0 => InRange(w, h)

JobsWithin == \A w \in Workers : WorkerWithin(w)

Abstract == INSTANCE Indexer WITH
    First <- CB,
    SourceOf <- [j \in Jobs |-> Upstream(j)],
    Owed <- [j \in Jobs |-> {h \in Heights : Due(j, h)}],
    cursor <- [j \in Jobs |-> StartHeight(cp[j])],
    table <- [j \in Jobs |-> {h \in Heights : stored[j][h] > 0}]

(* With one worker per queue the pipeline implements Indexer: tables that  *)
(* fill in block order behind cursors that vouch for them.                 *)
ImplementsIndexer == Abstract!Spec

(* Every block the network produces is eventually crawled, its             *)
(* transactions stored and their events and messages handled.              *)
EventuallyIndexed ==
    \A h \in Heights :
       h <= chain ~> \A j \in Jobs : Due(j, h) => stored[j][h] > 0
=============================================================================
