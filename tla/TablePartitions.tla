-------------------------- MODULE TablePartitions ---------------------------
(***************************************************************************)
(* The tables with one writer that are partitioned by id (block by         *)
(* height): the jobs that create the next partition ahead of the rows, and *)
(* those that add a CHECK to each partition, with lower bounds while rows  *)
(* go in and with both when it is full.  A behaviour is about one table.   *)
(* The writer inserts the rows of one range of blocks in one transaction;  *)
(* what a row refers to (its height, the ids of its transaction, message   *)
(* and EVM transaction) grows from range to range, in any order within: an *)
(* EVM transaction is a message that HANDLE_TRANSACTION wrote, for the     *)
(* chain runs none inside an authz message.                                *)
(***************************************************************************)
EXTENDS Integers, Sequences

CONSTANTS
    Step,       \* the ids of a partition
    Slack,      \* the ids that follow the last row: lost ones and a batch
    Width,      \* the values of a column in one range
    Batches,    \* for each row of a batch, where its columns lie in the range
    TopRange    \* the ranges of a behaviour

VARIABLES
    table,      \* the table
    range,      \* the ranges written, as the writer's checkpoint has it
    seq,        \* the next id; a rollback does not give ids back
    last,       \* the greatest id in the table, 0 when it is empty
    rows, open, \* rows committed and not yet committed: [id, cols]
    parts,      \* the numbers of the partitions
    check,      \* the constraint of each
    queue,      \* the partitions whose constraint job waits
    altering    \* the constraint that a job is about to add

writer == <<table, range, seq, last, rows, open>>
tableVars == <<writer, parts, check, queue, altering>>

Column == {"height", "tx_id", "tx_msg_id", "evm_tx_id"}

ASSUME SizeAssumption ==
    /\ Step \in Nat \ {0} /\ Slack \in Nat /\ 2 * Slack <= Step
    /\ Width \in Nat \ {0} /\ TopRange \in Nat
    /\ Batches \subseteq Seq([Column -> 0 .. Width - 1]) \ {<<>>}

(* The columns that the constraints of a table bound.                      *)
Bounded ==
    [transaction |-> {"height"}, evm_transaction |-> {"tx_id", "tx_msg_id"},
     evm_event |-> {"height", "tx_id", "evm_tx_id"}, block |-> {}]
Tables == DOMAIN Bounded

(* The partitions that the migrations create.                              *)
FirstPartitions == [t \in Tables |-> IF t = "evm_event" THEN {0} ELSE {0, 1}]

PartOf(id) == id \div Step
Of(k) == {r \in rows : PartOf(r.id) = k}

NoBounds == [c \in {} |-> 0]
Free == [kind |-> "none", from |-> NoBounds, to |-> NoBounds]
Refuses(ct, r) ==
    \/ \E c \in DOMAIN ct.from : r.cols[c] < ct.from[c]
    \/ \E c \in DOMAIN ct.to : r.cols[c] > ct.to[c]

(* The rows of the next range.                                             *)
RowsOf(b) ==
    {[id |-> seq + i - 1, cols |-> [c \in Column |-> Width * (range + 1) + b[i][c]]] : i \in DOMAIN b}
Due(b) == open = {} /\ range < TopRange /\ seq - 1 + Len(b) - last <= Slack
-----------------------------------------------------------------------------
TableInit ==
    /\ table \in Tables
    /\ range = 0 /\ seq = 1 /\ last = 0 /\ rows = {} /\ open = {}
    /\ parts = FirstPartitions[table] /\ check = [k \in parts |-> Free]
    /\ queue = {} /\ altering = {}

(* Accepted by a partition, a batch waits for its commit; else it is lost, *)
(* like one that is rolled back, and so are its ids, which are heights in  *)
(* block and taken again.                                                  *)
Insert ==
    /\ \E b \in Batches :
          LET ok == \A r \in RowsOf(b) : PartOf(r.id) \in parts /\ ~ Refuses(check[PartOf(r.id)], r)
          IN  /\ Due(b)
              /\ seq' = IF ok \/ table # "block" THEN seq + Len(b) ELSE seq
              /\ open' = IF ok THEN RowsOf(b) ELSE {}
    /\ UNCHANGED <<table, range, last, rows, parts, check, queue, altering>>

CommitRows ==
    /\ open # {}
    /\ rows' = rows \cup open /\ open' = {}
    /\ last' = seq - 1 /\ range' = range + 1
    /\ UNCHANGED <<table, seq, parts, check, queue, altering>>

Rollback ==
    /\ open # {}
    /\ open' = {} /\ seq' = IF table = "block" THEN last + 1 ELSE seq
    /\ UNCHANGED <<table, range, last, rows, parts, check, queue, altering>>
-----------------------------------------------------------------------------
(* mutant: none at exactly half of the partition                           *)
CreatePartitionNameLate ==
    IF last = 0 \/ 2 * (last % Step) <= Step THEN {} ELSE {PartOf(last) + 1} \ parts

(* Which partition the last row calls for: none before half of its own.    *)
CreatePartitionName ==
    IF last = 0 \/ 2 * (last % Step) < Step THEN {} ELSE {PartOf(last) + 1} \ parts

(* A table and its attachment to the parent, in one transaction.           *)
CreatePartition ==
    \E k \in CreatePartitionName :
        /\ parts' = parts \cup {k}
        /\ check' = [j \in parts' |-> IF j = k THEN Free ELSE check[j]]
        /\ UNCHANGED <<writer, queue, altering>>

JobCreateTransactionPartition == table = "transaction" /\ CreatePartition
JobCreateEVMTransactionPartition == table = "evm_transaction" /\ CreatePartition
JobCreateEvmEventPartition == table = "evm_event" /\ CreatePartition
JobCreateBlockPartition == table = "block" /\ CreatePartition
-----------------------------------------------------------------------------
GetPartitionInsertionInfo(k) ==
    IF Of(k) = {} THEN "empty"
    ELSE IF \E r \in Of(k) : r.id = (k + 1) * Step - 1 THEN "done" ELSE "inserting"

LeastBounds(k, lo) ==
    \A c \in DOMAIN lo :
        (\E r \in Of(k) : r.cols[c] = lo[c]) /\ (\A r \in Of(k) : lo[c] <= r.cols[c])
GreatestBounds(k, hi) ==
    \A c \in DOMAIN hi :
        (\E r \in Of(k) : r.cols[c] = hi[c]) /\ (\A r \in Of(k) : r.cols[c] <= hi[c])
Bounds(k, columns) == [columns -> UNION {{r.cols[c] : c \in columns} : r \in Of(k)}]

(* A job of the queue looks at its partition and computes the bounds, or   *)
(* has nothing to do.                                                      *)
Prepare(k, needed, columns) ==
    /\ k \in queue /\ altering = {}
    /\ queue' = queue \ {k}
    /\ \/ ~ needed /\ UNCHANGED altering
       \/ /\ needed
          /\ \E lo \in Bounds(k, columns) : LeastBounds(k, lo) /\
                \E hi \in Bounds(k, columns) : GreatestBounds(k, hi) /\
                   altering' = {[part |-> k, kind |-> GetPartitionInsertionInfo(k),
                                 from |-> lo, to |-> hi]}
    /\ UNCHANGED <<writer, parts, check>>

(* Nothing to do for an empty partition, for one with rows going in that   *)
(* has a constraint, and for one whose constraint says that it is done.    *)
PrepareTransaction(k) ==
    /\ table = "transaction"
    /\ LET status == GetPartitionInsertionInfo(k)
       IN  Prepare(k, /\ status # "empty"
                      /\ status = "inserting" => check[k].kind = "none"
                      /\ check[k].kind # "done", {"height"})

PrepareEVMTransaction(k) ==
    /\ table = "evm_transaction"
    /\ LET status == GetPartitionInsertionInfo(k)
       IN  Prepare(k, \/ status = "inserting" /\ check[k].kind = "none"
                      \/ status = "done" /\ check[k].kind # "done", {"tx_id", "tx_msg_id"})

PrepareEvmEvent(k) ==
    /\ table = "evm_event"
    /\ LET status == GetPartitionInsertionInfo(k)
       IN  Prepare(k, /\ status # "empty"
                      /\ status = "inserting" => check[k].kind = "none"
                      /\ check[k].kind # "done", {"height"})

(* The bounds of evm_event's other columns are read later, on their own.   *)
And(f, g) == [c \in DOMAIN f \cup DOMAIN g |-> IF c \in DOMAIN g THEN g[c] ELSE f[c]]
GetMaxMinTxIdAndEvmTxId ==
    /\ table = "evm_event"
    /\ \E a \in altering :
          /\ DOMAIN a.from = {"height"}
          /\ \E lo \in Bounds(a.part, {"tx_id", "evm_tx_id"}) : LeastBounds(a.part, lo) /\
                \E hi \in Bounds(a.part, {"tx_id", "evm_tx_id"}) : GreatestBounds(a.part, hi) /\
                   altering' = {[part |-> a.part, kind |-> a.kind,
                                 from |-> And(a.from, lo), to |-> And(a.to, hi)]}
    /\ UNCHANGED <<writer, parts, check, queue>>

Constraint(a) ==
    [kind |-> a.kind, from |-> a.from, to |-> IF a.kind = "done" THEN a.to ELSE NoBounds]

(* One transaction drops, adds and validates: it waits for the writer of   *)
(* the partition, and leaves the old constraint when a row is refused.     *)
Alter ==
    \E a \in altering :
        /\ DOMAIN a.from = Bounded[table]
        /\ \A r \in open : PartOf(r.id) # a.part
        /\ check' = IF \E r \in Of(a.part) : Refuses(Constraint(a), r) THEN check
                    ELSE [check EXCEPT ![a.part] = Constraint(a)]
        /\ altering' = {}
        /\ UNCHANGED <<writer, parts, queue>>

CreateTransactionConstraint == table = "transaction" /\ Alter
CreateEVMTransactionConstraint == table = "evm_transaction" /\ Alter
CreateEvmEventConstraint == table = "evm_event" /\ Alter

(* One job for each partition that has none; its name is its id.           *)
QueueJobs ==
    /\ queue' = queue \cup {k \in parts : \A a \in altering : a.part # k}
    /\ UNCHANGED <<writer, parts, check, altering>>

CheckTransactionConstraint == table = "transaction" /\ QueueJobs
CheckEVMTransactionConstraint == table = "evm_transaction" /\ QueueJobs
CheckEvmEventConstraint == table = "evm_event" /\ QueueJobs
-----------------------------------------------------------------------------
TableNext ==
    \/ Insert \/ CommitRows \/ Rollback
    \/ JobCreateTransactionPartition \/ JobCreateEVMTransactionPartition
    \/ JobCreateEvmEventPartition \/ JobCreateBlockPartition
    \/ \E k \in queue : PrepareTransaction(k) \/ PrepareEVMTransaction(k) \/ PrepareEvmEvent(k)
    \/ GetMaxMinTxIdAndEvmTxId
    \/ CreateTransactionConstraint \/ CreateEVMTransactionConstraint \/ CreateEvmEventConstraint
    \/ CheckTransactionConstraint \/ CheckEVMTransactionConstraint \/ CheckEvmEventConstraint

TableSpec == TableInit /\ [][TableNext]_tableVars
-----------------------------------------------------------------------------
(* Every row of the next range is accepted, now or after one run of the    *)
(* job that creates partitions: when its id has none, the job creates that *)
(* very one, however many ids were lost; and no constraint refuses it,     *)
(* although its bounds come from rows read earlier, in two parts for       *)
(* evm_event.  Nor does a constraint about to be added refuse a row that   *)
(* has come in since.                                                      *)
TableRowsAccepted ==
    /\ \A b \in Batches : Due(b) =>
          \A r \in RowsOf(b) :
              /\ PartOf(r.id) \in parts \cup CreatePartitionName
              /\ PartOf(r.id) \in parts => ~ Refuses(check[PartOf(r.id)], r)
    /\ \A a \in altering : \A r \in rows \cup open :
          PartOf(r.id) = a.part => ~ Refuses(Constraint(a), r)
=============================================================================
