-------------------------- MODULE EventPartitions ---------------------------
(***************************************************************************)
(* The partitions of event, by id: the job that creates the next one ahead *)
(* of the rows, and the job that adds a CHECK of block_height and tx_id to *)
(* each, a lower bound while rows go in and both bounds when it is full.   *)
(***************************************************************************)
EXTENDS RowWriters

CONSTANT Step   \* migrationEventToPartition.step

VARIABLES
    parts,      \* the numbers of the partitions
    check,      \* their constraints
    altering    \* the constraint that the job is about to add

vars == <<writers, parts, check, altering>>

PartOf(id) == id \div Step
Of(k) == {r \in rows : PartOf(r.id) = k}
-----------------------------------------------------------------------------
(* A table that had events when it was partitioned: they were copied, and  *)
(* there are partitions up to the one after the last of them.              *)
Migrated ==
    {[id |-> 1, height |-> 1, tx |-> Null], [id |-> 2, height |-> 1, tx |-> 1]}
CreatePartitionForEventPartition ==
    {k \in 0 .. Cardinality(Migrated) : k * Step < Cardinality(Migrated) + Step}

(* In a fresh database the table is partitioned and has no partition.      *)
Init ==
    /\ \/ InitWriters(0, {}) /\ parts = {}
       \/ InitWriters(1, Migrated) /\ parts = CreatePartitionForEventPartition
    /\ check = [k \in parts |-> Free] /\ altering = {}

Refused(w) == Refuses(check[PartOf(seq)], NextRow(w), NextHeight(w))

Write(w) ==
    /\ \/ Insert(w, PartOf(seq) \in parts /\ ~ Refused(w))
       \/ Commit(w) \/ Rollback(w)
    /\ UNCHANGED <<parts, check, altering>>

(* mutant: none before the row after half of its own                       *)
CreatePartitionNameLate ==
    IF rows = {} \/ 2 * (Latest % Step) <= Step THEN {} ELSE {PartOf(Latest) + 1} \ parts

(* Which partition the latest row calls for: none before half of its own.  *)
CreatePartitionName ==
    IF rows = {} \/ 2 * (Latest % Step) < Step THEN {} ELSE {PartOf(Latest) + 1} \ parts

JobCreateEventPartition ==
    \E k \in CreatePartitionName :
        /\ parts' = parts \cup {k}
        /\ check' = [j \in parts' |-> IF j = k THEN Free ELSE check[j]]
        /\ UNCHANGED <<writers, altering>>
-----------------------------------------------------------------------------
GetPartitionInsertionInfo(k) ==
    IF Of(k) = {} THEN "empty"
    ELSE IF Max({r.id : r \in Of(k)}) = (k + 1) * Step - 1 THEN "done" ELSE "inserting"

(* The upper bounds go with a partition that is done; without an upper     *)
(* tx_id the constraint is created, and named, as one that is inserting.   *)
Bounds(k, status) ==
    LET txs == {r.tx : r \in Of(k)}
    IN  BoundsOf(IF status = "done" /\ txs # {Null} THEN "done" ELSE "inserting",
                 {r.height : r \in Of(k)}, txs)

PrepareConstrainInformation(k) ==
    LET status == GetPartitionInsertionInfo(k)
    IN  /\ altering = {} /\ status # "empty" /\ check[k].kind # "done"
        /\ status = "inserting" => check[k].kind = "none"
        /\ altering' = {[part |-> k, check |-> Bounds(k, status)]}
        /\ UNCHANGED <<writers, parts, check>>

(* One transaction drops, adds and validates: it waits for the writers of  *)
(* the partition, and leaves the old constraint when a row is refused.     *)
CreateConstraint ==
    \E a \in altering :
        /\ \A r \in Uncommitted : PartOf(r.id) # a.part
        /\ altering' = {}
        /\ check' = IF \E r \in Of(a.part) : Refuses(a.check, r, r.height) THEN check
                    ELSE [check EXCEPT ![a.part] = a.check]
        /\ UNCHANGED <<writers, parts>>
-----------------------------------------------------------------------------
Next ==
    \/ \E w \in Writers : Write(w)
    \/ JobCreateEventPartition
    \/ \E k \in parts : PrepareConstrainInformation(k)
    \/ CreateConstraint

Spec == Init /\ [][Next]_vars
-----------------------------------------------------------------------------
(* The next row of each writer is accepted, now or after one run of the    *)
(* job: when its id has no partition, jobCreateEventPartition creates that *)
(* very one, however many ids, up to MaxLost, have no row; a constraint,   *)
(* computed from rows read before, refuses it in one case only: its lower  *)
(* bound of block_height was taken when CRAWL_BLOCK alone had written to   *)
(* the partition, and HANDLE_TRANSACTION, behind, inserts there next.  In  *)
(* a fresh database no row is: the job creates no first partition, for it  *)
(* waits for a first row, which has none.                                  *)
EventRowsAccepted ==
    \/ parts = {} /\ rows = {} /\ CreatePartitionName = {}
    \/ /\ Near => PartOf(seq) \in parts \cup CreatePartitionName
       /\ \A w \in Writers :
              Due(w) /\ PartOf(seq) \in parts /\ Refused(w) =>
                  /\ w = Follower
                  /\ \A r \in Of(PartOf(seq)) : r.tx = Null /\ r.height > NextHeight(w)
=============================================================================
