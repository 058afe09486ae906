------------------------- MODULE MessagePartitions --------------------------
(***************************************************************************)
(* The partitions of transaction_message, by id, which two jobs write:     *)
(* HANDLE_TRANSACTION the messages of the transactions, HANDLE_AUTHZ_TX,   *)
(* behind it, the messages inside those of type authz exec, which have the *)
(* tx_id of their parent.  A job creates the next partition ahead of the   *)
(* rows, another adds a CHECK of tx_id to each: a lower bound while rows   *)
(* go in and both bounds when it is full.                                  *)
(***************************************************************************)
EXTENDS RowWriters

CONSTANT Step   \* migrationTransactionMessageToPartition.step

VARIABLES
    parts,      \* the numbers of the partitions
    check,      \* their constraints
    altering    \* the constraint that the job is about to add

vars == <<writers, parts, check, altering>>

PartOf(id) == id \div Step
Of(k) == {r \in rows : PartOf(r.id) = k}
-----------------------------------------------------------------------------
Init ==
    /\ InitWriters(0, {})
    /\ parts = {0, 1} /\ check = [k \in parts |-> Free] /\ altering = {}

Refused(w) == Refuses(check[PartOf(seq)], NextRow(w), Null)

Write(w) ==
    /\ \/ Insert(w, PartOf(seq) \in parts /\ ~ Refused(w))
       \/ Commit(w) \/ Rollback(w)
    /\ UNCHANGED <<parts, check, altering>>

(* HANDLE_AUTHZ_TX finds nothing in its range of blocks.                   *)
NoAuthz ==
    /\ Due(Follower)
    /\ cp' = [cp EXCEPT ![Follower] = NextHeight(Follower)]
    /\ UNCHANGED <<seq, rows, open, losses, parts, check, altering>>

(* Which partition the latest row calls for: none before half of its own.  *)
CreatePartitionName ==
    IF rows = {} \/ 2 * (Latest % Step) < Step THEN {} ELSE {PartOf(Latest) + 1} \ parts

JobCreateTransactionMessagePartition ==
    \E k \in CreatePartitionName :
        /\ parts' = parts \cup {k}
        /\ check' = [j \in parts' |-> IF j = k THEN Free ELSE check[j]]
        /\ UNCHANGED <<writers, altering>>
-----------------------------------------------------------------------------
GetPartitionInsertionInfo(k) ==
    IF Of(k) = {} THEN "empty"
    ELSE IF Max({r.id : r \in Of(k)}) = (k + 1) * Step - 1 THEN "done" ELSE "inserting"

PrepareConstrainInformation(k) ==
    LET status == GetPartitionInsertionInfo(k)
    IN  /\ altering = {} /\ status # "empty" /\ check[k].kind # "done"
        /\ status = "inserting" => check[k].kind = "none"
        /\ altering' = {[part |-> k, check |-> BoundsOf(status, {Null}, {r.tx : r \in Of(k)})]}
        /\ UNCHANGED <<writers, parts, check>>

(* One transaction drops, adds and validates: it waits for the writers of  *)
(* the partition, and leaves the old constraint when a row is refused.     *)
CreateTransactionMessageConstraint ==
    \E a \in altering :
        /\ \A r \in Uncommitted : PartOf(r.id) # a.part
        /\ altering' = {}
        /\ check' = IF \E r \in Of(a.part) : Refuses(a.check, r, Null) THEN check
                    ELSE [check EXCEPT ![a.part] = a.check]
        /\ UNCHANGED <<writers, parts>>
-----------------------------------------------------------------------------
Next ==
    \/ \E w \in Writers : Write(w)
    \/ NoAuthz
    \/ JobCreateTransactionMessagePartition
    \/ \E k \in parts : PrepareConstrainInformation(k)
    \/ CreateTransactionMessageConstraint

Spec == Init /\ [][Next]_vars
-----------------------------------------------------------------------------
(* The next message of each job has a partition, now or after one run of   *)
(* the job that creates them.  No constraint ever refuses a message of     *)
(* HANDLE_TRANSACTION, and one of HANDLE_AUTHZ_TX in one case only: all of *)
(* the rows of its partition belong to younger transactions, and the lower *)
(* bound of tx_id was taken from them before HANDLE_AUTHZ_TX, behind, had  *)
(* a row there.                                                            *)
MessageRowsAccepted ==
    /\ Near => PartOf(seq) \in parts \cup CreatePartitionName
    /\ \A w \in Writers :
           Due(w) /\ PartOf(seq) \in parts /\ Refused(w) =>
               /\ w = Follower /\ Of(PartOf(seq)) # {}
               /\ \A r \in Of(PartOf(seq)) : r.tx > NextHeight(w)
=============================================================================
