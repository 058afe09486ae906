--------------------------- MODULE AttrPartitions ---------------------------
(***************************************************************************)
(* The partitions of event_attribute, by height: the check that queues the *)
(* creation of the next one, the job that creates it, and the jobs that    *)
(* add a CHECK of event_id and tx_id to each.                              *)
(***************************************************************************)
EXTENDS RowWriters

CONSTANTS
    Ahead,      \* jobCheckNeedCreateEventAttributePartition.range
    AttrStep,   \* jobCheckNeedCreateEventAttributePartition.step
    Failures    \* how many attempts of a creation may fail

VARIABLES
    attrCp,     \* block_checkpoint of JOB_CREATE_EVENT_ATTR_PARTITION
    attrParts,  \* the lower bounds of the partitions
    attrCheck,  \* their constraints
    creating,   \* queued jobs that create a partition: lower bounds
    statuses,   \* queued jobs that constrain one: lower bound |-> status
    adding,     \* the constraint that a job is about to add
    failures    \* the attempts that failed

attrs == <<attrCp, attrParts, attrCheck, creating, statuses, adding, failures>>
vars == <<writers, attrs>>

AttrPartOf(h) == (h \div AttrStep) * AttrStep
AttrOf(p) == {r \in rows : AttrPartOf(r.height) = p}
-----------------------------------------------------------------------------
Init ==
    /\ InitWriters(0, {})
    /\ attrCp = AttrStep /\ attrParts = {0} /\ attrCheck = [p \in {0} |-> Free]
    /\ creating = {} /\ statuses = <<>> /\ adding = {} /\ failures = 0

AttrRefused(w) == Refuses(attrCheck[AttrPartOf(NextHeight(w))], NextRow(w), seq)

AttrWrite(w) ==
    /\ \/ Insert(w, AttrPartOf(NextHeight(w)) \in attrParts /\ ~ AttrRefused(w))
       \/ Commit(w) \/ Rollback(w)
    /\ UNCHANGED attrs

JobCheckIfNeedCreateEventAttrPartition ==
    /\ cp[Leader] + Ahead >= attrCp
    /\ attrCp <= Top
    /\ creating' = creating \cup {attrCp}
    /\ UNCHANGED <<writers, attrCp, attrParts, attrCheck, statuses, adding, failures>>

(* A second job for the same heights fails, the table being there.         *)
JobCreateEventAttrPartition ==
    \E p \in creating :
        /\ creating' = creating \ {p}
        /\ attrParts' = attrParts \cup {p}
        /\ attrCheck' = [q \in attrParts' |-> IF q \in attrParts THEN attrCheck[q] ELSE Free]
        /\ attrCp' = IF p \in attrParts THEN attrCp ELSE p + AttrStep
        /\ UNCHANGED <<writers, statuses, adding, failures>>

(* The checkpoint is updated outside the transaction that creates the      *)
(* table.  A job that fails, in the commit or before, is tried again, and  *)
(* given up after the last attempt.                                        *)
CreationFails ==
    \E p \in creating \ attrParts :
        /\ failures < Failures /\ failures' = failures + 1
        /\ attrCp' \in {attrCp, p + AttrStep}
        /\ creating' \in {creating, creating \ {p}}
        /\ UNCHANGED <<writers, attrParts, attrCheck, statuses, adding>>
-----------------------------------------------------------------------------
(* mutant: a partition is done when CRAWL_BLOCK is past it                 *)
StatusDoneEarly(p) ==
    IF cp[Follower] < p THEN "waiting" ELSE IF cp[Leader] > p + AttrStep THEN "done" ELSE "running"

AddStatusToPartition(p) ==
    IF cp[Follower] >= p /\ cp[Follower] < p + AttrStep THEN "running"
    ELSE IF cp[Follower] > p + AttrStep THEN "done" ELSE "waiting"

(* One job for each partition; a queued one, having its id, is kept.       *)
CreateConstraintInAttrPartition ==
    /\ DOMAIN statuses # attrParts
    /\ statuses' = [p \in attrParts |->
                        IF p \in DOMAIN statuses THEN statuses[p] ELSE AddStatusToPartition(p)]
    /\ UNCHANGED <<writers, attrCp, attrParts, attrCheck, creating, adding, failures>>

(* A job looks at the constraint and the rows of its partition: it adds a  *)
(* lower bound while the partition is running, both when it is done.       *)
ReadBoundaries ==
    \E p \in DOMAIN statuses :
        LET old == attrCheck[p].kind
            new == BoundsOf(IF statuses[p] = "done" THEN "done" ELSE "inserting",
                            {r.id : r \in AttrOf(p)}, {r.tx : r \in AttrOf(p)})
            adds == /\ old # "done" /\ AttrOf(p) # {}
                    /\ statuses[p] = "done" \/ (statuses[p] = "running" /\ old = "none")
        IN  /\ adding = {}
            /\ statuses' = [q \in DOMAIN statuses \ {p} |-> statuses[q]]
            /\ \/ adds /\ adding' = {[part |-> p, check |-> new]}
               \/ ~ adds /\ UNCHANGED adding
            /\ UNCHANGED <<writers, attrCp, attrParts, attrCheck, creating, failures>>

(* It waits for the writers of the partition.  One transaction replaces a  *)
(* constraint, unless a row is refused; a first one is added on its own    *)
(* and holds for new rows even when its validation is refused by a row     *)
(* that has come in since.                                                 *)
CreateConstraintInPartition ==
    \E a \in adding :
        LET kept == \/ attrCheck[a.part].kind = "none"
                    \/ \A r \in AttrOf(a.part) : ~ Refuses(a.check, r, r.id)
        IN  /\ \A r \in Uncommitted : AttrPartOf(r.height) # a.part
            /\ attrCheck' = IF kept THEN [attrCheck EXCEPT ![a.part] = a.check] ELSE attrCheck
            /\ adding' = {}
            /\ UNCHANGED <<writers, attrCp, attrParts, creating, statuses, failures>>
-----------------------------------------------------------------------------
Next ==
    \/ \E w \in Writers : AttrWrite(w)
    \/ JobCheckIfNeedCreateEventAttrPartition
    \/ JobCreateEventAttrPartition \/ CreationFails
    \/ CreateConstraintInAttrPartition \/ ReadBoundaries \/ CreateConstraintInPartition

Spec == Init /\ [][Next]_vars
-----------------------------------------------------------------------------
(* The next row of each writer is accepted, now or after one run of the    *)
(* jobs: no constraint refuses it, though its kind comes from a status     *)
(* read before, and its bounds from rows read before; and when its height  *)
(* has no partition, a job that creates it is queued or the check queues   *)
(* one.  The exceptions follow a failed creation that had moved the        *)
(* checkpoint: given up, its partition is passed over for good; tried      *)
(* again after the creation of the next one, it sets the checkpoint back   *)
(* to one that exists, and no other is created any more.                   *)
AttrRowsAccepted ==
    \A w \in Writers : LET p == AttrPartOf(NextHeight(w)) IN
        /\ Due(w) /\ p \in attrParts => ~ AttrRefused(w)
        /\ Due(w) /\ p \notin attrParts \cup creating =>
               \/ p = attrCp /\ cp[Leader] + Ahead >= attrCp
               \/ failures > 0 /\ (attrCp \in attrParts \/ p < attrCp)
=============================================================================
