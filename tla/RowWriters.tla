----------------------------- MODULE RowWriters -----------------------------
(***************************************************************************)
(* The two jobs that insert into one table concurrently: CRAWL_BLOCK       *)
(* ("block") and, behind it, HANDLE_TRANSACTION ("tx") into event and      *)
(* event_attribute; HANDLE_TRANSACTION and, behind it, HANDLE_AUTHZ_TX     *)
(* ("authz") into transaction_message.  Each inserts one row for a height, *)
(* whose transaction has the height as its id.  An insertion takes its id  *)
(* from a sequence, which a rollback does not give back, and locks the     *)
(* partition of its row until it commits.  Constraints are CHECKs.         *)
(***************************************************************************)
EXTENDS Integers, FiniteSets, FiniteSetsExt

CONSTANTS
    Leader,     \* the job that is ahead
    Follower,   \* the one behind, which waits for the leader's checkpoint
    Top,        \* the last height of a behaviour
    MaxLost,    \* how far the sequence may run ahead of the last row
    Losses      \* how many insertions of a behaviour may roll back

VARIABLES
    cp,         \* block_checkpoint of the two jobs
    seq,        \* the next id
    rows,       \* committed rows: [id, height, tx]
    open,       \* the rows that each writer has inserted and not committed
    losses      \* the insertions that rolled back

writers == <<cp, seq, rows, open, losses>>

Writers == {Leader, Follower}
Null == 0       \* the tx_id of an event of a block
Free == [kind |-> "none"]
Uncommitted == UNION {open[w] : w \in Writers}
Latest == Max({r.id : r \in rows} \cup {0})

(* A CHECK refuses a row when it is false: a comparison with NULL is not.  *)
(* x is the column that is bounded besides tx_id.                          *)
Below(x, bound) == x # Null /\ bound # Null /\ x < bound
Refuses(check, r, x) ==
    \/ check.kind # "none" /\ (Below(x, check.from) \/ Below(r.tx, check.fromTx))
    \/ check.kind = "done" /\ (Below(check.to, x) \/ Below(check.toTx, r.tx))

Lowest(S) == Min(S \cup (IF S = {} THEN {Null} ELSE {}))
Highest(S) == Max(S \cup {Null})
BoundsOf(kind, xs, txs) ==
    [kind |-> kind, from |-> Min(xs), to |-> Max(xs),
     fromTx |-> Lowest(txs \ {Null}), toTx |-> Highest(txs)]
-----------------------------------------------------------------------------
NextHeight(w) == cp[w] + 1
NextRow(w) ==
    [id |-> seq, height |-> NextHeight(w), tx |-> IF w = "block" THEN Null ELSE NextHeight(w)]
Due(w) == open[w] = {} /\ NextHeight(w) <= IF w = Follower THEN cp[Leader] ELSE Top

Near == seq - Latest <= MaxLost

(* The rows of the first heights are there already.                        *)
InitWriters(height, old) ==
    /\ cp = [w \in Writers |-> height]
    /\ rows = old /\ seq = Cardinality(old) + 1
    /\ open = [w \in Writers |-> {}] /\ losses = 0

Lose == losses < Losses /\ losses' = losses + 1

(* The insertion of the next height; refused, it rolls back at once.       *)
Insert(w, accepted) ==
    /\ Due(w) /\ Near
    /\ seq' = seq + 1
    /\ \/ accepted /\ open' = [open EXCEPT ![w] = {NextRow(w)}] /\ UNCHANGED losses
       \/ ~ accepted /\ Lose /\ UNCHANGED open
    /\ UNCHANGED <<cp, rows>>

Commit(w) ==
    /\ open[w] # {}
    /\ rows' = rows \cup open[w]
    /\ open' = [open EXCEPT ![w] = {}]
    /\ cp' = [cp EXCEPT ![w] = @ + 1]
    /\ UNCHANGED <<seq, losses>>

Rollback(w) ==
    /\ open[w] # {} /\ Lose
    /\ open' = [open EXCEPT ![w] = {}]
    /\ UNCHANGED <<cp, seq, rows>>
=============================================================================
