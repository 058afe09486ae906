-------------------------------- MODULE Cw20 --------------------------------
(***************************************************************************)
(* The balances and the history of one CW20 contract.                      *)
(*                                                                         *)
(* HANDLE_CW20 walks the contract events block range by block range.  The  *)
(* range that holds the instantiation takes a snapshot of all balances     *)
(* from the node, which is usually far ahead of the range.  Every range    *)
(* stores its events in cw20_activity, and after the commit asks for a     *)
(* CW20_UPDATE_BY_CONTRACT job that will add the stored events above the   *)
(* snapshot to the balances.  REINDEX_CW20_CONTRACT throws everything away *)
(* and starts again from a new snapshot; REINDEX_CW20_HISTORY then walks   *)
(* the old events page by page.                                            *)
(*                                                                         *)
(* The instantiation is the first event, and moves nothing.                *)
(***************************************************************************)
EXTENDS TokenChain

CONSTANTS
    BlocksPerCall,   \* config.cw20.blocksPerCall
    BlocksPerDay,    \* the blocks of one day
    Page,            \* config.cw20.reindexHistory.limitRecordGet
    Attempts,        \* config.jobRetryAttempt
    Reindexes,       \* bound: reindexings of the contract
    MaxFaults        \* bound: faults that nobody has repaired

ASSUME Cw20Assumption == BlocksPerCall \in Nat \ {0} /\ Page \in Nat \ {0}

VARIABLES
    crawled,    \* block_checkpoint of CRAWL_CONTRACT_EVENT
    cp,         \* block_checkpoint of HANDLE_CW20
    contract,   \* the row of cw20_contract, or NoContract
    holders,    \* the rows of cw20_holder, by address
    activity,   \* the rows of cw20_activity: event ids, in order of insertion
    stats,      \* the days with rows in cw20_total_holder_stats
    job,        \* HANDLE_CW20: what it does and on which range
    wait,       \* the queue of CW20_UPDATE_BY_CONTRACT, first in first out
    delayed,    \* ... its failed jobs that wait for their next attempt
    reindex,    \* the job REINDEX_CW20_CONTRACT, by its jobId
    walk,       \* the job REINDEX_CW20_HISTORY, or NoWalk
    faults,     \* what went wrong since the contract row was written
    reindexed   \* the checkpoint at each reindexing

node == <<head, events, crawled>>
rows == <<contract, holders, activity>>
queue == <<wait, delayed>>
reindexing == <<reindex, walk, reindexed>>
vars == <<node, cp, rows, stats, job, queue, reindexing, faults>>

NoContract == [id |-> -1]
NoWalk == [prevId |-> -1, endBlock |-> -1]
Idle == [pc |-> "idle", start |-> 0, end |-> 0]
NoReindex == [pc |-> "none", min |-> 0, max |-> 0, answer |-> <<>>]

Instantiate == [from |-> None, to |-> None]
(* The accounts that all_accounts lists after block h.                     *)
Listed(h) ==
    {a \in Addr : Initial[a] > 0 \/ \E i \in DOMAIN events : events[i].height <= h /\ events[i].to = a}

Tracked == contract # NoContract /\ contract.track
Holdings(hs) == FoldSet(LAMBDA a, sum : sum + hs[a].amount, 0, DOMAIN hs)
Lowest(hs) == IF DOMAIN hs = {} THEN 0 ELSE Min({hs[a].last : a \in DOMAIN hs})
Highest(hs) == IF DOMAIN hs = {} THEN 0 ELSE Max({hs[a].last : a \in DOMAIN hs})

(* The events of the blocks (lo, hi] that are in smart_contract_event.     *)
EventIds(lo, hi) == InBlocks(lo, SmallerOf(hi, crawled))
-----------------------------------------------------------------------------
Init ==
    /\ head = StartBlock /\ events = <<>> /\ crawled = StartBlock /\ cp = NoRow
    /\ contract = NoContract /\ holders = <<>> /\ activity = <<>> /\ stats = {}
    /\ job = Idle /\ wait = <<>> /\ delayed = <<>>
    /\ reindex = NoReindex /\ walk = NoWalk /\ reindexed = <<>>
    /\ faults = {}

(* The chain grows; the contract is instantiated in its first block.       *)
NewBlock ==
    /\ Grow(<<Instantiate>>)
    /\ UNCHANGED <<crawled, cp, rows, stats, job, queue, reindexing, faults>>

CrawlContractEvent ==
    /\ crawled < head
    /\ crawled' = crawled + 1
    /\ UNCHANGED <<head, events, cp, rows, stats, job, queue, reindexing, faults>>
-----------------------------------------------------------------------------
(* getInstantiateBalances: the list of accounts is read at height l, the   *)
(* balance of each account a at a height at[a] of its own, not before l.   *)
(* An error of the node leaves the contract untracked, with no holder.     *)
(* reach is the latest height that was read.                               *)
Snapshot(at) == [a \in DOMAIN at |-> [amount |-> Balance(a, at[a]), last |-> at[a]]]

Read(l, at) ==
    [track |-> TRUE, holders |-> Snapshot(at), reach |-> Max({l} \cup Range(at)),
     faults |-> IF \A a \in DOMAIN at : at[a] = l THEN {} ELSE {"uneven"}]

Unread == [track |-> FALSE, holders |-> <<>>, reach |-> 0, faults |-> {}]

Answers ==
    {Unread} \cup UNION {{Read(l, at) : at \in [Listed(l) -> l .. head]} : l \in crawled .. head}

(* mutant: the contract is to be updated from the block of the snapshot on *)
InsertContractEarly(id, answer) ==
    /\ contract' = [id |-> id, track |-> answer.track, supply |-> Holdings(answer.holders),
                    last |-> Lowest(answer.holders) - 1]
    /\ holders' = answer.holders

InsertContract(id, answer) ==
    /\ contract' = [id |-> id, track |-> answer.track, supply |-> Holdings(answer.holders),
                    last |-> Lowest(answer.holders)]
    /\ holders' = answer.holders

(* handleCw20Instantiate: both in the transaction of HANDLE_CW20.  A       *)
(* second row for the contract is refused.                                 *)
HandleCw20Instantiate ==
    /\ contract = NoContract
    /\ \E answer \in Answers : InsertContract(0, answer) /\ faults' = answer.faults

(* UpdateByContract: a job for the part of the range above the snapshot.   *)
UpdateByContract(c, lo, hi) ==
    LET start == IF lo >= c.last THEN lo ELSE c.last
    IN  wait' = IF start < hi
                THEN Append(wait, [id |-> c.id, startBlock |-> start, endBlock |-> hi, tries |-> 0])
                ELSE wait
-----------------------------------------------------------------------------
(* HANDLE_CW20.  The statistics of the day come first, whatever the range. *)
Day(h) == h \div BlocksPerDay

HandleStatistic(start) ==
    stats' = IF /\ \A d \in stats : d < Day(start)
                /\ Tracked
                /\ \E a \in DOMAIN holders : holders[a].amount > 0
             THEN stats \cup {Day(start)} ELSE stats

HandleStart ==
    LET start == StartHeight(cp)
        end == EndHeight(start, crawled, BlocksPerCall)
    IN  /\ job.pc = "idle"
        /\ HandleStatistic(start)
        /\ job' = IF start >= end THEN job ELSE [pc |-> "commit", start |-> start, end |-> end]
        /\ UNCHANGED <<node, cp, rows, queue, reindexing, faults>>

(* handleCw20Histories looks the contract up by its address.               *)
HandleCw20Histories(ids, tracked) ==
    activity' = IF tracked THEN activity \o InOrder(ids) ELSE activity

(* mutant: the checkpoint of an empty range stays behind                   *)
HandleCommitLate ==
    LET ids == EventIds(job.start, job.end)
    IN  /\ job.pc = "commit"
        /\ IF 1 \in ids
           THEN HandleCw20Instantiate
           ELSE UNCHANGED <<contract, holders, faults>>
        /\ HandleCw20Histories(ids, contract' # NoContract /\ contract'.track)
        /\ cp' = job.start
        /\ job' = [job EXCEPT !.pc = "call"]
        /\ UNCHANGED <<node, stats, queue, reindexing>>

(* One transaction: the instantiation, if the range has it, the histories  *)
(* and the checkpoint.                                                     *)
HandleCommit ==
    LET ids == EventIds(job.start, job.end)
    IN  /\ job.pc = "commit"
        /\ IF 1 \in ids
           THEN HandleCw20Instantiate
           ELSE UNCHANGED <<contract, holders, faults>>
        /\ HandleCw20Histories(ids, contract' # NoContract /\ contract'.track)
        /\ cp' = job.end
        /\ job' = [job EXCEPT !.pc = "call"]
        /\ UNCHANGED <<node, stats, queue, reindexing>>

(* After the commit: the contracts of the range's events are updated.      *)
HandleCall ==
    /\ job.pc = "call"
    /\ IF Tracked /\ EventIds(job.start, job.end) # {}
       THEN UpdateByContract(contract, job.start, job.end) ELSE UNCHANGED wait
    /\ job' = Idle
    /\ UNCHANGED <<node, cp, rows, stats, delayed, reindexing, faults>>

(* The job ends early; after the commit nobody repeats the call.           *)
HandleAbort ==
    /\ job.pc # "idle"
    /\ job.pc = "call" => Cardinality(faults) < MaxFaults
    /\ job' = Idle
    /\ faults' = IF job.pc = "call" THEN faults \cup {"lost"} ELSE faults
    /\ UNCHANGED <<node, cp, rows, stats, queue, reindexing>>
-----------------------------------------------------------------------------
(* CW20_UPDATE_BY_CONTRACT.  updateBalanceHolders applies the rows of      *)
(* cw20_activity in the order of their ids.  acc.ok turns FALSE where the  *)
(* code dereferences a sender that has no row.                             *)
Moved(hs, a, amount, height) ==
    [x \in DOMAIN hs \cup {a} |->
        IF x # a THEN hs[x]
        ELSE [amount |-> (IF a \in DOMAIN hs THEN hs[a].amount ELSE 0) + amount, last |-> height]]

(* mutant: the supply follows mints and burns, whatever balances they meet *)
ApplyEventSupply(acc, e) ==
    LET newer(hs, a) == IF a \in DOMAIN hs THEN e.height >= hs[a].last ELSE TRUE
        afterFrom ==
            IF e.from = None THEN acc
            ELSE IF e.from \notin DOMAIN acc.holders THEN [acc EXCEPT !.ok = FALSE]
            ELSE IF ~ newer(acc.holders, e.from) THEN acc
            ELSE [acc EXCEPT !.holders = Moved(@, e.from, -1, e.height)]
        afterTo ==
            IF e.to = None \/ ~ newer(afterFrom.holders, e.to) THEN afterFrom
            ELSE [afterFrom EXCEPT !.holders = Moved(@, e.to, 1, e.height)]
    IN  [afterTo EXCEPT !.add = IF e.from = None THEN @ + 1
                                ELSE IF e.to = None THEN @ - 1 ELSE @]

ApplyEvent(acc, e) ==
    LET newer(hs, a) == IF a \in DOMAIN hs THEN e.height >= hs[a].last ELSE TRUE
        afterFrom ==
            IF e.from = None THEN acc
            ELSE IF e.from \notin DOMAIN acc.holders THEN [acc EXCEPT !.ok = FALSE]
            ELSE IF ~ newer(acc.holders, e.from) THEN acc
            ELSE [acc EXCEPT !.holders = Moved(@, e.from, -1, e.height), !.add = @ - 1]
    IN  IF e.to = None \/ ~ newer(afterFrom.holders, e.to) THEN afterFrom
        ELSE [afterFrom EXCEPT !.holders = Moved(@, e.to, 1, e.height), !.add = @ + 1]

ActivityOf(j) ==
    IF contract = NoContract \/ contract.id # j.id THEN <<>>
    ELSE Those(activity, InBlocks(j.startBlock, j.endBlock))

Updated(j) ==
    Fold(LAMBDA acc, i : IF acc.ok THEN ApplyEvent(acc, events[i]) ELSE acc,
         [holders |-> holders, add |-> 0, ok |-> TRUE], ActivityOf(j))

(* The transaction of the first job.  If the worker dies before it reports *)
(* the end of the job (~ acked), the queue hands the job out again.        *)
UpdateRun(acked) ==
    LET j == Head(wait)
        u == Updated(j)
        behind == {d \in Range(Tail(wait)) \cup Range(delayed) :
                      d.id = j.id /\ d.startBlock < j.startBlock}
    IN  /\ wait # <<>> /\ u.ok
        /\ IF ActivityOf(j) = <<>> THEN UNCHANGED <<contract, holders>>
           ELSE /\ contract' = [contract EXCEPT !.supply = @ + u.add, !.last = j.endBlock]
                /\ holders' = u.holders
        /\ wait' = IF acked THEN Tail(wait) ELSE wait
        /\ acked \/ Cardinality(faults) < MaxFaults
        /\ faults' = faults \cup (IF acked THEN {} ELSE {"redelivered"})
                            \cup (IF behind = {} THEN {} ELSE {"overtaken"})
        /\ UNCHANGED <<node, cp, activity, stats, job, delayed, reindexing>>

(* An error, among them the missing sender: the job is tried again later,  *)
(* behind the jobs that are waiting by then, until its attempts are spent. *)
UpdateFail ==
    LET j == [Head(wait) EXCEPT !.tries = @ + 1]
    IN  /\ wait # <<>>
        /\ wait' = Tail(wait)
        /\ IF j.tries < Attempts
           THEN delayed' = Append(delayed, j) /\ UNCHANGED faults
           ELSE UNCHANGED delayed /\ faults' = faults \cup {"spent"}
        /\ UNCHANGED <<node, cp, rows, stats, job, reindexing>>

UpdateRetry ==
    \E k \in DOMAIN delayed :
        /\ delayed' = SubSeq(delayed, 1, k - 1) \o SubSeq(delayed, k + 1, Len(delayed))
        /\ wait' = Append(wait, delayed[k])
        /\ UNCHANGED <<node, cp, rows, stats, job, reindexing, faults>>
-----------------------------------------------------------------------------
(* REINDEX_CW20_CONTRACT.  The jobId is the address of the contract, so a  *)
(* second request is dropped until somebody removes the first job, which   *)
(* only the end of the history walk does.                                  *)
ReindexRequest ==
    /\ reindex.pc = "none"
    /\ Len(reindexed) < Reindexes /\ 1 \in EventIds(StartBlock, crawled)
    /\ reindex' = [reindex EXCEPT !.pc = "queued"]
    /\ UNCHANGED <<node, cp, rows, stats, job, queue, walk, reindexed, faults>>

(* The job looks the contract up and asks the node, before it begins ...   *)
ReindexQuery ==
    /\ reindex.pc = "queued"
    /\ \E answer \in Answers :
          reindex' = [pc |-> IF contract = NoContract THEN "unknown" ELSE "known",
                      min |-> Lowest(answer.holders), max |-> Highest(answer.holders),
                      answer |-> answer]
    /\ UNCHANGED <<node, cp, rows, stats, job, queue, walk, reindexed, faults>>

(* ... its one transaction: the old rows go, a row with a new id comes.    *)
(* The foreign keys to the contract and its unique address undo it when    *)
(* somebody else wrote a row in the middle or, since the lookup, the       *)
(* contract itself.  What HANDLE_CW20 has handled above the heights of the *)
(* answer goes with the old rows, and nobody writes it again ("gap").      *)
ReindexCommit ==
    /\ reindex.pc = IF contract = NoContract THEN "unknown" ELSE "known"
    /\ InsertContract(Len(reindexed) + 1, reindex.answer)
    /\ faults' = reindex.answer.faults \cup
                    IF InBlocks(reindex.answer.reach, StartHeight(cp)) = {} THEN {} ELSE {"gap"}
    /\ activity' = <<>>
    /\ stats' = IF contract = NoContract THEN stats ELSE {}
    /\ reindex' = [NoReindex EXCEPT !.pc = "committed", !.min = reindex.min, !.max = reindex.max]
    /\ reindexed' = Append(reindexed, StartHeight(cp))
    /\ UNCHANGED <<node, cp, job, queue, walk>>

(* After it, the two follow-up jobs, from the heights of the snapshot.     *)
ReindexFollow ==
    /\ reindex.pc = "committed"
    /\ UpdateByContract([id |-> contract.id, last |-> reindex.min], reindex.min, reindex.max)
    /\ walk' = [prevId |-> 0, endBlock |-> reindex.max]
    /\ reindex' = [NoReindex EXCEPT !.pc = "done"]
    /\ UNCHANGED <<node, cp, rows, stats, job, delayed, reindexed, faults>>

(* A failed job keeps its jobId; no attempt is left.                       *)
ReindexFail ==
    /\ reindex.pc \in {"queued", "unknown", "known", "committed"}
    /\ reindex' = [NoReindex EXCEPT !.pc = "failed"]
    /\ UNCHANGED <<node, cp, rows, stats, job, queue, walk, reindexed, faults>>

(* mutant: a page starts after the event that follows the page before      *)
NextPageSkips ==
    LET due == {i \in EventIds(StartBlock, walk.endBlock) : i > walk.prevId + 1}
    IN  {i \in due : Cardinality({k \in due : k < i}) < Page}

(* REINDEX_CW20_HISTORY: the next page of stored events ...                *)
NextPage ==
    LET due == {i \in EventIds(StartBlock, walk.endBlock) : i > walk.prevId}
    IN  {i \in due : Cardinality({k \in due : k < i}) < Page}

(* ... is inserted, and a job for the page after it is made; a worker that *)
(* dies in between (~ acked) repeats the page.                             *)
HistoryPage(acked) ==
    /\ walk # NoWalk /\ NextPage # {}
    /\ HandleCw20Histories(NextPage, Tracked)
    /\ walk' = IF acked THEN [walk EXCEPT !.prevId = Max(NextPage)] ELSE walk
    /\ acked \/ Cardinality(faults) < MaxFaults
    /\ faults' = IF acked THEN faults ELSE faults \cup {"redelivered"}
    /\ UNCHANGED <<node, cp, contract, holders, stats, job, queue, reindex, reindexed>>

HistoryEnd ==
    /\ walk # NoWalk /\ NextPage = {}
    /\ walk' = NoWalk
    /\ reindex' = NoReindex
    /\ UNCHANGED <<node, cp, rows, stats, job, queue, reindexed, faults>>

(* The job has no second attempt: the walk stops, the jobId stays.         *)
HistoryFail ==
    /\ walk # NoWalk
    /\ walk' = NoWalk
    /\ UNCHANGED <<node, cp, rows, stats, job, queue, reindex, reindexed, faults>>
-----------------------------------------------------------------------------
Next ==
    \/ NewBlock \/ CrawlContractEvent
    \/ HandleStart \/ HandleCommit \/ HandleCall \/ HandleAbort
    \/ \E acked \in BOOLEAN : UpdateRun(acked) \/ HistoryPage(acked)
    \/ UpdateFail \/ UpdateRetry
    \/ ReindexRequest \/ ReindexQuery \/ ReindexCommit \/ ReindexFollow \/ ReindexFail
    \/ HistoryEnd \/ HistoryFail

Spec == Init /\ [][Next]_vars
-----------------------------------------------------------------------------
(* Properties                                                              *)

(* The total supply of a contract is the sum of the balances of its        *)
(* holders, through every lost, repeated or overtaken job.                 *)
SupplyIsHoldings == contract # NoContract => contract.supply = Holdings(holders)

(* If nothing went wrong with or since the writing of the contract row     *)
(* (all balances were read at one height, no event was handled between the *)
(* snapshot of a reindexing and its transaction, no call to                *)
(* UpdateByContract was lost, no job was repeated, overtaken or given up), *)
(* then the balances at rest are those of the chain after one block, at or *)
(* above the checkpoint.                                                   *)
BalancesOfOneBlock ==
    Tracked /\ faults = {} /\ job = Idle /\ wait = <<>> /\ delayed = <<>> =>
        \E h \in cp .. head : \A a \in Addr :
            Balance(a, h) = IF a \in DOMAIN holders THEN holders[a].amount ELSE 0

Rows(i) == Cardinality({k \in DOMAIN activity : activity[k] = i})

(* The history of a tracked contract has every move up to the checkpoint,  *)
(* also after a reindexing whose walk came to its end, unless an event was *)
(* handled between the snapshot of the reindexing and its transaction; and *)
(* no event has two rows in it, except those between the checkpoint at the *)
(* last reindexing and the snapshot it took: HANDLE_CW20 and the walk both *)
(* insert them.                                                            *)
HistoryExact ==
    \A i \in DOMAIN events :
        /\ Tracked /\ reindex = NoReindex /\ "gap" \notin faults /\ events[i].height <= cp
             /\ events[i].from # events[i].to => Rows(i) >= 1
        /\ "redelivered" \notin faults =>
              Rows(i) <= IF reindexed = <<>> \/ events[i].height <= reindexed[Len(reindexed)] THEN 1 ELSE 2

(* HANDLE_CW20 never meets a row that refuses its insert and stops it for  *)
(* good, unless the contract was reindexed before its instantiation had    *)
(* been handled.                                                           *)
NeverRefused ==
    (reindexed = <<>> \/ Head(reindexed) > StartBlock) /\ job.pc = "commit"
      /\ 1 \in EventIds(job.start, job.end) => contract = NoContract
=============================================================================
