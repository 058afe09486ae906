------------------------------- MODULE Cw721 --------------------------------
(***************************************************************************)
(* The tokens and the history of one CW721 contract.                       *)
(*                                                                         *)
(* HANDLE_CW721_TRANSACTION follows the stored contract events: it inserts *)
(* the contract at its instantiation, keeps the owner of every token and   *)
(* writes one row of cw721_activity per event.  REINDEX_CW721_CONTRACT     *)
(* deletes the rows and takes the tokens from the node, or deletes only    *)
(* the history; it is not a transaction.  REINDEX_CW721_HISTORY then walks *)
(* over the stored events page by page and inserts the history again.      *)
(***************************************************************************)
EXTENDS NftChain

CONSTANTS
    BlocksPerCall,   \* config.cw721.blocksPerCall
    Page,            \* config.cw721.reindexing.limitRecordGet
    Requests         \* bound: requests to reindex the contract, re-runs included

VARIABLES
    crawled,    \* block_checkpoint of CRAWL_CONTRACT_EVENT
    cp,         \* block_checkpoint of HANDLE_CW721_TRANSACTION
    contract,   \* the id of the row of cw721_contract, or 0
    tokens,     \* the rows of cw721_token: token |-> [owner, last, burned]
    activity,   \* the rows of cw721_activity: event id |-> the column from
    job,        \* HANDLE_CW721_TRANSACTION: what its transaction will write
    reindex,    \* the job REINDEX_CW721_CONTRACT, by its jobId
    walk,       \* the job REINDEX_CW721_HISTORY
    requests,   \* how often a reindexing has been requested or re-run
    faults      \* what the reindexing did to the tables so far

node == <<head, events, crawled>>
rows == <<contract, tokens, activity>>
vars == <<node, cp, rows, job, reindex, walk, requests, faults>>

Idle == [pc |-> "idle"]
End == EndHeight(cp, crawled, BlocksPerCall)
Instantiate == [token |-> None, from |-> None, to |-> None]
-----------------------------------------------------------------------------
Init ==
    /\ head = StartBlock /\ events = <<>> /\ crawled = StartBlock /\ cp = StartBlock
    /\ contract = 0 /\ tokens = <<>> /\ activity = <<>>
    /\ job = Idle /\ reindex = [pc |-> "none"] /\ walk = Idle /\ requests = 0
    /\ faults = {}

(* The chain grows; the contract is instantiated in its first block.       *)
NewBlock ==
    /\ Grow(<<Instantiate>>)
    /\ UNCHANGED <<crawled, cp, rows, job, reindex, walk, requests, faults>>

CrawlEvents ==
    /\ crawled < head
    /\ crawled' = crawled + 1
    /\ UNCHANGED <<head, events, cp, rows, job, reindex, walk, requests, faults>>
-----------------------------------------------------------------------------
(* Cw721Handler.  acc is the dictionary of the tokens read, the activities *)
(* pushed so far, and ok, which turns FALSE where the code throws.         *)
Pushed(acc, i, from) == [acc EXCEPT !.rows = @ @@ (i :> from)]

Put(acc, e, burned, owner) ==
    [acc EXCEPT !.tokens = (e.token :> [owner |-> owner, last |-> e.height, burned |-> burned]) @@ @]

Known(acc, e) == e.token \in DOMAIN acc.tokens

(* mutant: an event in the block of the last update is ignored             *)
NotNewerStrict(acc, e) == acc.tokens[e.token].last < e.height

NotNewer(acc, e) == acc.tokens[e.token].last <= e.height

HandlerCw721Mint(acc, i) ==
    LET e == events[i]
        pushed == Pushed(acc, i, None)
    IN  IF Known(acc, e) => NotNewer(acc, e) THEN Put(pushed, e, FALSE, e.to) ELSE pushed

HandlerCw721Transfer(acc, i) ==
    LET e == events[i]
        pushed == Pushed(acc, i, IF Known(acc, e) THEN acc.tokens[e.token].owner ELSE None)
    IN  IF Known(acc, e) /\ NotNewer(acc, e)
        THEN Put(pushed, e, acc.tokens[e.token].burned, e.to) ELSE pushed

HandlerCw721Burn(acc, i) ==
    LET e == events[i]
        owner == acc.tokens[e.token].owner
        pushed == Pushed(acc, i, owner)
    IN  IF ~ Known(acc, e) THEN [acc EXCEPT !.ok = FALSE]
        ELSE IF NotNewer(acc, e) THEN Put(pushed, e, TRUE, owner) ELSE pushed

HandleCw721Others(acc, i) == Pushed(acc, i, None)

Process(acc, i) ==
    CASE events[i].token = None -> HandleCw721Others(acc, i)
      [] events[i].token # None /\ events[i].from = None -> HandlerCw721Mint(acc, i)
      [] events[i].from # None /\ events[i].to # None -> HandlerCw721Transfer(acc, i)
      [] events[i].from # None /\ events[i].to = None -> HandlerCw721Burn(acc, i)

(* handleCw721MsgExec: the tokens that the events name, then the events in *)
(* order, if the contract c has a row.                                     *)
HandleCw721MsgExec(c, ids) ==
    LET named == {t \in DOMAIN tokens : \E i \in ids : events[i].token = t}
        read == [tokens |-> [t \in named |-> tokens[t]], rows |-> <<>>, ok |-> TRUE]
    IN  IF c = 0 THEN read
        ELSE FoldLeft(LAMBDA acc, i : IF acc.ok THEN Process(acc, i) ELSE acc, read, InOrder(ids))
-----------------------------------------------------------------------------
Instantiates(ids) == \E i \in ids : events[i].token = None

(* handleJob: the transaction inserts the contract if it is instantiated   *)
(* in the range, which fails if it has a row, and computes the rest.       *)
HandleRead ==
    LET ids == InBlocks(cp, End)
        c == IF Instantiates(ids) THEN 1 ELSE contract
        u == HandleCw721MsgExec(c, ids)
    IN  /\ job = Idle /\ cp < End
        /\ Instantiates(ids) => contract = 0
        /\ u.ok
        /\ job' = [pc |-> "write", end |-> End, contract |-> c, creates |-> Instantiates(ids),
                   named |-> {events[i].token : i \in ids} \cap DOMAIN tokens,
                   tokens |-> u.tokens, rows |-> u.rows]
        /\ UNCHANGED <<node, cp, rows, reindex, walk, requests, faults>>

(* updateTokenAndActivities: rows that refer to a deleted contract, a      *)
(* token inserted twice or an event that has its activity are refused.     *)
Accepted(c, named, new) ==
    /\ new.tokens # <<>> \/ new.rows # <<>> => contract = c
    /\ (DOMAIN new.tokens \ named) \cap DOMAIN tokens = {}
    /\ DOMAIN new.rows \cap DOMAIN activity = {}

Updated(new) == tokens' = new.tokens @@ tokens /\ activity' = activity @@ new.rows

(* mutant: the last block of the range counts as not handled               *)
HandleWriteShort ==
    /\ job.pc = "write"
    /\ Accepted(IF job.creates THEN contract ELSE job.contract, job.named, job)
    /\ contract' = IF job.creates THEN 1 ELSE contract
    /\ Updated(job)
    /\ cp' = job.end - 1
    /\ job' = Idle
    /\ UNCHANGED <<node, reindex, walk, requests, faults>>

HandleWrite ==
    /\ job.pc = "write"
    /\ Accepted(IF job.creates THEN contract ELSE job.contract, job.named, job)
    /\ contract' = IF job.creates THEN 1 ELSE contract
    /\ Updated(job)
    /\ cp' = job.end
    /\ job' = Idle
    /\ UNCHANGED <<node, reindex, walk, requests, faults>>

HandleAbort ==
    /\ job # Idle
    /\ job' = Idle
    /\ UNCHANGED <<node, cp, rows, reindex, walk, requests, faults>>
-----------------------------------------------------------------------------
(* REINDEX_CW721_CONTRACT.  The jobId is the address: there is one such    *)
(* job until a walk removes it.                                            *)
Reindexing == <<node, cp, job, walk, requests>>

ReindexRequest ==
    /\ reindex.pc = "none" /\ crawled > StartBlock /\ requests < Requests
    /\ \E type \in {"all", "history"} : reindex' = [pc |-> "queued", type |-> type]
    /\ requests' = requests + 1
    /\ UNCHANGED <<node, cp, rows, job, walk, faults>>

(* handleReindexAll lists the tokens that exist at the node ...            *)
ReindexList ==
    /\ reindex.pc = "queued" /\ reindex.type = "all"
    /\ reindex' = [pc |-> "list", type |-> "all", old |-> contract, height |-> head,
                   tokens |-> {t \in Token : Owner(t, head) # None}]
    /\ UNCHANGED <<Reindexing, rows, faults>>

(* ... and asks for their owners, each answered at a height of its own.    *)
ReindexOwners ==
    /\ reindex.pc = "list"
    /\ \E at \in [reindex.tokens -> reindex.height .. head] :
          /\ \A t \in reindex.tokens : Owner(t, at[t]) # None
          /\ LET heights == {at[t] : t \in reindex.tokens}
             IN  reindex' = [pc |-> "owners", type |-> "all", old |-> reindex.old, height |-> reindex.height,
                    owners |-> [t \in reindex.tokens |->
                                 [owner |-> Owner(t, at[t]), last |-> at[t], burned |-> FALSE]],
                    min |-> IF heights = {} THEN 0 ELSE Min(heights),
                    max |-> IF heights = {} THEN 0 ELSE Max(heights)]
    /\ UNCHANGED <<Reindexing, rows, faults>>

(* The rows are deleted one table after the other.                         *)
ReindexDeleteActivities ==
    /\ reindex.pc = "owners" /\ reindex.old # 0
    /\ reindex' = [reindex EXCEPT !.pc = "activities"]
    /\ activity' = <<>>
    /\ faults' = faults \cup {"broken"}
    /\ UNCHANGED <<Reindexing, contract, tokens>>

ReindexDeleteTokens ==
    /\ reindex.pc = "activities"
    /\ reindex' = [reindex EXCEPT !.pc = "tokens"]
    /\ tokens' = <<>>
    /\ UNCHANGED <<Reindexing, contract, activity, faults>>

(* A contract that has rows again cannot be deleted.                       *)
ReindexDeleteContract ==
    /\ reindex.pc = "tokens" /\ tokens = <<>> /\ activity = <<>>
    /\ reindex' = [reindex EXCEPT !.pc = "contract"]
    /\ contract' = 0
    /\ UNCHANGED <<Reindexing, tokens, activity, faults>>

ReindexInsertContract ==
    /\ reindex.pc = "contract" \/ (reindex.pc = "owners" /\ reindex.old = 0)
    /\ contract = 0 /\ ~ (job.pc = "write" /\ job.creates)
    /\ reindex' = [reindex EXCEPT !.pc = "inserted"]
    /\ contract' = requests + 1
    /\ faults' = faults \cup {"broken"}
    /\ UNCHANGED <<Reindexing, tokens, activity>>

(* The snapshot is sound if the contract had no event between the lowest   *)
(* and the highest of the three: the list, the owners and the job.         *)
Quiet ==
    LET seen == IF job.pc = "write" THEN job.end ELSE cp
    IN  InBlocks(SmallerOf(cp, reindex.height), Max({seen, reindex.height, reindex.max})) = {}

ReindexInsertTokens ==
    /\ reindex.pc = "inserted"
    /\ DOMAIN tokens \cap DOMAIN reindex.owners = {}
    /\ reindex' = [reindex EXCEPT !.pc = "range"]
    /\ tokens' = reindex.owners @@ tokens
    /\ faults' = {"walking"} \cup (IF Quiet THEN {} ELSE {"raced"})
                   \cup (IF reindex.max = 0 THEN {"shortened"} ELSE {})
    /\ UNCHANGED <<Reindexing, contract, activity>>

(* HandleRangeBlockMissingContract, one transaction.                       *)
ReindexRange ==
    LET ids == InBlocks(reindex.min, SmallerOf(reindex.max, crawled))
        u == HandleCw721MsgExec(contract, ids)
    IN  /\ reindex.pc = "range"
        /\ u.ok /\ Accepted(contract, {events[i].token : i \in ids} \cap DOMAIN tokens, u)
        /\ Updated(u)
        /\ reindex' = [pc |-> "follow", type |-> "all", max |-> reindex.max]
        /\ UNCHANGED <<Reindexing, contract, faults>>

(* handleReindexHistory: up to the latest activity of any contract.        *)
ReindexDeleteHistory ==
    /\ reindex.pc = "queued" /\ reindex.type = "history" /\ contract # 0
    /\ \E h \in StartBlock .. crawled :
          /\ \A i \in DOMAIN activity : events[i].height <= h
          /\ reindex' = [pc |-> "follow", type |-> "history", max |-> h]
          /\ faults' = faults \cup {"walking"} \cup (IF InBlocks(cp, h) = {} THEN {} ELSE {"raced"})
                         \cup (IF InBlocks(h, cp) = {} THEN {} ELSE {"shortened"})
    /\ activity' = <<>>
    /\ UNCHANGED <<Reindexing, contract, tokens>>

ReindexFollow ==
    /\ reindex.pc = "follow" /\ walk = Idle
    /\ walk' = [pc |-> "page", prev |-> 0, max |-> reindex.max]
    /\ reindex' = [pc |-> "completed"]
    /\ UNCHANGED <<node, cp, rows, job, requests, faults>>

(* A job that fails keeps its jobId; a stalled one is run once more.       *)
ReindexFail ==
    /\ reindex.pc \notin {"none", "queued", "completed", "failed"}
    /\ \/ reindex' = [pc |-> "failed"] /\ UNCHANGED requests
       \/ /\ requests < Requests /\ requests' = requests + 1
          /\ reindex' = [pc |-> "queued", type |-> reindex.type]
    /\ UNCHANGED <<node, cp, rows, job, walk, faults>>
-----------------------------------------------------------------------------
(* REINDEX_CW721_HISTORY: crawlMissingContractHistory.                     *)
PageAfter(prev, max) ==
    LET due == {i \in InBlocks(StartBlock, SmallerOf(max, crawled)) : i > prev}
    IN  {i \in due : Cardinality({k \in due : k < i}) < Page}

(* mutant: the next page begins behind the event after the last one        *)
WalkPageSkips ==
    LET ids == PageAfter(walk.prev, walk.max)
        u == HandleCw721MsgExec(contract, ids)
    IN  /\ walk.pc = "page" /\ ids # {}
        /\ u.ok /\ DOMAIN u.rows \cap DOMAIN activity = {}
        /\ activity' = activity @@ u.rows
        /\ walk' = [walk EXCEPT !.prev = Max(ids) + 1]
        /\ faults' = faults \cup {"replayed"}
        /\ UNCHANGED <<node, cp, contract, tokens, job, reindex, requests>>

(* One page: only the activities are inserted.                             *)
WalkPage ==
    LET ids == PageAfter(walk.prev, walk.max)
        u == HandleCw721MsgExec(contract, ids)
    IN  /\ walk.pc = "page" /\ ids # {}
        /\ u.ok /\ DOMAIN u.rows \cap DOMAIN activity = {}
        /\ activity' = activity @@ u.rows
        /\ walk' = [walk EXCEPT !.prev = Max(ids)]
        /\ faults' = faults \cup {"replayed"}
        /\ UNCHANGED <<node, cp, contract, tokens, job, reindex, requests>>

WalkEnd ==
    /\ walk.pc = "page" /\ PageAfter(walk.prev, walk.max) = {}
    /\ walk' = Idle
    /\ reindex' = [pc |-> "none"]
    /\ faults' = faults \ {"walking"}
    /\ UNCHANGED <<node, cp, rows, job, requests>>

WalkFail ==
    /\ walk.pc = "page"
    /\ walk' = [pc |-> "failed"]
    /\ UNCHANGED <<node, cp, rows, job, reindex, requests, faults>>
-----------------------------------------------------------------------------
Next ==
    \/ NewBlock \/ CrawlEvents
    \/ HandleRead \/ HandleWrite \/ HandleAbort
    \/ ReindexRequest \/ ReindexList \/ ReindexOwners
    \/ ReindexDeleteActivities \/ ReindexDeleteTokens \/ ReindexDeleteContract
    \/ ReindexInsertContract \/ ReindexInsertTokens \/ ReindexRange
    \/ ReindexDeleteHistory \/ ReindexFollow \/ ReindexFail
    \/ WalkPage \/ WalkEnd \/ WalkFail

Spec == Init /\ [][Next]_vars
-----------------------------------------------------------------------------
(* Properties                                                              *)

Sound == faults \cap {"broken", "raced"} = {}

(* Unless a reindexing raced with the job or stopped half-way, every token *)
(* has the owner that it has on the chain at the checkpoint, or later at   *)
(* the height of its row; burned tokens are marked, unknown ones do not    *)
(* exist.                                                                  *)
OwnersExact ==
    Sound =>
        \A t \in Token :
            IF t \in DOMAIN tokens
            THEN Owner(t, Max({cp, tokens[t].last})) =
                     IF tokens[t].burned THEN None ELSE tokens[t].owner
            ELSE Owner(t, cp) = None

(* ... and once the walk is over, the history is that of the blocks up to  *)
(* the checkpoint: a reindexing neither loses an event nor adds one that   *)
(* the job will add again; unless the walk is shortened, its end being the *)
(* latest activity, or the latest answer for a token, and nothing later.   *)
(* An activity that HANDLE_CW721_TRANSACTION wrote names the previous      *)
(* owner, unless a reindexing raced with it or stopped half-way; those that*)
(* a walk wrote over tokens with their current owners may not.             *)
HistoryExact ==
    /\ faults \subseteq {"replayed"} => DOMAIN activity = InBlocks(StartBlock, cp)
    /\ faults \subseteq {"shortened"} => \A i \in DOMAIN activity : activity[i] = OwnerBefore(i)

(* Under Sound the job is never refused by a row that is there, nor ever   *)
(* meets the burn of a token it does not know: it would fail for every     *)
(* contract and in every repetition.                                       *)
NeverStuck ==
    LET ids == InBlocks(cp, End)
        u == HandleCw721MsgExec(IF Instantiates(ids) THEN 1 ELSE contract, ids)
    IN  Sound /\ cp < End =>
            /\ Instantiates(ids) => contract = 0
            /\ u.ok /\ DOMAIN u.rows \cap DOMAIN activity = {}

(* "alt instantiate: Upsert new cw721 contract instance".                  *)
InstantiateUpserts == cp < End /\ Instantiates(InBlocks(cp, End)) => contract = 0
=============================================================================
