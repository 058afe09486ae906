------------------------------- MODULE Erc20 --------------------------------
(***************************************************************************)
(* The balances and the history of one ERC-20 contract.                    *)
(*                                                                         *)
(* Three jobs follow one another over the blocks: HANDLE_ERC20_CONTRACT    *)
(* inserts the contract with the supply the node reports now,              *)
(* HANDLE_ERC20_ACTIVITY turns the events of known contracts into rows of  *)
(* erc20_activity, and HANDLE_ERC20_BALANCE adds those rows to the         *)
(* balances.  A contract that is only a proxy is inserted by a call that   *)
(* HANDLE_EVM_PROXY_HISTORY makes after its commit, whenever the proxy     *)
(* gets an implementation.  REINDEX_ERC20 stops the tracking of a contract *)
(* and then rebuilds everything in one transaction.  Its statements, and   *)
(* those of HANDLE_ERC20_BALANCE, see what others commit between them.     *)
(***************************************************************************)
EXTENDS TokenChain

CONSTANTS
    BlocksPerCall,   \* config.erc20.blocksPerCall
    Null,            \* a supply that the node did not report
    Reindexes,       \* bound: requests to reindex the contract
    Upgrades         \* bound: implementations of the proxy

(* Nobody owns anything before the first event of the contract.            *)
ASSUME Erc20Assumption ==
    /\ BlocksPerCall \in Nat \ {0} /\ Null \notin Int
    /\ \A a \in Addr : Initial[a] = 0

VARIABLES
    kind,       \* is the contract an "erc20" itself or a "proxy"?
    crawled,    \* block_checkpoint of CRAWL_SMART_CONTRACT_EVM
    cp,         \* block_checkpoint of the jobs modelled here
    contract,   \* the row of erc20_contract, or NoContract
    balances,   \* the rows of account_balance for the contract, by account
    activity,   \* the rows of erc20_activity: event ids, in order of insertion
    accounts,   \* the accounts that have a row
    upgrades,   \* how many implementations the proxy has had
    call,       \* does HANDLE_EVM_PROXY_HISTORY owe a call?
    job,        \* HANDLE_ERC20_BALANCE: what it has read
    reindex,    \* the job REINDEX_ERC20, by its jobId, and what it has deleted
    requests,   \* how often it has been requested
    surplus,    \* supply minus balances when the contract row was made
    faults      \* what went wrong since then

node == <<kind, head, events, crawled>>
rows == <<contract, balances, activity, surplus>>
proxy == <<upgrades, call>>
reindexing == <<reindex, requests>>
vars == <<node, cp, rows, accounts, proxy, job, reindexing, faults>>

NoContract == [id |-> 0]
Idle == [pc |-> "idle"]
NoReindex == [pc |-> "none"]
Tracked == contract # NoContract /\ contract.track
Sum(bs) == FoldSet(LAMBDA a, sum : sum + bs[a].amount, 0, DOMAIN bs)

Jobs == {"contract", "proxy", "activity", "balance"}

(* The end of a job's range, given its dependencies.  No job returns early *)
(* on an empty range; since every row exists here, it changes nothing then.*)
End(j, deps) == EndHeight(cp[j], LastHeight(cp, deps), BlocksPerCall)
-----------------------------------------------------------------------------
Init ==
    /\ kind \in {"erc20", "proxy"}
    /\ head = StartBlock /\ events = <<>> /\ crawled = StartBlock
    /\ cp = [j \in Jobs |-> StartBlock]
    /\ contract = NoContract /\ balances = <<>> /\ activity = <<>> /\ surplus = 0
    /\ accounts = {} /\ upgrades = 0 /\ call = FALSE
    /\ job = Idle /\ reindex = NoReindex /\ requests = 0
    /\ faults = {}

(* The chain grows; the contract is created in its first block.            *)
NewBlock ==
    /\ Grow(<<>>)
    /\ UNCHANGED <<kind, crawled, cp, rows, accounts, proxy, job, reindexing, faults>>

CrawlContracts ==
    /\ crawled < head
    /\ crawled' = crawled + 1
    /\ UNCHANGED <<kind, head, events, cp, rows, accounts, proxy, job, reindexing, faults>>

(* HANDLE_ADDRESS finds an account in the events of the chain.             *)
NewAccount ==
    /\ \E a \in Addr \ accounts : accounts' = accounts \cup {a}
    /\ UNCHANGED <<node, cp, rows, proxy, job, reindexing, faults>>
-----------------------------------------------------------------------------
(* getErc20Instances and the upsert of its row: the supply is that of the  *)
(* node's latest block.  It resumes the tracking that a reindexing stopped.*)
Upsert(last) ==
    /\ \E supply \in {Supply(head), Null} :
          /\ contract' = [id |-> IF contract = NoContract THEN 1 ELSE contract.id,
                          track |-> TRUE, supply |-> supply, last |-> last]
          /\ surplus' = IF supply = Null THEN 0 ELSE supply - Sum(balances)
    /\ faults' = IF contract # NoContract /\ ~ contract.track THEN faults \cup {"resumed"} ELSE faults
    /\ UNCHANGED <<balances, activity>>

(* HANDLE_ERC20_CONTRACT, one transaction.                                 *)
HandleErc20Contract ==
    LET end == EndHeight(cp["contract"], crawled, BlocksPerCall)
    IN  /\ end > cp["contract"]
        /\ IF kind = "erc20" /\ cp["contract"] = StartBlock
           THEN Upsert(StartBlock + 1) ELSE UNCHANGED <<rows, faults>>
        /\ cp' = [cp EXCEPT !["contract"] = end]
        /\ UNCHANGED <<node, accounts, proxy, job, reindexing>>

(* HANDLE_EVM_PROXY_HISTORY: the commit, and after it the call that        *)
(* inserts the proxies that now have an ERC-20 implementation.             *)
HandleProxyHistory ==
    LET end == EndHeight(cp["proxy"], crawled, BlocksPerCall)
    IN  /\ end > cp["proxy"] /\ ~ call
        /\ cp' = [cp EXCEPT !["proxy"] = end]
        /\ \/ UNCHANGED proxy
           \/ kind = "proxy" /\ upgrades < Upgrades /\ upgrades' = upgrades + 1 /\ call' = TRUE
        /\ UNCHANGED <<node, rows, accounts, job, reindexing, faults>>

InsertNewErc20Contracts ==
    /\ call
    /\ call' = FALSE
    /\ Upsert(head)
    /\ UNCHANGED <<node, cp, accounts, upgrades, job, reindexing>>

LoseCall ==
    /\ call
    /\ call' = FALSE
    /\ UNCHANGED <<node, cp, rows, accounts, upgrades, job, reindexing, faults>>
-----------------------------------------------------------------------------
(* mutant: the range of the events is closed below                         *)
BuildErc20ActivitiesClosed(start, end) ==
    IF contract = NoContract THEN <<>> ELSE InOrder(InBlocks(start - 1, end))

(* The events are joined with the contracts that have a row by now.        *)
BuildErc20Activities(start, end) ==
    IF contract = NoContract THEN <<>> ELSE InOrder(InBlocks(start, end))

(* HANDLE_ERC20_ACTIVITY, one transaction.                                 *)
HandleErc20Activity ==
    LET end == End("activity", {"contract", "proxy"})
        late == contract = NoContract /\ InBlocks(cp["activity"], end) # {}
    IN  /\ end > cp["activity"]
        /\ activity' = activity \o BuildErc20Activities(cp["activity"], end)
        /\ faults' = IF late THEN faults \cup {"late"} ELSE faults
        /\ cp' = [cp EXCEPT !["activity"] = end]
        /\ UNCHANGED <<node, contract, balances, surplus, accounts, proxy, job, reindexing>>
-----------------------------------------------------------------------------
(* handlerErc20Transfer.  acc.ok turns FALSE where the code throws.        *)
Moved(bs, a, amount, height) ==
    [x \in DOMAIN bs \cup {a} |->
        IF x # a THEN bs[x]
        ELSE [amount |-> (IF a \in DOMAIN bs THEN bs[a].amount ELSE 0) + amount, last |-> height]]

Side(acc, a, amount, height) ==
    IF a = None
    THEN [acc EXCEPT !.supply = IF @ = Null THEN Null ELSE @ - amount]
    ELSE [acc EXCEPT !.balances = Moved(@, a, amount, height),
                     !.ok = @ /\ (a \in DOMAIN acc.balances => height >= acc.balances[a].last)]

(* mutant: a burn lowers the balance and not the supply                    *)
HandlerErc20TransferNoBurn(acc, e) ==
    LET afterFrom == Side(acc, e.from, -1, e.height)
    IN  IF e.to = None THEN afterFrom ELSE Side(afterFrom, e.to, 1, e.height)

HandlerErc20Transfer(acc, e) == Side(Side(acc, e.from, -1, e.height), e.to, 1, e.height)

(* mutant: the activities are processed from the last to the first         *)
ProcessedLatestFirst(supply, bs, ids) ==
    Fold(LAMBDA acc, i : IF acc.ok THEN HandlerErc20Transfer(acc, events[i]) ELSE acc,
         [supply |-> supply, balances |-> bs, ok |-> TRUE], [k \in DOMAIN ids |-> ids[Len(ids) + 1 - k]])

Processed(supply, bs, ids) ==
    Fold(LAMBDA acc, i : IF acc.ok THEN HandlerErc20Transfer(acc, events[i]) ELSE acc,
         [supply |-> supply, balances |-> bs, ok |-> TRUE], ids)

Parties(ids) == UNION {{events[i].from, events[i].to} \ {None} : i \in Range(ids)}

(* The rows of the accounts in who, and rows that are written over others. *)
Only(bs, who) == [a \in DOMAIN bs \cap who |-> bs[a]]
Merged(new, bs) ==
    [a \in DOMAIN new \cup DOMAIN bs |-> IF a \in DOMAIN new THEN new[a] ELSE bs[a]]

(* HANDLE_ERC20_BALANCE reads the activities of tracked contracts, outside *)
(* of its transaction, and has the missing accounts inserted.              *)
BalanceStart ==
    LET end == End("balance", {"activity"})
        acts == IF ~ Tracked THEN <<>>
                ELSE Those(activity, InBlocks(cp["balance"], end))
    IN  /\ job = Idle /\ end > cp["balance"]
        /\ job' = [pc |-> "read", acts |-> acts, end |-> end]
        /\ accounts' = accounts \cup Parties(acts)
        /\ UNCHANGED <<node, cp, rows, proxy, reindexing, faults>>

(* The transaction reads the balances of the parties ...                   *)
BalanceRead ==
    /\ job.pc = "read"
    /\ job' = IF job.acts = <<>> THEN [pc |-> "write", acts |-> <<>>, end |-> job.end]
              ELSE [pc |-> "half", acts |-> job.acts, end |-> job.end,
                    balances |-> Only(balances, Parties(job.acts)), seen |-> contract.id]
    /\ UNCHANGED <<node, cp, rows, accounts, proxy, reindexing, faults>>

(* ... then the row of the contract, which may be another one by now ...   *)
BalanceProcess ==
    LET u == Processed(contract.supply, job.balances, job.acts)
    IN  /\ job.pc = "half" /\ contract # NoContract /\ u.ok
        /\ job' = [pc |-> "write", acts |-> job.acts, end |-> job.end,
                   contract |-> [contract EXCEPT !.supply = u.supply],
                   balances |-> u.balances, surplus |-> surplus, seen |-> job.seen]
        /\ UNCHANGED <<node, cp, rows, accounts, proxy, reindexing, faults>>

(* mutant: the checkpoint moves before the balances are written            *)
BalanceWriteLate ==
    /\ job.pc = "write"
    /\ IF job.acts = <<>> THEN UNCHANGED <<contract, balances, surplus, faults>>
       ELSE /\ contract.id = job.contract.id
            /\ contract' = job.contract
            /\ balances' = Merged(job.balances, balances)
            /\ surplus' = job.surplus
            /\ faults' = IF job.seen = job.contract.id THEN faults ELSE faults \cup {"torn"}
    /\ cp' = IF job.acts = <<>> THEN [cp EXCEPT !["balance"] = job.end] ELSE cp
    /\ job' = Idle
    /\ UNCHANGED <<node, activity, accounts, proxy, reindexing>>

(* ... and writes both back, with the checkpoint.  If the contract has a   *)
(* new row since it was read, the old one cannot be inserted next to it.   *)
(* If it got a new row between the two reads, the supply of the one has    *)
(* been combined with the balances of the other.                           *)
BalanceWrite ==
    /\ job.pc = "write"
    /\ IF job.acts = <<>> THEN UNCHANGED <<contract, balances, surplus, faults>>
       ELSE /\ contract.id = job.contract.id
            /\ contract' = job.contract
            /\ balances' = Merged(job.balances, balances)
            /\ surplus' = job.surplus
            /\ faults' = IF job.seen = job.contract.id THEN faults ELSE faults \cup {"torn"}
    /\ cp' = [cp EXCEPT !["balance"] = job.end]
    /\ job' = Idle
    /\ UNCHANGED <<node, activity, accounts, proxy, reindexing>>

BalanceAbort ==
    /\ job # Idle
    /\ job' = Idle
    /\ UNCHANGED <<node, cp, rows, accounts, proxy, reindexing, faults>>
-----------------------------------------------------------------------------
(* REINDEX_ERC20.  The jobId is the address; a failed job keeps it.        *)
ReindexRequest ==
    /\ reindex = NoReindex /\ requests < Reindexes /\ contract # NoContract
    /\ reindex' = [pc |-> "queued"] /\ requests' = requests + 1
    /\ UNCHANGED <<node, cp, rows, accounts, proxy, job, faults>>

ReindexUntrack ==
    /\ reindex.pc = "queued"
    /\ reindex' = [pc |-> "untracked"]
    /\ contract' = [contract EXCEPT !.track = FALSE]
    /\ UNCHANGED <<node, cp, balances, activity, surplus, accounts, proxy, job, requests, faults>>

(* The transaction deletes the activities and the balances that it sees;   *)
(* until it commits, the others still see them.                            *)
ReindexDelete ==
    /\ reindex.pc = "untracked"
    /\ reindex' = [pc |-> "deleting", acts |-> Len(activity), holders |-> DOMAIN balances]
    /\ UNCHANGED <<node, cp, rows, accounts, proxy, job, requests, faults>>

(* Then it deletes the row of the contract, which an activity inserted     *)
(* since then, by its foreign key, forbids.  From there on the row makes   *)
(* all others wait.  Everything is computed again from the stored events   *)
(* and on top of the balances that were inserted after the deletion, if    *)
(* every party has an account.                                             *)
ReindexCommit ==
    LET ids == InOrder(InBlocks(StartBlock, crawled))
        left == Only(balances, Addr \ reindex.holders)
        u == Processed(0, left, ids)
    IN  /\ reindex.pc = "deleting" /\ Len(activity) = reindex.acts
        /\ Parties(ids) \subseteq accounts /\ u.ok
        /\ contract' = [id |-> contract.id + 1, track |-> TRUE, supply |-> u.supply, last |-> head]
        /\ balances' = u.balances
        /\ activity' = ids
        /\ surplus' = 0
        /\ faults' = CASE DOMAIN left # {} -> {"raced", "torn"}
                       [] DOMAIN left = {} /\ InBlocks(cp["balance"], crawled) # {} -> {"raced"}
                       [] DOMAIN left = {} /\ InBlocks(cp["balance"], crawled) = {} -> {}
        /\ reindex' = NoReindex
        /\ UNCHANGED <<node, cp, accounts, proxy, job, requests>>

ReindexFail ==
    /\ reindex.pc \in {"untracked", "deleting"}
    /\ reindex' = [pc |-> "failed"]
    /\ UNCHANGED <<node, cp, rows, accounts, proxy, job, requests, faults>>
-----------------------------------------------------------------------------
Next ==
    \/ NewBlock \/ CrawlContracts \/ NewAccount
    \/ HandleErc20Contract \/ HandleProxyHistory \/ InsertNewErc20Contracts \/ LoseCall
    \/ HandleErc20Activity
    \/ BalanceStart \/ BalanceRead \/ BalanceProcess \/ BalanceWrite \/ BalanceAbort
    \/ ReindexRequest \/ ReindexUntrack \/ ReindexDelete \/ ReindexCommit \/ ReindexFail

Spec == Init /\ [][Next]_vars
-----------------------------------------------------------------------------
(* Properties                                                              *)

(* The supply of a contract moves with the balances of its holders.  It is *)
(* their sum only after a reindexing: at the insertion it already counts   *)
(* everything minted up to the node's latest block, and the same mints are *)
(* added once more when their blocks are processed.  Two races break it: a *)
(* reindexing commits between the two reads of the balance job, or that    *)
(* job commits a new holder between the deletion of the balances and that  *)
(* of the contract.                                                        *)
SupplyFollowsBalances ==
    contract # NoContract /\ contract.supply # Null /\ "torn" \notin faults =>
        contract.supply = surplus + Sum(balances)

(* If the contract had its row before its first event was processed, no    *)
(* reindexing overtook the balance job or met it in those two races, and   *)
(* no upgrade of the proxy resumed the tracking that a reindexing had      *)
(* stopped, the balances of a tracked contract are those of the chain at   *)
(* the checkpoint of that job.                                             *)
BalancesAtCheckpoint ==
    Tracked /\ faults = {} =>
        \A a \in Addr : Balance(a, cp["balance"]) =
                            IF a \in DOMAIN balances THEN balances[a].amount ELSE 0

(* Unless a reindexing overtook it, HANDLE_ERC20_BALANCE never meets a     *)
(* balance that was updated later than the activity it applies, where it   *)
(* would throw in every repetition; missed events do no harm here.         *)
NeverThrows ==
    "raced" \notin faults /\ job.pc = "half" /\ Tracked =>
        Processed(contract.supply, job.balances, job.acts).ok

(* Under the conditions of BalancesAtCheckpoint every event up to the      *)
(* checkpoint of HANDLE_ERC20_ACTIVITY has exactly one activity.           *)
ActivityOnce ==
    contract # NoContract /\ faults = {} =>
        \A i \in InBlocks(StartBlock, cp["activity"]) :
            Cardinality({k \in DOMAIN activity : activity[k] = i}) = 1

(* "if start reindexing, track will be false (although error when          *)
(* reindex)".                                                              *)
ReindexStopsTracking == reindex.pc \in {"untracked", "deleting", "failed"} => ~ Tracked
=============================================================================
