------------------------------ MODULE Accounts ------------------------------
(***************************************************************************)
(* Accounts and their balances.  HANDLE_ADDRESS follows the blocks: it     *)
(* stores an empty account for every new address, moves its checkpoint,    *)
(* and after the commit asks for a job CRAWL_ACCOUNT_BALANCES, which reads *)
(* the balances of the addresses from the node and writes them.  Workers   *)
(* of several processes take such jobs.  The action CrawlNewAccountApi     *)
(* stores accounts too.  The balance is that of one denom, held or not.    *)
(***************************************************************************)
EXTENDS Checkpoint, Sequences, SequencesExt

CONSTANTS
    Addr,
    Worker,           \* the workers of the queue CRAWL_ACCOUNT_BALANCES
    BlocksPerCall,
    Top,              \* bound: the height of the chain
    Incidents         \* bound: lost and failed jobs, and calls of CrawlNewAccountApi

VARIABLES
    chain,      \* for each block: the addresses it names, and who holds the denom after it
    cp,         \* block_checkpoint of HANDLE_ADDRESS, which follows the head of the chain
    accounts,   \* the addresses of the table account
    balance,    \* account_balance: [amount, last_updated_height]
    insert,     \* what HANDLE_ADDRESS and CrawlNewAccountApi are about to store
    queue,      \* the waiting jobs: sets of addresses
    work,       \* the job of each worker: its addresses, the height of the answers
    excused,    \* the height at which the addresses must be read again; 0 if not needed
    budget      \* what is left of Incidents

vars == <<chain, cp, accounts, balance, insert, queue, work, excused, budget>>

Idle == [pc |-> "idle"]
Caller == {"job", "api"}
head == Len(chain)
Holds(a, h) == h > 0 /\ chain[h].hold[a]
NamedIn(lo, hi) == UNION {chain[h].named : h \in lo + 1 .. hi}
Excuse(addrs) == [a \in Addr |-> IF a \in addrs THEN head ELSE excused[a]]
-----------------------------------------------------------------------------
Init ==
    /\ chain = <<>> /\ cp = 0 /\ accounts = {}
    /\ balance = [a \in Addr |-> [amount |-> FALSE, height |-> 0]]
    /\ insert = [c \in Caller |-> Idle] /\ queue = <<>>
    /\ work = [w \in Worker |-> Idle]
    /\ excused = [a \in Addr |-> 0] /\ budget = Incidents

(* A block changes balances of addresses that its events name.             *)
NewBlock ==
    /\ head < Top
    /\ \E named \in SUBSET Addr, changed \in SUBSET Addr :
          /\ changed \subseteq named
          /\ chain' = Append(chain, [named |-> named, hold |->
                        [a \in Addr |-> IF a \in changed THEN ~ Holds(a, head) ELSE Holds(a, head)]])
    /\ UNCHANGED <<cp, accounts, balance, insert, queue, work, excused, budget>>
-----------------------------------------------------------------------------
(* HANDLE_ADDRESS reads which addresses of the range have no account.      *)
HandleRead ==
    LET end == EndHeight(cp, head, BlocksPerCall)
        addrs == NamedIn(cp, end)
    IN  /\ insert["job"] = Idle /\ cp < end
        /\ insert' = [insert EXCEPT !["job"] =
                        [pc |-> "store", addrs |-> addrs, missing |-> addrs \ accounts, end |-> end]]
        /\ UNCHANGED <<chain, cp, accounts, balance, queue, work, excused, budget>>

CrawlNewAccountApi(addrs) ==
    /\ insert["api"] = Idle /\ budget > 0
    /\ budget' = budget - 1
    /\ insert' = [insert EXCEPT !["api"] =
                    [pc |-> "store", addrs |-> addrs, missing |-> addrs \ accounts, end |-> 0]]
    /\ UNCHANGED <<chain, cp, accounts, balance, queue, work, excused>>

(* insertNewAccountAndUpdate: batchInsert runs in a savepoint and its      *)
(* error is caught.  One address that came in meanwhile is enough: then    *)
(* none is stored, and the transaction goes on to the checkpoint.          *)
Refused(c) == insert[c].missing \cap accounts # {}

Store(c) ==
    /\ insert[c].pc = "store"
    /\ accounts' = IF Refused(c) THEN accounts ELSE accounts \cup insert[c].missing
    /\ excused' = IF c = "job" /\ Refused(c) THEN Excuse(insert[c].missing \ accounts) ELSE excused
    /\ cp' = IF c = "job" THEN insert[c].end ELSE cp
    /\ insert' = [insert EXCEPT ![c] = IF c = "job" THEN [pc |-> "call", addrs |-> @.addrs] ELSE Idle]
    /\ UNCHANGED <<chain, balance, queue, work, budget>>

(* After the commit: the call of UpdateAccount, which creates the job.     *)
CreateJobAccount(addrs) == queue' = Append(queue, addrs)

CallUpdateAccount ==
    /\ insert["job"].pc = "call"
    /\ CreateJobAccount(insert["job"].addrs)
    /\ insert' = [insert EXCEPT !["job"] = Idle]
    /\ UNCHANGED <<chain, cp, accounts, balance, work, excused, budget>>

(* The process dies: before the commit nothing has happened, after it the  *)
(* call is lost.                                                           *)
HandleDies ==
    /\ insert["job"] # Idle /\ budget > 0
    /\ budget' = budget - 1
    /\ excused' = IF insert["job"].pc = "call" THEN Excuse(insert["job"].addrs) ELSE excused
    /\ insert' = [insert EXCEPT !["job"] = Idle]
    /\ UNCHANGED <<chain, cp, accounts, balance, queue, work>>
-----------------------------------------------------------------------------
(* CRAWL_ACCOUNT_BALANCES: the node answers for its latest block.          *)
BalancesRead(w) ==
    /\ work[w] = Idle /\ queue # <<>>
    /\ work' = [work EXCEPT ![w] = [pc |-> "write", addrs |-> Head(queue), height |-> head]]
    /\ queue' = Tail(queue)
    /\ UNCHANGED <<chain, cp, accounts, balance, insert, excused, budget>>

(* mutant: the balances are not set to zero before the answers are stored  *)
NewAmountNoReset(a, h) == balance[a].amount \/ Holds(a, h)

(* The native balances of an account become 0, then those of the answer    *)
(* are stored: there is no look at last_updated_height.                    *)
NewAmount(a, h) == Holds(a, h)

BalancesWrite(w) ==
    LET h == work[w].height
        there == work[w].addrs \cap accounts
        late == {a \in there : balance[a].height > h}
    IN  /\ work[w] # Idle
        /\ balance' = [a \in Addr |-> IF a \in there THEN [amount |-> NewAmount(a, h), height |-> h]
                                      ELSE balance[a]]
        /\ excused' = [a \in Addr |->
                         CASE a \in late -> head
                           [] a \in there \ late /\ excused[a] <= h -> 0
                           [] OTHER -> excused[a]]
        /\ work' = [work EXCEPT ![w] = Idle]
        /\ UNCHANGED <<chain, cp, accounts, insert, queue, budget>>

(* A failure: BullMQ runs the job again, or has done so often enough, or   *)
(* the error was caught within the transaction and the job counts as done. *)
BalancesFail(w) ==
    /\ work[w] # Idle /\ budget > 0
    /\ budget' = budget - 1
    /\ work' = [work EXCEPT ![w] = Idle]
    /\ \/ queue' = Append(queue, work[w].addrs) /\ UNCHANGED excused
       \/ excused' = Excuse(work[w].addrs) /\ UNCHANGED queue
    /\ UNCHANGED <<chain, cp, accounts, balance, insert>>

Next ==
    \/ NewBlock \/ HandleRead \/ CallUpdateAccount \/ HandleDies
    \/ \E addrs \in SUBSET Addr : CrawlNewAccountApi(addrs)
    \/ \E c \in Caller : Store(c)
    \/ \E w \in Worker : BalancesRead(w) \/ BalancesWrite(w) \/ BalancesFail(w)

Spec == Init /\ [][Next]_vars
-----------------------------------------------------------------------------
(* Properties                                                              *)

(* Is a job that reads this address waiting, running or about to be        *)
(* created?                                                                *)
Pending(a) ==
    \/ \E i \in DOMAIN queue : a \in queue[i]
    \/ \E w \in Worker : work[w] # Idle /\ a \in work[w].addrs
    \/ insert["job"].pc = "call" /\ a \in insert["job"].addrs

(* An address named up to the checkpoint of HANDLE_ADDRESS has an account, *)
(* and once no job for it is left, the balance of a block not before the   *)
(* last one that named it.  The exceptions: its insertion was swallowed    *)
(* next to an address that another caller had just stored, the call after  *)
(* the commit was lost, the job failed, or a slower worker wrote an older  *)
(* answer; each lasts until a later answer is written.                     *)
AccountsFresh ==
    \A a \in NamedIn(0, cp) :
        excused[a] = 0 =>
            /\ a \in accounts
            /\ Pending(a) \/
                 /\ balance[a].height >= Max({h \in 1 .. cp : a \in chain[h].named})
                 /\ balance[a].amount = Holds(a, balance[a].height)
=============================================================================
