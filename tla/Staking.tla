------------------------------ MODULE Staking -------------------------------
(***************************************************************************)
(* Validators and their delegators.                                        *)
(*                                                                         *)
(* CRAWL_VALIDATOR follows the blocks: it reads the validator rows, asks   *)
(* the node, and writes the whole rows back.  CRAWL_DELEGATORS follows the *)
(* staking messages, page by page, one transaction for each message, and   *)
(* keeps the delegator rows and validator.delegators_count.  An operator   *)
(* may have every delegator read again from the node (updateAllValidator). *)
(*                                                                         *)
(* A block holds at most one transaction, with one message: the height     *)
(* stands for the ids of both.  The amount 0 stands for no delegator row.  *)
(* Block 1 is the first one of the indexer, and not always of the chain.   *)
(* The delegators are not operators: the stake that comes with the message *)
(* that creates a validator is no delegation message and is left out.      *)
(***************************************************************************)
EXTENDS Checkpoint, Sequences, SequencesExt

CONSTANTS
    Validator,
    Genesis,          \* the validators before the first block
    Delegator,
    Amount,           \* the amounts that messages hold
    TxMsgPageLimit,   \* config.crawlDelegators.txMsgPageLimit
    Top,              \* bound: the height of the chain
    Incidents         \* bound: slashes, failed transactions, failures of the database
                      \* in CRAWL_DELEGATORS and calls of updateAllValidator

VARIABLES
    before,       \* the stake before the first block of the indexer
    chain,        \* for each block: its message, the validators, their stake
    cp,           \* block_checkpoint: HANDLE_TRANSACTION, CRAWL_VALIDATOR, CHECKPOINT_UPDATE_DELEGATOR
    rows,         \* the table validator: [status, count]
    table,        \* the table delegator: <<delegator, validator>> |-> amount
    crawl,        \* what CRAWL_VALIDATOR has read and not yet written
    page,         \* the messages CRAWL_DELEGATORS has read; has one of them failed?
    reloading,    \* where updateAllValidator is, its height, and the validators with a
                  \* job CRAWL_VALIDATOR_DELEGATORS
    base,         \* the height of the last updateAllValidator that came to its end
    faults,       \* why the table may be wrong: see DelegatorsExact
    overwritten,  \* the validators whose count is another's: see CountFollowsRows
    budget        \* what is left of Incidents

vars == <<before, chain, cp, rows, table, crawl, page, reloading, base, faults, overwritten, budget>>

Idle == [pc |-> "idle"]
NoPage == [todo |-> <<>>, failed |-> FALSE]
NoReload == [pc |-> "none", height |-> 0, who |-> {}]
head == Len(chain)
Pairs == Delegator \X Validator
StakeAt(h) == IF h = 0 THEN before ELSE chain[h].stake
AliveAt(h) == IF h = 0 THEN Genesis ELSE chain[h].alive
StakeKinds == {"delegate", "undelegate", "redelegate"}
-----------------------------------------------------------------------------
(* The indexer starts with the genesis file, which has no delegations and  *)
(* from which CRAWL_GENESIS has stored the validators; or later, and knows *)
(* nothing of what came before.                                            *)
Init ==
    /\ before \in {stake \in [Pairs -> {0} \cup Amount] : \A p \in Pairs : stake[p] > 0 => p[2] \in Genesis}
    /\ LET stored == IF \A p \in Pairs : before[p] = 0 THEN Genesis ELSE {}
       IN  rows = [v \in Validator |-> [status |-> IF v \in stored THEN "known" ELSE "none", count |-> 0]]
    /\ chain = <<>> /\ cp = [tx |-> 0, validator |-> 0, delegator |-> 0]
    /\ table = [p \in Pairs |-> 0]
    /\ crawl = Idle /\ page = NoPage /\ reloading = NoReload /\ base = 0
    /\ faults = {} /\ overwritten = {}
    /\ budget = Incidents

(* The chain: messages that succeed or fail, slashes, and validators that  *)
(* come, and go when nobody delegates to them any more.                    *)
Msg(kind, who, src, dst, amount, ok) ==
    [kind |-> kind, who |-> who, src |-> src, dst |-> dst, amount |-> amount, ok |-> ok]

Messages ==
    LET alive == AliveAt(head)
        stake == StakeAt(head)
    IN  {Msg("none", "-", "-", "-", 0, TRUE)}
        \cup {Msg("create", "-", "-", v, 0, TRUE) : v \in Validator \ alive}
        \cup {Msg("slash", "-", v, "-", 1, TRUE) : v \in alive}
        \cup {Msg("delegate", d, "-", v, a, ok) :
                 d \in Delegator, v \in alive, a \in Amount, ok \in BOOLEAN}
        \cup {m \in {Msg("undelegate", d, v, "-", a, ok) :
                        d \in Delegator, v \in alive, a \in Amount, ok \in BOOLEAN} :
                 m.amount <= stake[<<m.who, m.src>>]}
        \cup {m \in {Msg("redelegate", d, v, w, a, ok) :
                        d \in Delegator, v \in alive, w \in alive, a \in Amount, ok \in {TRUE}} :
                 m.src # m.dst /\ m.amount <= stake[<<m.who, m.src>>]}

Effect(stake, m) ==
    [p \in Pairs |->
        CASE m.kind = "slash" /\ p[2] = m.src -> IF stake[p] > 1 THEN stake[p] - 1 ELSE stake[p]
          [] m.ok /\ p = <<m.who, m.src>> -> stake[p] - m.amount
          [] m.ok /\ p = <<m.who, m.dst>> -> stake[p] + m.amount
          [] OTHER -> stake[p]]

NewBlock ==
    /\ head < Top
    /\ \E m \in Messages :
          LET stake == Effect(StakeAt(head), m)
              alive == AliveAt(head) \cup (IF m.kind = "create" THEN {m.dst} ELSE {})
              empty == {v \in alive : m.ok /\ m.kind \in {"undelegate", "redelegate"} /\ v = m.src
                                      /\ \A d \in Delegator : stake[<<d, v>>] = 0}
              disturbs == m.kind = "slash" \/ ~ m.ok
          IN  /\ disturbs => budget > 0
              /\ budget' = IF disturbs THEN budget - 1 ELSE budget
              /\ \E gone \in SUBSET empty :
                    chain' = Append(chain, [msg |-> m, alive |-> alive \ gone, stake |-> stake])
    /\ UNCHANGED <<before, cp, rows, table, crawl, page, reloading, base, faults, overwritten>>

HandleTx ==
    /\ cp.tx < head
    /\ cp' = [cp EXCEPT !.tx = head]
    /\ UNCHANGED <<before, chain, rows, table, crawl, page, reloading, base, faults, overwritten, budget>>

HasTx(h) == chain[h].msg.kind \notin {"none", "slash"}
-----------------------------------------------------------------------------
(* CRAWL_VALIDATOR, to the checkpoint of HANDLE_TRANSACTION at once.  With *)
(* an event of a validator in the range it asks the node and reads the     *)
(* rows: the lock of FOR UPDATE ends with its own small transaction.       *)
CrawlValidatorRead ==
    /\ crawl = Idle /\ cp.validator < cp.tx
    /\ LET named == \E h \in cp.validator + 1 .. cp.tx : HasTx(h) /\ chain[h].msg.ok
       IN  crawl' = [pc |-> "write", end |-> cp.tx, ask |-> named,
                     rows |-> IF named THEN rows ELSE <<>>, list |-> IF named THEN AliveAt(head) ELSE {}]
    /\ UNCHANGED <<before, chain, cp, rows, table, page, reloading, base, faults, overwritten, budget>>

(* The rows as they are written back: a validator that is new, or was      *)
(* unrecognized, starts with count 0.                                      *)
FullInfoValidator(v) ==
    LET read == crawl.rows[v]
    IN  CASE v \notin crawl.list /\ read.status # "known" -> rows[v]
          [] v \in crawl.list /\ read.status = "known" -> read
          [] v \in crawl.list /\ read.status # "known" -> [status |-> "known", count |-> 0]
          [] v \notin crawl.list /\ read.status = "known" -> [read EXCEPT !.status = "unrecognized"]

CrawlValidatorWrite ==
    /\ crawl # Idle
    /\ rows' = IF crawl.ask THEN [v \in Validator |-> FullInfoValidator(v)] ELSE rows
    /\ overwritten' = overwritten \cup {v \in Validator : rows'[v].count # rows[v].count}
    /\ cp' = [cp EXCEPT !.validator = crawl.end]
    /\ crawl' = Idle
    /\ UNCHANGED <<before, chain, table, page, reloading, base, faults, budget>>

CrawlValidatorAbort ==
    /\ crawl # Idle /\ crawl' = Idle
    /\ UNCHANGED <<before, chain, cp, rows, table, page, reloading, base, faults, overwritten, budget>>
-----------------------------------------------------------------------------

(* The messages after the checkpoint, and before the first transaction of  *)
(* the block where CRAWL_VALIDATOR is, failed transactions included.       *)
Due == {h \in cp.delegator + 1 .. cp.validator - 1 : chain[h].msg.kind \in StakeKinds}

CrawlDelegators ==
    LET ids == SelectSeq([h \in 1 .. head |-> h], LAMBDA h : h \in Due)
    IN  /\ page = NoPage /\ reloading = NoReload
        /\ cp.validator > 0 /\ HasTx(cp.validator) /\ Due # {}
        /\ page' = [todo |-> SubSeq(ids, 1, SmallerOf(TxMsgPageLimit, Len(ids))), failed |-> FALSE]
        /\ UNCHANGED <<before, chain, cp, rows, table, crawl, reloading, base, faults, overwritten, budget>>

(* A message takes an amount from a row, which goes when nothing is left,  *)
(* or adds it to one, which comes when it was not there; the count of the  *)
(* validator follows.                                                      *)
Less(amount, m) == IF amount > m.amount THEN amount - m.amount ELSE 0

Added(m) == [p \in Pairs |->
    CASE m.src # "-" /\ p = <<m.who, m.src>> -> Less(table[p], m)
      [] m.dst # "-" /\ p = <<m.who, m.dst>> -> table[p] + m.amount
      [] OTHER -> table[p]]

Known(m) == \A v \in {m.src, m.dst} \ {"-"} : rows[v].status # "none"
Vanished(h) == \E k \in h .. head : ~ ({chain[h].msg.src, chain[h].msg.dst} \ {"-"} \subseteq AliveAt(k))

Counted(m) == [v \in Validator |->
    CASE table[<<m.who, v>>] > 0 /\ Added(m)[<<m.who, v>>] = 0 -> [rows[v] EXCEPT !.count = @ - 1]
      [] table[<<m.who, v>>] = 0 /\ Added(m)[<<m.who, v>>] > 0 -> [rows[v] EXCEPT !.count = @ + 1]
      [] OTHER -> rows[v]]

HandleMsg ==
    LET h == Head(page.todo)
        m == chain[h].msg
    IN  /\ page.todo # <<>>
        /\ table' = IF Known(m) THEN Added(m) ELSE table
        /\ rows' = IF Known(m) THEN Counted(m) ELSE rows
        /\ cp' = [cp EXCEPT !.delegator = h]
        /\ faults' = faults \cup (IF ~ Known(m) /\ Vanished(h) THEN {"unknown"} ELSE {})
                            \cup (IF page.failed THEN {"lost"} ELSE {})
        /\ page' = IF Len(page.todo) = 1 THEN NoPage ELSE [page EXCEPT !.todo = Tail(@)]
        /\ UNCHANGED <<before, chain, crawl, reloading, base, overwritten, budget>>

(* The transaction of one message is rolled back; the job goes on with the *)
(* next message.                                                           *)
HandleMsgFails ==
    /\ page.todo # <<>> /\ budget > 0
    /\ budget' = budget - 1
    /\ page' = IF Len(page.todo) = 1 THEN NoPage ELSE [todo |-> Tail(page.todo), failed |-> TRUE]
    /\ UNCHANGED <<before, chain, cp, rows, table, crawl, reloading, base, faults, overwritten>>

CrawlDelegatorsDies ==
    /\ page # NoPage /\ page' = NoPage
    /\ UNCHANGED <<before, chain, cp, rows, table, crawl, reloading, base, faults, overwritten, budget>>
-----------------------------------------------------------------------------
(* updateAllValidator, while CRAWL_DELEGATORS is stopped as its comment    *)
(* demands, and the jobs of an earlier call are gone.  Its statements are  *)
(* in no transaction: first the table is emptied, the counts are not.      *)
UpdateAllValidator(h) ==
    /\ page = NoPage /\ reloading = NoReload /\ budget > 0
    /\ budget' = budget - 1
    /\ table' = [p \in Pairs |-> 0]
    /\ overwritten' = overwritten \cup {v \in Validator : rows[v].count # 0}
    /\ faults' = {"emptied"}
    /\ reloading' = [pc |-> "emptied", height |-> h, who |-> {}]
    /\ UNCHANGED <<before, chain, cp, rows, crawl, page, base>>

Stored == {v \in Validator : rows[v].status # "none"}

(* Then each validator row gets a job; without a transaction at the height *)
(* the call is over, and the table stays empty.                            *)
UpdateAllValidatorJobs ==
    LET h == reloading.height
    IN  /\ reloading.pc = "emptied"
        /\ reloading' = IF HasTx(h) THEN [reloading EXCEPT !.pc = "queued", !.who = Stored] ELSE NoReload
        /\ faults' = IF HasTx(h) /\ \E p \in Pairs : p[2] \notin Stored /\ StakeAt(h)[p] > 0
                     THEN faults \cup {"unknown"} ELSE faults
        /\ UNCHANGED <<before, chain, cp, rows, table, crawl, page, base, overwritten, budget>>

(* At last the checkpoint moves, while the jobs are already at work.       *)
Over(who) == IF who = {} THEN NoReload ELSE [reloading EXCEPT !.pc = "none", !.who = who]
UpdateAllValidatorCheckpoint ==
    /\ reloading.pc = "queued"
    /\ cp' = [cp EXCEPT !.delegator = reloading.height] /\ base' = reloading.height
    /\ faults' = faults \ {"emptied"}
    /\ reloading' = Over(reloading.who)
    /\ UNCHANGED <<before, chain, rows, table, crawl, page, overwritten, budget>>

(* The process dies, or a query fails; some of the jobs may have been made.*)
UpdateAllValidatorDies ==
    /\ \/ reloading.pc = "emptied" /\ \E made \in SUBSET Stored : reloading' = Over(made)
       \/ reloading.pc = "queued" /\ reloading' = Over(reloading.who)
    /\ UNCHANGED <<before, chain, cp, rows, table, crawl, page, base, faults, overwritten, budget>>

Done(v) ==
    IF reloading.pc = "none" THEN Over(reloading.who \ {v})
    ELSE [reloading EXCEPT !.who = @ \ {v}]

(* The pages of delegations come from the node until it answers with a     *)
(* code other than 0; what has come by then is taken for all there is.     *)
HandleJobCrawlValidatorDelegators(v) ==
    LET stake == StakeAt(reloading.height)
        answer == {d \in Delegator : stake[<<d, v>>] > 0}
    IN  /\ v \in reloading.who
        /\ \E got \in SUBSET answer :
              /\ table' = [p \in Pairs |->
                             IF p[2] = v THEN IF p[1] \in got THEN stake[p] ELSE 0 ELSE table[p]]
              /\ rows' = [rows EXCEPT ![v].count = Cardinality(got)]
              /\ faults' = IF got = answer THEN faults ELSE faults \cup {"partial"}
        /\ overwritten' = overwritten \ {v}
        /\ reloading' = Done(v)
        /\ UNCHANGED <<before, chain, cp, crawl, page, base, budget>>

(* The last attempt of the job fails.                                      *)
CrawlValidatorDelegatorsGivesUp(v) ==
    /\ v \in reloading.who
    /\ faults' = faults \cup {"partial"}
    /\ reloading' = Done(v)
    /\ UNCHANGED <<before, chain, cp, rows, table, crawl, page, base, overwritten, budget>>

Next ==
    \/ NewBlock \/ HandleTx
    \/ CrawlValidatorRead \/ CrawlValidatorWrite \/ CrawlValidatorAbort
    \/ CrawlDelegators \/ HandleMsg \/ HandleMsgFails \/ CrawlDelegatorsDies
    \/ \E h \in 1 .. cp.tx : UpdateAllValidator(h)
    \/ UpdateAllValidatorJobs \/ UpdateAllValidatorCheckpoint \/ UpdateAllValidatorDies
    \/ \E v \in Validator : HandleJobCrawlValidatorDelegators(v) \/ CrawlValidatorDelegatorsGivesUp(v)

Spec == Init /\ [][Next]_vars
-----------------------------------------------------------------------------
(* Properties                                                              *)

(* Did something happen to this delegation that the job does not see: a    *)
(* slash, or a message of a failed transaction, which it applies?          *)
Disturbed(p) ==
    \E h \in base + 1 .. cp.delegator :
        \/ chain[h].msg.kind = "slash" /\ chain[h].msg.src = p[2]
        \/ ~ chain[h].msg.ok /\ chain[h].msg.who = p[1] /\ p[2] \in {chain[h].msg.src, chain[h].msg.dst}

(* Was there a delegation before the first block, never reloaded since?    *)
Older(p) == base = 0 /\ before[p] > 0


(* delegators_count is the number of delegator rows, unless a write of     *)
(* CRAWL_VALIDATOR has put back the count it had read before, or a reload  *)
(* has emptied the table and has not yet, or never, stored the rows anew.  *)
CountFollowsRows ==
    \A v \in Validator :
        v \in overwritten \/ rows[v].count = Cardinality({d \in Delegator : table[<<d, v>>] > 0})
=============================================================================
