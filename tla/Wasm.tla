-------------------------------- MODULE Wasm --------------------------------
(***************************************************************************)
(* CosmWasm codes and one contract.  CRAWL_CODE stores the codes of the    *)
(* blocks; behind it, CRAWL_SMART_CONTRACT stores new contracts with what  *)
(* the node says of them now, and HANDLE_MIGRATE_CONTRACT, which does not  *)
(* wait for CRAWL_SMART_CONTRACT, adds a row for each migration.           *)
(* CRAWL_CONTRACT_EVENT asks for contracts that are older than the first   *)
(* block.  Every code has a type to detect: a row of code knows it or not. *)
(***************************************************************************)
EXTENDS Checkpoint, Sequences, SequencesExt

CONSTANTS
    Code,             \* code ids
    BlocksPerCall,
    Top               \* bound: the height of the chain

VARIABLES
    chain,      \* for each block: what it does, and the code of the contract after it
    old,        \* the code of the contract before the first block, or None
    crawled,    \* block_checkpoint of HANDLE_TRANSACTION
    cp,         \* block_checkpoint of the four jobs
    codes,      \* the table code: which codes have a row, which of these a type
    rows,       \* the table smart_contract: [code, status, by]
    insert,     \* what insertNewContracts is about to store, and for whom
    passed,     \* was a migration passed that the answer of the node was too old for?
    mixed,      \* did the last range hold several migrations?
    restored    \* the codes that CRAWL_CODE has stored again after they had a type

vars == <<chain, old, crawled, cp, codes, rows, insert, passed, mixed, restored>>

None == 0
Idle == [pc |-> "idle"]
head == Len(chain)
CodeAt(h) == IF h = 0 THEN old ELSE chain[h].code
InRange(lo, hi, does) == {h \in lo + 1 .. hi : chain[h].does = does}
Known == {old} \cup {chain[h].what : h \in InRange(0, head, "store")}
-----------------------------------------------------------------------------
Init ==
    /\ old \in {None, Min(Code)}
    /\ chain = <<>> /\ crawled = 0
    /\ cp = [j \in {"code", "contract", "migrate", "event"} |-> 0]
    /\ codes = [c \in Code |-> "none"] /\ rows = <<>> /\ insert = Idle
    /\ passed = FALSE /\ mixed = FALSE /\ restored = {}

Block(does, what, code) == [does |-> does, what |-> what, code |-> code]

NewBlock ==
    /\ head < Top
    /\ \/ \E c \in Code \ Known : chain' = Append(chain, Block("store", c, CodeAt(head)))
       \/ \E c \in Known \ {None} :
             \/ CodeAt(head) = None /\ chain' = Append(chain, Block("instantiate", c, c))
             \/ CodeAt(head) \notin {None, c} /\ chain' = Append(chain, Block("migrate", c, c))
       \/ CodeAt(head) # None /\ chain' = Append(chain, Block("execute", None, CodeAt(head)))
    /\ UNCHANGED <<old, crawled, cp, codes, rows, insert, passed, mixed, restored>>

HandleTx ==
    /\ crawled < head
    /\ crawled' = crawled + 1
    /\ UNCHANGED <<chain, old, cp, codes, rows, insert, passed, mixed, restored>>
-----------------------------------------------------------------------------
(* An upsert of the whole row: it has no type.                             *)
InsertNewCodes(cs) == [c \in Code |-> IF c \in cs THEN "untyped" ELSE codes[c]]

CrawlCode ==
    LET end == EndHeight(cp["code"], crawled, BlocksPerCall)
        new == {chain[h].what : h \in InRange(cp["code"], end, "store")}
    IN  /\ cp["code"] < end
        /\ codes' = InsertNewCodes(new)
        /\ restored' = restored \cup {c \in new : codes[c] = "typed"}
        /\ cp' = [cp EXCEPT !["code"] = end]
        /\ UNCHANGED <<chain, old, crawled, rows, insert, passed, mixed>>

(* insertNewContracts: the node answers with the code that the contract    *)
(* has now.                                                                *)
GetContractData(who, end) == [pc |-> "patch", who |-> who, end |-> end, code |-> CodeAt(head), height |-> head]

CrawlSmartContract ==
    LET end == EndHeight(cp["contract"], cp["code"], BlocksPerCall)
    IN  /\ cp["contract"] < end
        /\ IF InRange(cp["contract"], end, "instantiate") # {}
           THEN insert = Idle /\ insert' = GetContractData("job", end) /\ UNCHANGED cp
           ELSE cp' = [cp EXCEPT !["contract"] = end] /\ UNCHANGED insert
        /\ UNCHANGED <<chain, old, crawled, codes, rows, passed, mixed, restored>>

(* mutant: the type is patched before the missing code is stored           *)
PatchTypeFirst(c) == [codes EXCEPT ![c] = IF @ = "none" THEN "untyped" ELSE "typed"]

(* A code that is missing is stored (CrawlMissingCode), then it gets its   *)
(* type, both outside the transaction of the contract.                     *)
PatchType(c) == [codes EXCEPT ![c] = "typed"]

PatchTypes ==
    /\ insert.pc = "patch"
    /\ codes' = PatchType(insert.code)
    /\ restored' = restored \ {insert.code}
    /\ insert' = [insert EXCEPT !.pc = "insert"]
    /\ UNCHANGED <<chain, old, crawled, cp, rows, passed, mixed>>

(* smart_contract.code_id refers to code.                                  *)
ForeignKey(c) == codes[c] # "none"

InsertNewContracts ==
    /\ insert.pc = "insert" /\ ForeignKey(insert.code)
    /\ rows' = Append(rows, [code |-> insert.code, status |-> "LATEST", by |-> "node"])
    /\ cp' = IF insert.who = "job" THEN [cp EXCEPT !["contract"] = insert.end] ELSE cp
    /\ insert' = Idle
    /\ UNCHANGED <<chain, old, crawled, codes, passed, mixed, restored>>

InsertAborts ==
    /\ insert # Idle /\ insert' = Idle
    /\ passed' = FALSE
    /\ UNCHANGED <<chain, old, crawled, cp, codes, rows, mixed, restored>>
-----------------------------------------------------------------------------
(* mutant: the row from before the migration stays the latest one          *)
MigratedStays(c) == Append(rows, [code |-> c, status |-> "LATEST", by |-> "migration"])

Migrated(c) ==
    [k \in DOMAIN rows |-> [rows[k] EXCEPT !.status = "MIGRATED"]]
        \o [k \in 1 .. Len(SelectSeq(rows, LAMBDA r : r.status = "LATEST")) |->
              [code |-> c, status |-> "LATEST", by |-> "migration"]]

(* Of several migrations of the contract in a range, which are read        *)
(* without an order, one is kept.  Without a row nothing is done.  An      *)
(* insertion that is refused fails the transaction: the job throws.        *)
HandleMigrateContract ==
    LET end == EndHeight(cp["migrate"], cp["code"], BlocksPerCall)
        migrations == InRange(cp["migrate"], end, "migrate")
    IN  /\ cp["migrate"] < end
        /\ IF migrations = {} \/ rows = <<>> THEN UNCHANGED <<rows, mixed>>
           ELSE /\ \E h \in migrations : ForeignKey(chain[h].what) /\ rows' = Migrated(chain[h].what)
                /\ mixed' = (Cardinality(migrations) > 1)
        /\ passed' = \/ passed /\ (migrations = {} \/ rows = <<>>)
                     \/ rows = <<>> /\ insert # Idle /\ \E h \in migrations : h > insert.height
        /\ cp' = [cp EXCEPT !["migrate"] = end]
        /\ UNCHANGED <<chain, old, crawled, codes, insert, restored>>

(* CRAWL_CONTRACT_EVENT: for a contract without a row it calls             *)
(* CrawlMissingContract, and throws, since it does not read the row again. *)
CrawlContractEvent ==
    LET end == EndHeight(cp["event"], cp["contract"], BlocksPerCall)
        active == \E does \in {"instantiate", "execute"} : InRange(cp["event"], end, does) # {}
    IN  /\ cp["event"] < end
        /\ IF active /\ rows = <<>>
           THEN insert = Idle /\ insert' = GetContractData("missing", end) /\ UNCHANGED cp
           ELSE cp' = [cp EXCEPT !["event"] = end] /\ UNCHANGED insert
        /\ UNCHANGED <<chain, old, crawled, codes, rows, passed, mixed, restored>>

Next ==
    \/ NewBlock \/ HandleTx \/ CrawlCode
    \/ CrawlSmartContract \/ PatchTypes \/ InsertNewContracts \/ InsertAborts
    \/ HandleMigrateContract \/ CrawlContractEvent

Spec == Init /\ [][Next]_vars
-----------------------------------------------------------------------------
(* Properties                                                              *)

(* A stored contract has one row that is LATEST, with the code that it has *)
(* at the checkpoint of HANDLE_MIGRATE_CONTRACT or at a later block,       *)
(* however the jobs overtake each other; unless that job passed one while a*)
(* row with an older answer of the node was about to be stored, or several *)
(* migrations fell into one range.  The next migration repairs both.       *)
LatestCode ==
    rows # <<>> =>
        LET latest == SelectSeq(rows, LAMBDA r : r.status = "LATEST")
        IN  /\ Len(latest) = 1
            /\ passed \/ mixed \/ \E h \in cp["migrate"] .. head : CodeAt(h) = latest[1].code

(* The foreign key refuses no contract, although the block of its code may *)
(* be further than CRAWL_CODE, and no migration but one to a code from     *)
(* before the first block.  The code has its type when a contract was      *)
(* stored with it; unless CRAWL_CODE, coming to that block, has stored the *)
(* code again without one.                                                 *)
CodeTyped ==
    /\ insert.pc = "insert" => ForeignKey(insert.code)
    /\ \A h \in InRange(0, cp["code"], "migrate") : ForeignKey(chain[h].what) \/ chain[h].what = old
    /\ \A k \in DOMAIN rows :
          rows[k].by = "node" => codes[rows[k].code] = "typed" \/ rows[k].code \in restored
=============================================================================
