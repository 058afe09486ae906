---------------------------- MODULE EvmContracts ----------------------------
(***************************************************************************)
(* The jobs that follow the contracts of the EVM: HANDLE_TRANSACTION_EVM   *)
(* stores the Ethereum messages, JOB_CRAWL_EVM_EVENT their logs and        *)
(* EVM_CRAWL_INTERNAL_TX the calls inside them; CRAWL_SMART_CONTRACT_EVM   *)
(* asks the node about every address in the rows and stores the contracts, *)
(* with the message that seems to have created them;                       *)
(* HANDLE_EVM_PROXY_HISTORY stores the implementations of the proxies.     *)
(*                                                                         *)
(* One address is followed, on a chain that is fixed from the start: what  *)
(* lies ahead of the jobs the node may know already, or not yet.  The      *)
(* Ethereum messages of a block are in one transaction, and a message is a *)
(* record:                                                                 *)
(*   height                                                                *)
(*   kind  "deploy" creates the contract, "factory" has another contract   *)
(*         create it, "call" and "send" are to the address, with and       *)
(*         without data, and "other" creates another contract              *)
(*   ok    whether it succeeds                                             *)
(*   log   what the contract logs: "none", "plain" or an implementation    *)
(* The hash of a message is its place in the chain.                        *)
(***************************************************************************)
EXTENDS Naturals

CONSTANTS
    Top,            \* the height of the chain
    Messages,       \* the messages of the chain
    Implementation, \* the implementations a proxy can have
    BlocksPerCall   \* the blocks that one run of a job takes

VARIABLES
    chain,              \* the messages of the chain
    checkpoint,         \* the checkpoints of the five jobs
    evm_transaction,    \* the hashes of the messages that are stored
    evm_event,          \* the logs: [tx_hash, evm_tx_id, topic]
    evm_internal,       \* the messages with a stored creation inside them
    contract,           \* the created_hash of the contract, Unknown or NotStored
    history             \* evm_proxy_history: [height, implementation]

evmVars == <<chain, checkpoint, evm_transaction, evm_event, evm_internal, contract, history>>

None == "none"
NotStored == 0
Unknown == Messages + 1

EvmJob == {"tx", "event", "internal", "contract", "proxy"}
Message ==
    [height : 1 .. Top, kind : {"deploy", "factory", "call", "send", "other"},
     ok : BOOLEAN, log : Implementation \cup {None, "plain"}]
-----------------------------------------------------------------------------
Hash == DOMAIN chain
Creates(m) == m.kind \in {"deploy", "factory"} /\ m.ok
Creation == {hash \in Hash : Creates(chain[hash])}

(* What a chain allows: heights grow, the contract is created once, the    *)
(* address of a deployment serves once, and only a contract logs.          *)
Legal(c, i) ==
    LET m == c[i]
        before == 1 .. (i - 1)
    IN  /\ \A j \in before : c[j].height <= m.height
        /\ m.kind = "deploy" => \A j \in before : c[j].kind \notin {"deploy", "factory"}
        /\ m.kind = "factory" => \A j \in before : c[j].kind # "deploy" /\ ~ Creates(c[j])
        /\ m.log # None => m.ok /\ \E j \in 1 .. i : Creates(c[j])
        /\ ~ m.ok => m.kind \in {"deploy", "factory"}
        /\ m.kind = "other" => m.log # None

Chains == {c \in [1 .. Messages -> Message] : \A i \in 1 .. Messages : Legal(c, i)}
-----------------------------------------------------------------------------
(* The heights that a run of a job takes: those after its checkpoint, up   *)
(* to a bound that the jobs give on which it depends.                      *)
Least(a, b) == IF a < b THEN a ELSE b
End(job, bound) == Least(checkpoint[job] + BlocksPerCall, bound)
InRange(hashes, job, end) ==
    {hash \in hashes : checkpoint[job] < chain[hash].height /\ chain[hash].height <= end}

(* A job that has nothing to do leaves everything as it is.                *)
Moves(job, end) == checkpoint[job] < end /\ checkpoint' = [checkpoint EXCEPT ![job] = end]

(* The messages of the transactions that HANDLE_TRANSACTION has stored.    *)
HandleTransactionEVM ==
    \E stored \in 1 .. Top :
        LET end == End("tx", stored)
        IN  /\ Moves("tx", end)
            /\ evm_transaction' = evm_transaction \cup InRange(Hash, "tx", end)
            /\ UNCHANGED <<chain, evm_event, evm_internal, contract, history>>

(* A log is given to a message of its transaction: to the one that comes   *)
(* last in the order in which the rows of the transaction are read.        *)
CrawlEvmEvent ==
    LET end == End("event", checkpoint["tx"])
        logs == {hash \in InRange(Hash, "event", end) : chain[hash].log # None}
    IN  /\ Moves("event", end)
        /\ \E last \in [logs -> evm_transaction] :
              /\ \A hash \in logs : chain[last[hash]].height = chain[hash].height
              /\ \A hash, other \in logs :
                    chain[hash].height = chain[other].height => last[hash] = last[other]
              /\ evm_event' = evm_event \cup
                    {[tx_hash |-> hash, evm_tx_id |-> last[hash], topic |-> chain[hash].log] : hash \in logs}
        /\ UNCHANGED <<chain, evm_transaction, evm_internal, contract, history>>

(* The creations inside messages, also inside those that fail.  A message  *)
(* that the node cannot trace has none.                                    *)
EvmCrawlInternalTx ==
    LET end == End("internal", checkpoint["tx"])
        inner == {hash \in InRange(evm_transaction, "internal", end) : chain[hash].kind = "factory"}
    IN  /\ Moves("internal", end)
        /\ \E traced \in SUBSET inner : evm_internal' = evm_internal \cup traced
        /\ UNCHANGED <<chain, evm_transaction, evm_event, contract, history>>
-----------------------------------------------------------------------------
ContractEnd == End("contract", Least(checkpoint["event"], checkpoint["internal"]))

(* The stored messages in whose rows the address is.                       *)
Mentions(end) ==
    {hash \in InRange(evm_transaction, "contract", end) :
        \/ chain[hash].kind \in {"deploy", "call", "send"}
        \/ hash \in evm_internal
        \/ \E e \in evm_event : e.evm_tx_id = hash}

(* mutant: creations inside messages are not looked at                     *)
CreatorOutside(hash, end) ==
    IF chain[hash].kind \in {"deploy", "other"} THEN hash ELSE Unknown

(* The created_hash that a message gives: its own when it has data and     *)
(* creates any contract, or when any message of the run creates this one   *)
(* inside.                                                                 *)
Creator(hash, end) ==
    IF \/ chain[hash].kind \in {"deploy", "other"}
       \/ chain[hash].kind # "send" /\ InRange(evm_internal, "contract", end) # {}
    THEN hash ELSE Unknown

(* The node is asked for the code of the address once for each message,    *)
(* all at the same time, and the answer that comes first is the one that   *)
(* is stored.  Code that is created after the range may be there already.  *)
CrawlSmartContractEVM ==
    LET end == ContractEnd
        asked == IF contract = NotStored THEN Mentions(end) ELSE {}
        created == \E c \in Creation : chain[c].height <= end
    IN  /\ Moves("contract", end)
        /\ \/ Creation # {} /\ \E hash \in asked : contract' = Creator(hash, end)
           \/ (asked = {} \/ ~ created) /\ UNCHANGED contract
        /\ UNCHANGED <<chain, evm_transaction, evm_event, evm_internal, history>>
-----------------------------------------------------------------------------
(* mutant: the job does not wait for the contracts                         *)
ProxyEndOfEvents == End("proxy", checkpoint["event"])

ProxyEnd == End("proxy", checkpoint["contract"])

(* An Upgraded event gives a row if its contract is stored.  Of several in *)
(* a block one is kept, the last in the order in which they are read.  For *)
(* other events of a proxy without a row the node is asked at a height     *)
(* that is not a number: no implementation comes of it.                    *)
Upgrades(height) ==
    {e.topic : e \in {e \in evm_event : chain[e.tx_hash].height = height /\ e.topic \in Implementation}}
HandleEvmProxyHistory ==
    LET heights == {h \in (checkpoint["proxy"] + 1) .. ProxyEnd : contract # NotStored /\ Upgrades(h) # {}}
    IN  /\ Moves("proxy", ProxyEnd)
        /\ \E kept \in [heights -> Implementation] :
              /\ \A h \in heights : kept[h] \in Upgrades(h)
              /\ history' = history \cup {[height |-> h, implementation |-> kept[h]] : h \in heights}
        /\ UNCHANGED <<chain, evm_transaction, evm_event, evm_internal, contract>>
-----------------------------------------------------------------------------
EvmInit ==
    /\ chain \in Chains /\ checkpoint = [job \in EvmJob |-> 0]
    /\ evm_transaction = {} /\ evm_event = {} /\ evm_internal = {}
    /\ contract = NotStored /\ history = {}

EvmNext ==
    \/ HandleTransactionEVM \/ CrawlEvmEvent \/ EvmCrawlInternalTx
    \/ CrawlSmartContractEVM \/ HandleEvmProxyHistory

EvmSpec == EvmInit /\ [][EvmNext]_evmVars
-----------------------------------------------------------------------------
ConstantsTyped ==
    /\ Top \in Nat /\ Messages \in Nat /\ BlocksPerCall \in Nat \ {0}
    /\ None \notin Implementation

(* A message that comes near the creation of the contract: it is about the *)
(* address, or shares its transaction with one that logs; and it lies      *)
(* before the creation, where a late run already sees the code, or in the  *)
(* blocks after it that one run may take together with it.                 *)
Meddles(hash, c) ==
    /\ hash # c /\ chain[hash].height < chain[c].height + BlocksPerCall
    /\ \/ chain[hash].kind # "other"
       \/ \E h \in Hash : chain[h].height = chain[hash].height /\ chain[h].log # None

(* The node could not trace the message that creates the contract.         *)
Untraced(c) == chain[c].kind = "factory" /\ c \notin evm_internal

(* CRAWL_SMART_CONTRACT_EVM stores every contract whose creation it has    *)
(* passed, with the message that created it as created_hash, unless the    *)
(* node could not trace that message or another message meddles.           *)
CreatorsRight ==
    \A c \in Creation :
        \/ chain[c].height > checkpoint["contract"] /\ contract = NotStored
        \/ Untraced(c)
        \/ contract = c
        \/ contract # NotStored /\ \E hash \in Hash : Meddles(hash, c)

(* At every height that HANDLE_EVM_PROXY_HISTORY has passed the latest row *)
(* of the proxy has the implementation that the proxy last announced, or   *)
(* another one that it announced in the same block.                        *)
LatestUpTo(height, rows) ==
    {r \in rows : r.height <= height /\ \A s \in rows : s.height <= height => s.height <= r.height}
Announced ==
    {[height |-> chain[hash].height, implementation |-> chain[hash].log]
        : hash \in {h \in Hash : chain[h].log \in Implementation}}
ProxiesCurrent ==
    \A h \in 1 .. checkpoint["proxy"] :
        LET row == LatestUpTo(h, history)
        IN  /\ \A r, s \in row : r = s
            /\ row \subseteq LatestUpTo(h, Announced)
            /\ row = {} => LatestUpTo(h, Announced) = {}
=============================================================================
