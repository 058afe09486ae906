------------------------------ MODULE MCLoads -------------------------------
(***************************************************************************)
(* Loads that jobs take in or pass on to each other: the genesis file, the *)
(* events of a transaction, the codes and contracts of CosmWasm, the       *)
(* contracts of the EVM, and the requests to verify one.  A behaviour      *)
(* exercises one of them, the one that scope names; the variables of the   *)
(* others stay Idle, those of EvmContracts and Verification stay at a      *)
(* first state.                                                            *)
(***************************************************************************)
EXTENDS Verification, EvmContracts, Integers

CONSTANTS
    Chunks,     \* the chunks of the genesis file
    WasmTop,    \* the height of the chain in the behaviours of CosmWasm
    Code,       \* the codes of CosmWasm
    Incidents   \* deaths of the process and failures of jobs, for the genesis file

VARIABLES
    scope, cp, old, tx, events, sender,
    file, request, genesisRequests, waiting, ending, stored, typed, foreign, exited, faults, budget,
    wasmChain, oldCodes, crawled, codes, insert, passed, mixed, restored, rows

genesisOnly ==
    <<file, request, genesisRequests, waiting, ending, stored, typed, foreign, exited, faults, budget>>
txOnly == <<old, tx, events, sender>>
wasmOnly == <<wasmChain, oldCodes, crawled, codes, insert, passed, mixed, restored, rows>>
mcVars == <<scope, cp, genesisOnly, txOnly, wasmOnly, evmVars, vars>>

Idle == "idle"
GenesisIdle ==
    /\ file = Idle /\ request = Idle /\ genesisRequests = Idle /\ waiting = Idle /\ ending = Idle
    /\ stored = Idle /\ typed = Idle /\ foreign = Idle /\ exited = Idle /\ faults = Idle
    /\ budget = Idle
TxIdle == old = Idle /\ tx = Idle /\ events = Idle /\ sender = Idle
WasmIdle ==
    /\ wasmChain = Idle /\ oldCodes = Idle /\ crawled = Idle /\ codes = Idle
    /\ insert = Idle /\ passed = Idle /\ mixed = Idle /\ restored = Idle /\ rows = Idle
FirstChain == CHOOSE c \in Chains : TRUE

(* Uploads with the metadata in one file or in the output of Hardhat, with *)
(* a malformed file, with a missing source, and of another type.           *)
Source(h) == [kind |-> "source", hash |-> h]
MetadataFile(n, d, c) ==
    [kind |-> "metadata", targets |-> n, deployed |-> d, sources |-> <<[hash |-> 1, content |-> c]>>]
Hardhat(m, h) == [kind |-> "hardhat", metadata |-> {m}, hashes |-> {h}]
Upload(k, fs, n) == [kind |-> k, files |-> fs, nightly |-> n]
SomeUploads ==
    {Upload("zip", <<MetadataFile(1, FALSE, "right"), MetadataFile(1, TRUE, "none"), Source(1)>>, FALSE),
     Upload("json", <<Hardhat(MetadataFile(2, TRUE, "none"), 1)>>, TRUE),
     Upload("zip", <<MetadataFile(1, TRUE, "right"), MetadataFile(2, TRUE, "right")>>, FALSE),
     Upload("json", <<MetadataFile(1, TRUE, "none"), MetadataFile(1, TRUE, "wrong")>>, FALSE),
     Upload("other", <<>>, FALSE)}

SomeEvents ==
    {[type |-> "tx", value |-> "word"], [type |-> "transfer", value |-> "word"],
     [type |-> "transfer", value |-> "base"], [type |-> "message", value |-> "ann"],
     [type |-> "message", value |-> "bob"]}

Gen == INSTANCE Genesis WITH requests <- genesisRequests
Txs ==
    INSTANCE TxEvents WITH
        rows <- events, LastEventsTypeTx <- {"tx"}, Lookalike <- {"base"}, Events <- SomeEvents, AnteEvents <- 2
Wasm ==
    INSTANCE Wasm WITH
        chain <- wasmChain, old <- oldCodes, Top <- WasmTop, StartBlock <- 0, BlocksPerCall <- 2
-----------------------------------------------------------------------------
MCInit ==
    /\ \/ scope = "genesis" /\ Gen!Init /\ TxIdle /\ WasmIdle /\ chain = FirstChain
       \/ scope = "tx" /\ Txs!Init /\ GenesisIdle /\ WasmIdle /\ cp = Idle /\ chain = FirstChain
       \/ scope = "wasm" /\ Wasm!Init /\ GenesisIdle /\ TxIdle /\ chain = FirstChain
       \/ scope = "evm" /\ GenesisIdle /\ TxIdle /\ WasmIdle /\ cp = Idle
       \/ scope = "verify" /\ GenesisIdle /\ TxIdle /\ WasmIdle /\ cp = Idle /\ chain = FirstChain
    /\ EvmInit /\ Init

MCNext ==
    /\ \/ scope = "genesis" /\ Gen!Next /\ UNCHANGED <<txOnly, wasmOnly, evmVars, vars>>
       \/ scope = "tx" /\ Txs!InsertRelatedTx /\ UNCHANGED <<cp, genesisOnly, wasmOnly, evmVars, vars>>
       \/ scope = "wasm" /\ Wasm!Next /\ UNCHANGED <<genesisOnly, txOnly, evmVars, vars>>
       \/ scope = "evm" /\ EvmNext /\ UNCHANGED <<cp, genesisOnly, txOnly, wasmOnly, vars>>
       \/ scope = "verify" /\ Next /\ UNCHANGED <<cp, genesisOnly, txOnly, wasmOnly, evmVars>>
    /\ UNCHANGED scope

(* The job that verifies is repeated, and a run of it ends.                *)
VerifyJob ==
    scope = "verify" /\ Job /\ UNCHANGED <<scope, cp, genesisOnly, txOnly, wasmOnly, evmVars>>

MCSpec == MCInit /\ [][MCNext]_mcVars /\ WF_mcVars(VerifyJob)
-----------------------------------------------------------------------------
(* CRAWL_GENESIS and its jobs store every part of the genesis file once,   *)
(* whatever dies on the way, but for the named faults.                     *)
GenesisLoaded == scope = "genesis" => Gen!GenesisLoaded

(* HANDLE_TRANSACTION gives every event the message that emitted it, and   *)
(* every message the account that signed it, but for the cases that        *)
(* TxEvents names.                                                         *)
EventsIndexed == scope = "tx" => Txs!EventsIndexed /\ Txs!SenderSigned

(* The latest row of smart_contract has the code that the contract has, as *)
(* of the checkpoint of HANDLE_MIGRATE_CONTRACT; the code of every stored  *)
(* contract is stored, and has its type unless CRAWL_CODE has stored it    *)
(* again since.                                                            *)
ContractsExact == scope = "wasm" => Wasm!LatestCode /\ Wasm!CodeTyped
=============================================================================
