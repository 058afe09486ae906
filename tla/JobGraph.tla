------------------------------ MODULE JobGraph ------------------------------
(***************************************************************************)
(* The jobs that consume the ingested tables.  Each is one repeatable job: *)
(* it asks getCheckpoint for the range (start, end] that its dependencies  *)
(* allow, returns at once if its guard says the range is empty, reads the  *)
(* rows of the range from the tables of its dependencies (and the chain),  *)
(* and in one transaction writes the rows derived from them and moves its  *)
(* checkpoint to end.  What the rows say is abstracted here: done counts,  *)
(* by job and height, how often the rows of a block have been derived.     *)
(*                                                                         *)
(* The jobs differ in what they depend on, in the size of their range and  *)
(* in their guard: "ge" returns on start >= end, "gt" on start > end, and  *)
(* "none" always goes on and writes end to the checkpoint, even if end is  *)
(* 0 because no dependency has a row yet.                                  *)
(***************************************************************************)
EXTENDS Checkpoint

CONSTANTS
    Active,     \* the jobs of the deployment
    StepOf,     \* config.<job>.blocksPerCall, by job
    TopBlock    \* bound: HANDLE_TRANSACTION stops here

Consumer(deps, guard) == [deps |-> deps, guard |-> guard]

(* transactions                                                            *)
HANDLE_COIN_TRANSFER == Consumer({"HANDLE_TRANSACTION"}, "ge")
HANDLE_AUTHZ_TX == Consumer({"HANDLE_TRANSACTION"}, "gt")
JOB_UPDATE_TX_COUNT_IN_BLOCK == Consumer({"CRAWL_BLOCK"}, "gt")
HANDLE_VOTE_TX == Consumer({"HANDLE_AUTHZ_TX"}, "gt")
HANDLE_ADDRESS == Consumer({"HANDLE_TRANSACTION"}, "ge")
CRAWL_PROPOSAL == Consumer({"HANDLE_TRANSACTION"}, "ge")
HANDLE_FEEGRANT == Consumer({"HANDLE_TRANSACTION"}, "ge")
(* validators                                                              *)
CRAWL_VALIDATOR == Consumer({"HANDLE_TRANSACTION"}, "ge")
HANDLE_STAKE_EVENT == Consumer({"HANDLE_TRANSACTION", "CRAWL_VALIDATOR"}, "ge")
(* IBC                                                                     *)
CRAWL_IBC_TAO == Consumer({"HANDLE_TRANSACTION"}, "gt")
CRAWL_IBC_APP == Consumer({"CRAWL_IBC_TAO"}, "gt")
CRAWL_IBC_ICS20 == Consumer({"CRAWL_IBC_APP"}, "gt")
(* CosmWasm                                                                *)
CRAWL_CODE == Consumer({"HANDLE_TRANSACTION"}, "ge")
CRAWL_SMART_CONTRACT == Consumer({"CRAWL_CODE"}, "ge")
HANDLE_MIGRATE_CONTRACT == Consumer({"CRAWL_CODE"}, "ge")
CRAWL_CONTRACT_EVENT == Consumer({"CRAWL_SMART_CONTRACT"}, "ge")
HANDLE_CW20 == Consumer({"CRAWL_CONTRACT_EVENT"}, "ge")
HANDLE_CW721_TRANSACTION == Consumer({"CRAWL_CONTRACT_EVENT"}, "ge")
(* EVM                                                                     *)
HANDLE_TRANSACTION_EVM == Consumer({"HANDLE_TRANSACTION"}, "ge")
JOB_CRAWL_EVM_EVENT == Consumer({"HANDLE_TRANSACTION_EVM"}, "none")
EVM_CRAWL_INTERNAL_TX == Consumer({"HANDLE_TRANSACTION_EVM"}, "ge")
CRAWL_SMART_CONTRACT_EVM ==
    Consumer({"JOB_CRAWL_EVM_EVENT", "EVM_CRAWL_INTERNAL_TX"}, "ge")
HANDLE_EVM_PROXY_HISTORY == Consumer({"CRAWL_SMART_CONTRACT_EVM"}, "none")
HANDLE_ERC20_CONTRACT == Consumer({"CRAWL_SMART_CONTRACT_EVM"}, "none")
HANDLE_ERC20_ACTIVITY ==
    Consumer({"HANDLE_ERC20_CONTRACT", "HANDLE_EVM_PROXY_HISTORY"}, "none")
HANDLE_ERC20_BALANCE == Consumer({"HANDLE_ERC20_ACTIVITY"}, "none")
HANDLE_ERC721_CONTRACT == Consumer({"CRAWL_SMART_CONTRACT_EVM"}, "none")
HANDLE_ERC721_ACTIVITY ==
    Consumer({"HANDLE_ERC721_CONTRACT", "HANDLE_EVM_PROXY_HISTORY"}, "none")

Table ==
    [HANDLE_COIN_TRANSFER |-> HANDLE_COIN_TRANSFER,
     HANDLE_AUTHZ_TX |-> HANDLE_AUTHZ_TX,
     JOB_UPDATE_TX_COUNT_IN_BLOCK |-> JOB_UPDATE_TX_COUNT_IN_BLOCK,
     HANDLE_VOTE_TX |-> HANDLE_VOTE_TX,
     HANDLE_ADDRESS |-> HANDLE_ADDRESS,
     CRAWL_PROPOSAL |-> CRAWL_PROPOSAL,
     HANDLE_FEEGRANT |-> HANDLE_FEEGRANT,
     CRAWL_VALIDATOR |-> CRAWL_VALIDATOR,
     HANDLE_STAKE_EVENT |-> HANDLE_STAKE_EVENT,
     CRAWL_IBC_TAO |-> CRAWL_IBC_TAO,
     CRAWL_IBC_APP |-> CRAWL_IBC_APP,
     CRAWL_IBC_ICS20 |-> CRAWL_IBC_ICS20,
     CRAWL_CODE |-> CRAWL_CODE,
     CRAWL_SMART_CONTRACT |-> CRAWL_SMART_CONTRACT,
     HANDLE_MIGRATE_CONTRACT |-> HANDLE_MIGRATE_CONTRACT,
     CRAWL_CONTRACT_EVENT |-> CRAWL_CONTRACT_EVENT,
     HANDLE_CW20 |-> HANDLE_CW20,
     HANDLE_CW721_TRANSACTION |-> HANDLE_CW721_TRANSACTION,
     HANDLE_TRANSACTION_EVM |-> HANDLE_TRANSACTION_EVM,
     JOB_CRAWL_EVM_EVENT |-> JOB_CRAWL_EVM_EVENT,
     EVM_CRAWL_INTERNAL_TX |-> EVM_CRAWL_INTERNAL_TX,
     CRAWL_SMART_CONTRACT_EVM |-> CRAWL_SMART_CONTRACT_EVM,
     HANDLE_EVM_PROXY_HISTORY |-> HANDLE_EVM_PROXY_HISTORY,
     HANDLE_ERC20_CONTRACT |-> HANDLE_ERC20_CONTRACT,
     HANDLE_ERC20_ACTIVITY |-> HANDLE_ERC20_ACTIVITY,
     HANDLE_ERC20_BALANCE |-> HANDLE_ERC20_BALANCE,
     HANDLE_ERC721_CONTRACT |-> HANDLE_ERC721_CONTRACT,
     HANDLE_ERC721_ACTIVITY |-> HANDLE_ERC721_ACTIVITY]

Deps(j) == Table[j].deps
Guard(j) == Table[j].guard

(* The jobs of the ingestion pipeline that the others depend on.           *)
Sources == {s \in {"CRAWL_BLOCK", "HANDLE_TRANSACTION"} : \E j \in Active : s \in Deps(j)}

All == Active \cup Sources
Heights == (StartBlock + 1) .. TopBlock

(* A job runs in a deployment that also runs the jobs it depends on.       *)
ASSUME GraphAssumption ==
    /\ Active \subseteq DOMAIN Table /\ Active \cap Sources = {}
    /\ \A j \in Active : Guard(j) \in {"ge", "gt", "none"}
    /\ \A j \in Active : Deps(j) # {} /\ Deps(j) \subseteq All
    /\ StepOf \in [Active -> {NoStep} \cup (Nat \ {0})]
    /\ TopBlock \in Nat

VARIABLES
    fresh,   \* does the indexer start with no checkpoint at all?
    cp,      \* block_checkpoint: job -> height, or NoRow
    done,    \* job -> height -> how often the block's rows were derived
    busy,    \* the jobs that are running
    from,    \* job -> the start of the range it runs on
    to       \* job -> the end of that range

jobVars == <<fresh, cp, done, busy, from, to>>

(* An empty database, or an indexer that has caught up with a chain of     *)
(* height StartBlock and whose every job has its row.                      *)
JobInit ==
    /\ fresh \in BOOLEAN
    /\ cp = [j \in All |-> IF fresh THEN NoRow ELSE StartBlock]
    /\ done = [j \in All |-> [h \in Heights |-> 0]]
    /\ busy = {}
    /\ from = [j \in Active |-> StartBlock]
    /\ to = [j \in Active |-> StartBlock]

(* A source finishes its next block.                                       *)
Ingest(s) ==
    LET h == StartHeight(cp[s]) + 1
    IN  /\ h <= TopBlock
        /\ cp' = [cp EXCEPT ![s] = h]
        /\ done' = [done EXCEPT ![s] = [@ EXCEPT ![h] = 1]]
        /\ UNCHANGED <<fresh, busy, from, to>>

(* mutant: no job returns early                                            *)
EmptyRangeNever(j, start, end) == FALSE

EmptyRange(j, start, end) ==
    CASE Guard(j) = "ge" -> start >= end
      [] Guard(j) = "gt" -> start > end
      [] OTHER -> FALSE

(* getCheckpoint and the early return; the rows of the range are then read *)
(* from tables that only grow above it.                                    *)
Start(j) ==
    LET start == StartHeight(cp[j])
        end == EndHeight(start, LastHeight(cp, Deps(j)), StepOf[j])
    IN  /\ j \notin busy
        /\ ~ EmptyRange(j, start, end)
        /\ busy' = busy \cup {j}
        /\ from' = [from EXCEPT ![j] = start]
        /\ to' = [to EXCEPT ![j] = end]
        /\ UNCHANGED <<fresh, cp, done>>

Stop(j) ==
    /\ busy' = busy \ {j}
    /\ from' = [from EXCEPT ![j] = StartBlock]
    /\ to' = [to EXCEPT ![j] = StartBlock]
    /\ UNCHANGED fresh

(* mutant: the query skips the first block of the range                    *)
CommitSkipsFirst(j) ==
    /\ j \in busy
    /\ done' = [done EXCEPT ![j] =
          [h \in Heights |-> IF from[j] + 1 < h /\ h <= to[j] THEN @[h] + 1 ELSE @[h]]]
    /\ cp' = [cp EXCEPT ![j] = to[j]]
    /\ Stop(j)

(* One transaction: the derived rows, and the checkpoint.                  *)
Commit(j) ==
    /\ j \in busy
    /\ done' = [done EXCEPT ![j] =
          [h \in Heights |-> IF from[j] < h /\ h <= to[j] THEN @[h] + 1 ELSE @[h]]]
    /\ cp' = [cp EXCEPT ![j] = to[j]]
    /\ Stop(j)

(* An exception, a refused write or the death of the process.              *)
Abort(j) ==
    /\ j \in busy
    /\ Stop(j)
    /\ UNCHANGED <<cp, done>>

JobNext ==
    \/ \E s \in Sources : Ingest(s)
    \/ \E j \in Active : Start(j) \/ Commit(j) \/ Abort(j)

JobSpec == JobInit /\ [][JobNext]_jobVars
-----------------------------------------------------------------------------
(* Properties                                                              *)

(* Every variable keeps its type.                                          *)
TypeOK ==
    /\ fresh \in BOOLEAN
    /\ cp \in [All -> {NoRow} \cup Nat]
    /\ done \in [All -> [Heights -> Nat]]
    /\ busy \subseteq Active
    /\ from \in [Active -> Nat]
    /\ to \in [Active -> Nat]

Derived(j, h) == done[j][h] > 0

(* "if your job want to process block A, it needs to wait util those jobs  *)
(* process success block A": no job derives a block that a job it depends  *)
(* on has not derived.                                                     *)
WaitsForDependencies ==
    \A j \in Active : \A d \in Deps(j), h \in Heights : Derived(j, h) => Derived(d, h)

(* ... which holds once every job has a row, and then no block is derived  *)
(* twice, with any guard.                                                  *)
EstablishedInOrder ==
    ~ fresh => /\ WaitsForDependencies
               /\ \A j \in Active, h \in Heights : done[j][h] <= 1

(* From an empty database too, a job with a guard derives no block twice.  *)
GuardedOnce ==
    \A j \in Active, h \in Heights : Guard(j) # "none" => done[j][h] <= 1

(* A checkpoint vouches for the blocks below it.                           *)
NoGap == \A j \in All, h \in Heights : h <= cp[j] => Derived(j, h)

(* Why they hold.  Nobody else moves the row a job has read, and a guard   *)
(* keeps it from moving back; when every job has a row, a job's row stays  *)
(* at or below those of its dependencies, so its range is never turned     *)
(* around, and everything derived lies at or below the row.                *)
JobSteady(j) ==
    /\ j \in busy => /\ from[j] = StartHeight(cp[j])
                     /\ Guard(j) # "none" => from[j] <= to[j]
    /\ Guard(j) # "none" =>
          \A h \in Heights : /\ done[j][h] <= 1
                             /\ Derived(j, h) => h <= cp[j]

Steady == \A j \in Active : JobSteady(j)

JobSettled(j) ==
    \A d \in Deps(j) : /\ cp[j] <= cp[d]
                       /\ j \in busy => from[j] <= to[j] /\ to[j] <= cp[d]

Settled ==
    /\ \A j \in All : cp[j] # NoRow
    /\ \A j \in Active : JobSettled(j)
    /\ \A j \in All, h \in Heights : done[j][h] <= 1 /\ (Derived(j, h) => h <= cp[j])

GInv == TypeOK /\ NoGap /\ Steady /\ (~ fresh => Settled)
=============================================================================
