----------------------------- MODULE MCJobGraph -----------------------------
(* The EVM jobs up to the ERC-20 balances: the deepest path of the graph,  *)
(* both of its joins, and every guard.                                     *)
EXTENDS JobGraph

EvmJobs ==
    {"HANDLE_TRANSACTION_EVM", "JOB_CRAWL_EVM_EVENT", "EVM_CRAWL_INTERNAL_TX",
     "CRAWL_SMART_CONTRACT_EVM", "HANDLE_EVM_PROXY_HISTORY",
     "HANDLE_ERC20_CONTRACT", "HANDLE_ERC20_ACTIVITY", "HANDLE_ERC20_BALANCE"}

PerCall == [j \in Active |-> 2]
=============================================================================
