------------------------------- MODULE Erc721 -------------------------------
(***************************************************************************)
(* One ERC-721 contract: HANDLE_ERC721_CONTRACT stores it when it is one   *)
(* by its own code, and HANDLE_EVM_PROXY_HISTORY, after its commit, when   *)
(* it is a proxy of one.  HANDLE_ERC721_ACTIVITY follows both and turns    *)
(* the events of the stored contract into activities and token owners.     *)
(* None stands for the zero address.                                       *)
(***************************************************************************)
EXTENDS NftChain

CONSTANT BlocksPerCall

VARIABLES
    proxy,      \* is the contract a proxy?
    upgrades,   \* the blocks that set the implementation of the proxy
    crawled,    \* block_checkpoint of CRAWL_SMART_CONTRACT_EVM
    cp,         \* block_checkpoint of the three jobs
    calls,      \* has the call of insertNewErc721Contracts still to be made?
    stored,     \* is there a row in erc721_contract?
    missed,     \* the events that HANDLE_ERC721_ACTIVITY passed before
    tokens,     \* the table erc721_token: token |-> owner
    activity    \* the table erc721_activity: ids of events

vars == <<head, events, proxy, upgrades, crawled, cp, calls, stored, missed, tokens, activity>>

Created == StartBlock + 1
-----------------------------------------------------------------------------
Init ==
    /\ head = StartBlock /\ events = <<>> /\ crawled = StartBlock
    /\ proxy \in BOOLEAN
    /\ upgrades \in IF proxy THEN {{Created}, {Created, Created + 2}, {Created + 1}} ELSE {{}}
    /\ cp = [j \in {"contract", "proxy", "activity"} |-> StartBlock]
    /\ calls = FALSE /\ stored = FALSE /\ missed = {} /\ tokens = <<>> /\ activity = {}

NewBlock ==
    /\ Grow(<<>>)
    /\ UNCHANGED <<proxy, upgrades, crawled, cp, calls, stored, missed, tokens, activity>>

CrawlSmartContractEvm ==
    /\ crawled < head
    /\ crawled' = crawled + 1
    /\ UNCHANGED <<head, events, proxy, upgrades, cp, calls, stored, missed, tokens, activity>>
-----------------------------------------------------------------------------
HandleErc721Contract ==
    LET end == EndHeight(cp["contract"], crawled, BlocksPerCall)
    IN  /\ cp["contract"] < end
        /\ stored' = (stored \/ (~ proxy /\ Created \in cp["contract"] + 1 .. end))
        /\ cp' = [cp EXCEPT !["contract"] = end]
        /\ UNCHANGED <<head, events, proxy, upgrades, crawled, calls, missed, tokens, activity>>

HandleEvmProxyHistory ==
    LET end == EndHeight(cp["proxy"], crawled, BlocksPerCall)
    IN  /\ cp["proxy"] < end /\ ~ calls
        /\ calls' = (upgrades \cap (cp["proxy"] + 1 .. end) # {})
        /\ cp' = [cp EXCEPT !["proxy"] = end]
        /\ UNCHANGED <<head, events, proxy, upgrades, crawled, stored, missed, tokens, activity>>

(* The call after the commit: an upsert with track = true; or it is lost.  *)
InsertNewErc721Contracts ==
    /\ calls /\ calls' = FALSE /\ stored' = TRUE
    /\ UNCHANGED <<head, events, proxy, upgrades, crawled, cp, missed, tokens, activity>>

LoseCall ==
    /\ calls /\ calls' = FALSE
    /\ UNCHANGED <<head, events, proxy, upgrades, crawled, cp, stored, missed, tokens, activity>>
-----------------------------------------------------------------------------
(* mutant: HANDLE_ERC721_ACTIVITY does not wait for the contracts          *)
ActivityLimitProxy == cp["proxy"]

ActivityLimit == SmallerOf(cp["contract"], cp["proxy"])

DueEvents == InBlocks(cp["activity"], EndHeight(cp["activity"], ActivityLimit, BlocksPerCall))

(* handlerErc721Transfer: a token it knows gets the new owner; one that it *)
(* does not know must be minted.                                           *)
HandlerErc721Transfer(ts, i) == (events[i].token :> events[i].to) @@ ts

Throws ==
    stored /\ \E i \in DueEvents :
        /\ events[i].from # None /\ events[i].token \notin DOMAIN tokens
        /\ \A k \in DueEvents : k < i => events[k].token # events[i].token

UpdateErc721(due) ==
    /\ tokens' = FoldLeft(HandlerErc721Transfer, tokens, InOrder(due))
    /\ activity' = activity \cup due

(* Events are joined with erc721_contract: without a row there are none,   *)
(* so that handleMissingErc721Contract never finds a contract missing.     *)
HandleErc721Activity ==
    LET end == EndHeight(cp["activity"], ActivityLimit, BlocksPerCall)
    IN  /\ cp["activity"] < end /\ ~ Throws
        /\ UpdateErc721(IF stored THEN DueEvents ELSE {})
        /\ missed' = IF stored THEN missed ELSE missed \cup DueEvents
        /\ cp' = [cp EXCEPT !["activity"] = end]
        /\ UNCHANGED <<head, events, proxy, upgrades, crawled, calls, stored>>

Next ==
    \/ NewBlock \/ CrawlSmartContractEvm \/ HandleErc721Contract \/ HandleEvmProxyHistory
    \/ InsertNewErc721Contracts \/ LoseCall \/ HandleErc721Activity

Spec == Init /\ [][Next]_vars
-----------------------------------------------------------------------------
(* Properties                                                              *)

(* An ERC-721 contract misses no event, its owners are those of the block  *)
(* at the checkpoint, and the job never throws over it.  A proxy may miss  *)
(* events, since its row is written after the commit that lets             *)
(* HANDLE_ERC721_ACTIVITY pass: then some activities are missing, an owner *)
(* is still right if the token is known, and a transfer of a token it has  *)
(* not seen minted stops the job for good.  A proxy that misses none is    *)
(* exact as well.                                                          *)
Erc721Exact ==
    /\ missed # {} => proxy
    /\ Throws => missed # {}
    /\ activity \cup missed = InBlocks(StartBlock, cp["activity"])
    /\ \A t \in DOMAIN tokens : tokens[t] = Owner(t, cp["activity"])
    /\ missed = {} => \A i \in activity : events[i].token \in DOMAIN tokens
=============================================================================
