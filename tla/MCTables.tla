------------------------------ MODULE MCTables ------------------------------
(***************************************************************************)
(* Accounts and their balances, ERC-721 contracts, and the partitions of   *)
(* the tables with two writers (event, event_attribute and                 *)
(* transaction_message) and of those with one.  A behaviour exercises one  *)
(* of the six, the one that scope names; the variables of the others stay  *)
(* Idle, those of TablePartitions stay at a first state.                   *)
(***************************************************************************)
EXTENDS TablePartitions, FiniteSets

CONSTANTS
    AccountsTop,  \* its height in the behaviours of accounts
    Losses        \* the insertions into event that roll back

VARIABLES
    scope, cp,
    chain, accounts, balance, insert, readings, work, excused, budget,
    head, events, proxy, upgrades, crawled, calls, stored, missed, tokens, activity,
    eventSeq, eventRows, eventOpen, losses,
    eventParts, eventCheck, eventAltering,
    attrCp, attrParts, attrCheck, creating, statuses, adding, failures

accountsOnly == <<chain, accounts, balance, insert, readings, work, excused, budget>>
erc721Only == <<head, events, proxy, upgrades, crawled, calls, stored, missed, tokens, activity>>
writersOnly == <<eventSeq, eventRows, eventOpen, losses>>
partsOnly == <<eventParts, eventCheck, eventAltering>>
attrsOnly == <<attrCp, attrParts, attrCheck, creating, statuses, adding, failures>>
mcVars == <<tableVars, scope, cp, accountsOnly, erc721Only, writersOnly, partsOnly, attrsOnly>>

Idle == "idle"
AccountsIdle ==
    /\ chain = Idle /\ accounts = Idle /\ balance = Idle /\ insert = Idle
    /\ readings = Idle /\ work = Idle /\ excused = Idle /\ budget = Idle
Erc721Idle ==
    /\ head = Idle /\ events = Idle /\ proxy = Idle /\ upgrades = Idle /\ crawled = Idle
    /\ calls = Idle /\ stored = Idle /\ missed = Idle /\ tokens = Idle /\ activity = Idle
WritersIdle == eventSeq = Idle /\ eventRows = Idle /\ eventOpen = Idle /\ losses = Idle
PartsIdle == eventParts = Idle /\ eventCheck = Idle /\ eventAltering = Idle
AttrsIdle ==
    /\ attrCp = Idle /\ attrParts = Idle /\ attrCheck = Idle
    /\ creating = Idle /\ statuses = Idle /\ adding = Idle /\ failures = Idle

None == "none"
Move(t, f, o) == [token |-> t, from |-> f, to |-> o]
SomeBlocks ==
    {<<>>, <<Move("t", None, "ann")>>, <<Move("t", "ann", "bob")>>, <<Move("t", "bob", None)>>,
     <<Move("u", None, "ann")>>, <<Move("u", "ann", "bob"), Move("u", "bob", "ann")>>}

At(h, t, m, e) == [height |-> h, tx_id |-> t, tx_msg_id |-> m, evm_tx_id |-> e]
SomeBatches == {<<At(0, 0, 1, 0)>>, <<At(1, 1, 0, 1), At(0, 0, 1, 0)>>}

Acc == INSTANCE Accounts WITH
    StartBlock <- 0, Top <- AccountsTop, Addr <- {"ann", "bob"}, Worker <- {1, 2},
    BlocksPerCall <- 2, Incidents <- 1, queue <- readings
Nft == INSTANCE Erc721 WITH
    StartBlock <- 0, Token <- {"t", "u"}, Addr <- {"ann", "bob"}, Blocks <- SomeBlocks,
    BlocksPerCall <- 2, Top <- TopRange
Event == INSTANCE EventPartitions WITH
    Leader <- "block", Follower <- "tx",
    MaxLost <- 2, Step <- 4, Top <- TopRange, seq <- eventSeq, rows <- eventRows, open <- eventOpen,
    parts <- eventParts, check <- eventCheck, altering <- eventAltering
Messages == INSTANCE MessagePartitions WITH
    Leader <- "tx", Follower <- "authz",
    Losses <- 1, MaxLost <- 2, Step <- 4, Top <- TopRange, seq <- eventSeq, rows <- eventRows, open <- eventOpen,
    parts <- eventParts, check <- eventCheck, altering <- eventAltering
Attr == INSTANCE AttrPartitions WITH
    Leader <- "block", Follower <- "tx", seq <- eventSeq, rows <- eventRows, open <- eventOpen,
    Top <- TopRange, MaxLost <- 2, Losses <- 1, AttrStep <- 2, Ahead <- 3, Failures <- 0
(* Partitions of one height: enough of them for a failed creation to tell. *)
Short == INSTANCE AttrPartitions WITH
    Leader <- "block", Follower <- "tx", seq <- eventSeq, rows <- eventRows, open <- eventOpen,
    Top <- 3, MaxLost <- 2, Losses <- 1, AttrStep <- 1, Ahead <- 2, Failures <- 1
-----------------------------------------------------------------------------
OtherScopes ==
    \/ /\ scope = "account" /\ Acc!Init
       /\ Erc721Idle /\ WritersIdle /\ PartsIdle /\ AttrsIdle
    \/ /\ scope = "erc721" /\ Nft!Init
       /\ AccountsIdle /\ WritersIdle /\ PartsIdle /\ AttrsIdle
    \/ /\ \/ scope = "event" /\ Event!Init
          \/ scope = "message" /\ Messages!Init
       /\ AccountsIdle /\ Erc721Idle /\ AttrsIdle
    \/ /\ \/ scope = "attribute" /\ Attr!Init
          \/ scope = "short" /\ Short!Init
       /\ AccountsIdle /\ Erc721Idle /\ PartsIdle

MCInit ==
    /\ TableInit
    /\ \/ /\ scope = "table" /\ cp = Idle
          /\ AccountsIdle /\ Erc721Idle /\ WritersIdle /\ PartsIdle /\ AttrsIdle
       \/ table = "block" /\ OtherScopes

MCNext ==
    /\ \/ /\ scope = "table" /\ TableNext
          /\ UNCHANGED <<cp, accountsOnly, erc721Only, writersOnly, partsOnly, attrsOnly>>
       \/ /\ UNCHANGED tableVars
          /\ \/ scope = "account" /\ Acc!Next /\ UNCHANGED <<erc721Only, writersOnly, partsOnly, attrsOnly>>
             \/ scope = "erc721" /\ Nft!Next /\ UNCHANGED <<accountsOnly, writersOnly, partsOnly, attrsOnly>>
             \/ scope = "event" /\ Event!Next /\ UNCHANGED <<accountsOnly, erc721Only, attrsOnly>>
             \/ scope = "message" /\ Messages!Next /\ UNCHANGED <<accountsOnly, erc721Only, attrsOnly>>
             \/ scope = "attribute" /\ Attr!Next /\ UNCHANGED <<accountsOnly, erc721Only, partsOnly>>
             \/ scope = "short" /\ Short!Next /\ UNCHANGED <<accountsOnly, erc721Only, partsOnly>>
    /\ UNCHANGED scope

MCSpec == MCInit /\ [][MCNext]_mcVars
-----------------------------------------------------------------------------
(* HANDLE_ADDRESS and CRAWL_ACCOUNT_BALANCES leave every address named on  *)
(* the chain with an account and a balance that is not older.              *)
AccountsFresh == scope = "account" => Acc!AccountsFresh

(* HANDLE_ERC721_ACTIVITY misses no event of a contract and its owners are *)
(* those of the chain; only a proxy, stored too late, may miss some.       *)
Erc721Exact == scope = "erc721" => Nft!Erc721Exact

(* A partition of event exists, or is created, for the next row, and its   *)
(* constraint lets the row in, but for one known case and for a fresh      *)
(* database; the same for transaction_message, but for one known case; and *)
(* for event_attribute, whose partitions follow the checkpoint of          *)
(* CRAWL_BLOCK, unless the creation of one has failed.                     *)
SharedRowsAccepted ==
    /\ scope = "event" => Event!EventRowsAccepted
    /\ scope = "message" => Messages!MessageRowsAccepted
    /\ scope = "attribute" => Attr!AttrRowsAccepted
    /\ scope = "short" => Short!AttrRowsAccepted
=============================================================================
