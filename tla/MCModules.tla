----------------------------- MODULE MCModules ------------------------------
(***************************************************************************)
(* The jobs that follow the modules of the Cosmos SDK: governance, IBC,    *)
(* staking and fee grants.  They share nothing but the checkpoints of the  *)
(* ingestion, so a behaviour exercises one of them, the one that scope     *)
(* names, and the variables of the others stay Idle.                       *)
(***************************************************************************)
EXTENDS Integers, Sequences, FiniteSets

CONSTANTS
    Top,          \* the height of the chain
    IbcTop,       \* its height in the behaviours of IBC
    StakingTop,   \* ... and of staking
    Length        \* the IBC events of the chain

VARIABLES
    scope, chain, cp, rows, crawled,
    votes, row, stored, job, blind,
    events, tao, closed, messages, ics20,
    before, table, crawl, page, reloading, base, faults, overwritten, budget,
    history, done, old

govOnly == <<votes, row, stored, job, blind>>
ibcOnly == <<events, tao, closed, messages, ics20>>
stakingOnly == <<before, table, crawl, page, reloading, base, faults, overwritten, budget>>
feegrantOnly == <<history, done, old>>
vars == <<scope, chain, cp, rows, crawled, govOnly, ibcOnly, stakingOnly, feegrantOnly>>

Idle == "idle"
GovIdle == votes = Idle /\ row = Idle /\ stored = Idle /\ job = Idle /\ blind = Idle
IbcIdle == events = Idle /\ tao = Idle /\ closed = Idle /\ messages = Idle /\ ics20 = Idle
StakingIdle ==
    /\ before = Idle /\ table = Idle /\ crawl = Idle /\ page = Idle /\ reloading = Idle
    /\ base = Idle /\ faults = Idle /\ overwritten = Idle /\ budget = Idle
FeegrantIdle == history = Idle /\ done = Idle /\ old = Idle

Vote(v, o, i) == [voter |-> v, option |-> o, index |-> i]
SomeBallots ==
    {<<>>, <<Vote("ann", "no", 0), Vote("ann", "yes", 1)>>,
     <<Vote("ann", "no", 1), Vote("bob", "yes", 0), Vote("ann", "yes", 0)>>}

Gov == INSTANCE Governance WITH
    StartBlock <- 0, Voter <- {"ann", "bob"}, Ballots <- SomeBallots, Period <- 2, BlocksPerCall <- 2
IbcJobs == INSTANCE Ibc WITH
    StartBlock <- 1, Top <- IbcTop, Sequence <- {1, 2}, BlocksPerCall <- 2
Stk == INSTANCE Staking WITH
    StartBlock <- 0, Top <- StakingTop, Validator <- {"v", "w"}, Genesis <- {"v"},
    Delegator <- {"ann"}, Amount <- {2}, TxMsgPageLimit <- 2, Incidents <- 2
Grants == INSTANCE Feegrant WITH
    StartBlock <- 0, Limits <- {2, -1}, BlocksPerCall <- 3, LimitPerCall <- 2
-----------------------------------------------------------------------------
Init ==
    \/ /\ scope = "gov" /\ Gov!Init
       /\ rows = Idle /\ IbcIdle /\ StakingIdle /\ FeegrantIdle
    \/ /\ scope = "ibc" /\ IbcJobs!Init
       /\ chain = Idle /\ rows = Idle /\ GovIdle /\ StakingIdle /\ FeegrantIdle
    \/ /\ scope = "staking" /\ Stk!Init
       /\ crawled = Idle /\ GovIdle /\ IbcIdle /\ FeegrantIdle
    \/ /\ scope = "feegrant" /\ Grants!Init
       /\ GovIdle /\ IbcIdle /\ StakingIdle

Next ==
    /\ \/ scope = "gov" /\ Gov!Next /\ UNCHANGED <<rows, ibcOnly, stakingOnly, feegrantOnly>>
       \/ scope = "ibc" /\ IbcJobs!Next /\ UNCHANGED <<chain, rows, govOnly, stakingOnly, feegrantOnly>>
       \/ scope = "staking" /\ Stk!Next /\ UNCHANGED <<crawled, govOnly, ibcOnly, feegrantOnly>>
       \/ scope = "feegrant" /\ Grants!Next /\ UNCHANGED <<govOnly, ibcOnly, stakingOnly>>
    /\ UNCHANGED scope

Spec == Init /\ [][Next]_vars
-----------------------------------------------------------------------------
(* HANDLE_VOTE_TX keeps the last vote of each voter, whatever the order of *)
(* the messages it upserts.                                                *)
VotesLatest == scope = "gov" => Gov!VotesLatest

(* COUNT_VOTE_PROPOSAL calls a count final only when all votes are in it.  *)
FinalCount == scope = "gov" => Gov!FinalCount

(* No stale answer that CRAWL_PROPOSAL writes leaves a proposal in a       *)
(* status that no job looks for any more.                                  *)
StatusRepaired == scope = "gov" => Gov!StatusRepaired

(* CRAWL_IBC_ICS20 gives every transfer the status of its own answer.      *)
TransfersExact == scope = "ibc" => IbcJobs!TransfersExact

(* The IBC jobs stop for good only at an event that lacks what they demand *)
(* or refers to something from before the first block.                     *)
StopsExplained == scope = "ibc" => IbcJobs!StopsExplained


(* HANDLE_FEEGRANT and UPDATE_FEEGRANT keep the grants of the chain.       *)
FeegrantsExact == scope = "feegrant" => Grants!FeegrantsExact
=============================================================================
