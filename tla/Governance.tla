----------------------------- MODULE Governance -----------------------------
(***************************************************************************)
(* One governance proposal: its row, its votes and the jobs that keep them.*)
(*                                                                         *)
(* CRAWL_PROPOSAL follows the blocks and asks the node for the proposals   *)
(* that they name; HANDLE_VOTE_TX follows them and stores the votes.  The  *)
(* other jobs follow the clock: HANDLE_ENDED_PROPOSAL and                  *)
(* HANDLE_NOT_ENOUGH_DEPOSIT_PROPOSAL ask the node about proposals whose   *)
(* time is over, CRAWL_TALLY_PROPOSAL refreshes the tally, and             *)
(* COUNT_VOTE_PROPOSAL counts the stored votes.  Each reads the row, waits *)
(* for an answer and writes later; CRAWL_PROPOSAL writes the whole row     *)
(* back.  The time of a block is its height.                               *)
(***************************************************************************)
EXTENDS Checkpoint, Sequences, SequencesExt

CONSTANTS
    Voter,
    Ballots,          \* the votes a block may hold: sequences of [voter, option, index]
    Period,           \* how many blocks the deposit and the voting period last
    BlocksPerCall,
    Top               \* bound: the height of the chain

VARIABLES
    chain,      \* the proposal after each block: a sequence of [status, end, dend]
    votes,      \* the votes on the chain, in order
    crawled,    \* block_checkpoint of HANDLE_TRANSACTION and HANDLE_AUTHZ_TX
    cp,         \* block_checkpoint of CRAWL_PROPOSAL and of HANDLE_VOTE_TX
    row,        \* the row of the table proposal, or NoProposal
    stored,     \* the rows of the table vote: voter |-> [option, height]
    job,        \* what each job has read and not yet written
    blind       \* has COUNT_VOTE_PROPOSAL ever taken the clock for the votes' checkpoint?

vars == <<chain, votes, crawled, cp, row, stored, job, blind>>

NoProposal == [status |-> "none", end |-> 0, dend |-> 0]
Idle == [pc |-> "idle"]
Counters == {"count", "recount"}
Jobs == {"crawl", "ended", "deposit"} \cup Counters
head == Len(chain)
Now == IF head = 0 THEN NoProposal ELSE chain[head]
VotesUpTo(h) == SelectSeq(votes, LAMBDA v : v.height <= h)
Counts(vs) == [o \in {vs[v].option : v \in DOMAIN vs} |-> Cardinality({v \in DOMAIN vs : vs[v].option = o})]
-----------------------------------------------------------------------------
Init ==
    /\ chain = <<>> /\ votes = <<>> /\ crawled = StartBlock
    /\ cp = [proposal |-> StartBlock, vote |-> StartBlock]
    /\ row = NoProposal /\ stored = <<>>
    /\ job = [j \in Jobs |-> Idle] /\ blind = FALSE

(* What the transactions of a block do to the proposal, and its end block: *)
(* a period is over in the first block whose time is not before its end.   *)
Submitted(p) ==
    CASE p.status = "none" -> {p, [status |-> "deposit", end |-> 0, dend |-> head + 1 + Period],
                               [status |-> "voting", end |-> head + 1 + Period, dend |-> head + 1 + Period]}
      [] p.status = "deposit" -> {p, [p EXCEPT !.status = "voting", !.end = head + 1 + Period]}
      [] p.status \notin {"none", "deposit"} -> {p}

EndBlock(p) ==
    CASE p.status = "deposit" /\ p.dend <= head + 1 -> [p EXCEPT !.status = "removed"]
      [] p.status = "voting" /\ p.end <= head + 1 -> [p EXCEPT !.status = "passed"]
      [] OTHER -> p

NewBlock ==
    /\ head < Top
    /\ \E p \in Submitted(Now), b \in Ballots :
          /\ b # <<>> => Now.status = "voting"
          /\ chain' = Append(chain, EndBlock(p))
          /\ votes' = votes \o [k \in DOMAIN b |-> [voter |-> b[k].voter, option |-> b[k].option,
                                                   index |-> b[k].index, height |-> head + 1]]
    /\ UNCHANGED <<crawled, cp, row, stored, job, blind>>

HandleTx ==
    /\ crawled < head
    /\ crawled' = crawled + 1
    /\ UNCHANGED <<chain, votes, cp, row, stored, job, blind>>

(* Does a block of the range name the proposal?                            *)
Named(lo, hi) ==
    \E h \in lo + 1 .. hi :
        \/ chain[h] # (IF h = 1 THEN NoProposal ELSE chain[h - 1])
        \/ \E i \in DOMAIN votes : votes[i].height = h
-----------------------------------------------------------------------------
(* CRAWL_PROPOSAL reads the row, then the node answers, and the whole row  *)
(* is written back with what the answer says of status, deposit and times. *)
CrawlRead ==
    LET end == EndHeight(cp.proposal, crawled, BlocksPerCall)
    IN  /\ job["crawl"] = Idle /\ cp.proposal < end
        /\ job' = [job EXCEPT !["crawl"] =
                     IF Named(cp.proposal, end) THEN [pc |-> "ask", end |-> end, row |-> row]
                     ELSE [pc |-> "write", end |-> end, row |-> NoProposal]]
        /\ UNCHANGED <<chain, votes, crawled, cp, row, stored, blind>>

(* mutant: a stored proposal keeps its status                              *)
AnsweredOldStatus(r, p) ==
    IF p.status \in {"none", "removed"} THEN NoProposal
    ELSE IF r = NoProposal
         THEN [status |-> p.status, end |-> p.end, dend |-> p.dend, counted |-> FALSE, count |-> <<>>, turnout |-> FALSE]
         ELSE [r EXCEPT !.end = p.end]

Answered(r, p) ==
    IF p.status \in {"none", "removed"} THEN NoProposal
    ELSE IF r = NoProposal
         THEN [status |-> p.status, end |-> p.end, dend |-> p.dend, counted |-> FALSE, count |-> <<>>, turnout |-> FALSE]
         ELSE [r EXCEPT !.status = p.status, !.end = p.end]

CrawlAnswer ==
    /\ job["crawl"].pc = "ask"
    /\ job' = [job EXCEPT !["crawl"] = [pc |-> "write", end |-> @.end, row |-> Answered(@.row, Now)]]
    /\ UNCHANGED <<chain, votes, crawled, cp, row, stored, blind>>

CrawlWrite ==
    /\ job["crawl"].pc = "write"
    /\ row' = IF job["crawl"].row = NoProposal THEN row ELSE job["crawl"].row
    /\ cp' = [cp EXCEPT !.proposal = job["crawl"].end]
    /\ job' = [job EXCEPT !["crawl"] = Idle]
    /\ UNCHANGED <<chain, votes, crawled, stored, blind>>
-----------------------------------------------------------------------------
(* mutant: the later of two votes is the one with the smaller height       *)
UpsertEarliest(vs, v) ==
    IF v.voter \in DOMAIN vs /\ vs[v.voter].height <= v.height THEN vs
    ELSE (v.voter :> [option |-> v.option, height |-> v.height]) @@ vs

Upsert(vs, v) ==
    IF v.voter \in DOMAIN vs /\ vs[v.voter].height > v.height THEN vs
    ELSE (v.voter :> [option |-> v.option, height |-> v.height]) @@ vs

(* HANDLE_VOTE_TX: the votes of the range by height and message index.     *)
(* Votes with the same index in several transactions of a block come in    *)
(* any order: the order of the chain or the opposite.                      *)
HandleVote ==
    LET end == EndHeight(cp.vote, crawled, BlocksPerCall)
        due == SelectSeq(VotesUpTo(end), LAMBDA v : v.height > cp.vote)
        before(v, w) == v.height < w.height \/ (v.height = w.height /\ v.index < w.index)
    IN  /\ cp.vote < end
        /\ \E read \in {due, Reverse(due)} :
              stored' = FoldLeft(Upsert, stored, SortSeq(read, before))
        /\ cp' = [cp EXCEPT !.vote = end]
        /\ UNCHANGED <<chain, votes, crawled, row, job, blind>>
-----------------------------------------------------------------------------
(* The jobs on the clock.  Each patches the row with an answer it got      *)
(* earlier.                                                                *)
Over(t) == t <= head

Start(j, patch) ==
    /\ job[j] = Idle
    /\ job' = [job EXCEPT ![j] = patch]
    /\ UNCHANGED <<chain, votes, crawled, cp, row, stored>>

HandleEndedProposals ==
    /\ row.status = "voting" /\ Over(row.end)
    /\ Start("ended", [pc |-> "patch", status |-> Now.status])
    /\ UNCHANGED blind

HandleNotEnoughDepositProposals ==
    /\ row.status = "deposit" /\ Over(row.dend) /\ Now.status = "removed"
    /\ Start("deposit", [pc |-> "patch", status |-> "not_enough"])
    /\ UNCHANGED blind

Patch(j) ==
    /\ job[j].pc = "patch"
    /\ row' = [row EXCEPT !.status = job[j].status]
    /\ job' = [job EXCEPT ![j] = Idle]
    /\ UNCHANGED <<chain, votes, crawled, cp, stored, blind>>

(* CRAWL_TALLY_PROPOSAL asks for a tally and throws when the node does not *)
(* know the proposal.  Nothing depends on the tally it writes, so it is    *)
(* one step.                                                               *)
CrawlTally ==
    /\ row # NoProposal /\ (row.status = "voting" \/ ~ row.turnout)
    /\ Now.status # "removed"
    /\ row' = [row EXCEPT !.turnout = TRUE]
    /\ UNCHANGED <<chain, votes, crawled, cp, stored, job, blind>>

(* mutant: the votes are counted when the clock says the period is over    *)
CheckpointTimeNow == head

(* COUNT_VOTE_PROPOSAL takes the time of the block at the checkpoint of    *)
(* the votes, or the clock if there is none.  It does not wait for the     *)
(* transaction that counts: the next run may overtake it.                  *)
CheckpointTime == IF cp.vote = StartBlock THEN head ELSE cp.vote

CountVotes(j) ==
    /\ j = "recount" => job["count"] # Idle
    /\ \/ row.status = "voting"
       \/ row.status = "passed" /\ row.end <= CheckpointTime /\ ~ row.counted
    /\ Start(j, [pc |-> "count", counted |-> row.end <= CheckpointTime])
    /\ blind' = (blind \/ cp.vote = StartBlock)

PatchCount(j) ==
    /\ job[j].pc = "count"
    /\ row' = [row EXCEPT !.count = Counts(stored), !.counted = job[j].counted]
    /\ job' = [job EXCEPT ![j] = Idle]
    /\ UNCHANGED <<chain, votes, crawled, cp, stored, blind>>

(* An exception or the death of the process.                               *)
Abort(j) ==
    /\ job[j] # Idle
    /\ job' = [job EXCEPT ![j] = Idle]
    /\ UNCHANGED <<chain, votes, crawled, cp, row, stored, blind>>

Next ==
    \/ NewBlock \/ HandleTx
    \/ CrawlRead \/ CrawlAnswer \/ CrawlWrite \/ HandleVote
    \/ HandleEndedProposals \/ HandleNotEnoughDepositProposals
    \/ Patch("ended") \/ Patch("deposit")
    \/ CrawlTally \/ \E j \in Counters : CountVotes(j) \/ PatchCount(j)
    \/ \E j \in Jobs : Abort(j)

Spec == Init /\ [][Next]_vars
-----------------------------------------------------------------------------
(* Properties                                                              *)

(* The stored vote is the voter's last one up to the checkpoint; if the    *)
(* voter voted twice in that block, then provided that the later message   *)
(* has the higher index (two transactions of a block may have it the other *)
(* way round, see HANDLE_VOTE_TX).                                         *)
VotesLatest ==
    \A v \in Voter :
        LET own == SelectSeq(VotesUpTo(cp.vote), LAMBDA x : x.voter = v)
            last == SelectSeq(own, LAMBDA x : x.height = own[Len(own)].height)
        IN  IF own = <<>> THEN v \notin DOMAIN stored
            ELSE /\ stored[v].height = own[Len(own)].height
                 /\ (\A m, n \in DOMAIN last : m < n => last[m].index < last[n].index)
                        => stored[v].option = own[Len(own)].option

(* Votes that COUNT_VOTE_PROPOSAL calls counted are all the votes of the   *)
(* proposal, whatever CRAWL_PROPOSAL writes back in between; unless it ran *)
(* before HANDLE_VOTE_TX had a checkpoint at a stored block.               *)
FinalCount ==
    row # NoProposal /\ row.counted /\ ~ blind =>
        /\ row.end <= cp.vote
        /\ row.count = Counts(stored)

(* Once CRAWL_PROPOSAL has seen the end of a proposal, its row has the     *)
(* final status or one that the jobs on the clock still look for: no stale *)
(* answer leaves a status that nobody repairs.                             *)
StatusRepaired ==
    cp.proposal > StartBlock =>
        LET then == chain[cp.proposal].status
        IN  /\ then = "passed" =>
                  row.status = "passed" \/ (row.status = "voting" /\ Over(row.end))
            /\ then = "removed" =>
                  row = NoProposal \/ row.status = "not_enough"
                      \/ (row.status = "deposit" /\ Over(row.dend))
=============================================================================
