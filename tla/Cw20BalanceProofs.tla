------------------------- MODULE Cw20BalanceProofs --------------------------
(***************************************************************************)
(* For every chain, every set of accounts, every size of the pages and any *)
(* number of jobs, retries and reindexings: the balances at rest of a      *)
(* CW-20 contract are those of one block of the chain.                     *)
(***************************************************************************)
EXTENDS Cw20HistoryProofs

(* The provers that try a leaf, one after the other, and their time in     *)
(* seconds.                                                                *)
USE SMTT(40), ZenonT(40)

(* The block up to which update jobs have been asked for.                  *)
Frontier == IF job.pc = "call" THEN job.start ELSE StartHeight(cp)

(* Job j reads the row of event i, if it exists.                           *)
Covers(j, i) == j.id = contract.id /\ j.startBlock < events[i].height /\ events[i].height <= j.endBlock

(* The events above block h.                                               *)
Later(h) == {i \in DOMAIN events : h < events[i].height}

(* The balances are those after block h ...                                *)
Settled(h) ==
    /\ \A a \in Addr : Held(holders, a) = Balance(a, h)
    /\ \A a \in DOMAIN holders : holders[a].last <= h

(* ... the jobs of the contract lie between h and the frontier, apart from *)
(* each other, and cover every move there ...                              *)
Queued(h) ==
    /\ (h <= Frontier /\ contract.last <= Frontier) \/ h = contract.last
    /\ \A j \in Entries : j.id = contract.id =>
          h <= j.startBlock /\ j.startBlock < j.endBlock /\ j.endBlock <= Frontier
    /\ Disjoint(wait, delayed, contract.id)
    /\ \A i \in Later(h) : Moving(i) /\ events[i].height <= Frontier => \E j \in Entries : Covers(j, i)

(* ... the rows that these jobs will read are there, in order ...          *)
Stored(h) ==
    /\ \A i \in Later(h) : Moving(i) /\ events[i].height <= cp => i \in Range(activity)
    /\ \A i \in Later(h) : i \in Range(activity) => events[i].height <= cp
    /\ IncreasingOn(activity, Later(h))

(* ... and a reindexing inserts no row above h.                            *)
Snapped(h) ==
    /\ walk # NoWalk => walk.endBlock <= h
    /\ reindex.pc = "committed" => reindex.min = reindex.max /\ reindex.max <= h

(* All of it for one block h: the inductive invariant of the balances.     *)
Holds(h) == Settled(h) /\ Queued(h) /\ Stored(h) /\ Snapped(h)

Balanced == Tracked /\ faults = {} => \E h \in StartBlock .. head : Holds(h)

(* The frontier lies between the checkpoint and the calls made.            *)
LEMMA FrontierFacts ==
  ASSUME Typed
  PROVE  /\ Frontier \in Int /\ StartBlock <= Frontier /\ Frontier <= crawled /\ Frontier <= head
         /\ job.pc # "call" => Frontier = StartHeight(cp) /\ cp <= Frontier
         /\ job.pc = "call" => Frontier = job.start /\ job.start < job.end /\ job.end = cp /\ cp <= crawled
<1>1. CASE job.pc = "call"
  <2>1. job # Idle
    BY <1>1 DEF Idle
  <2> QED
    BY <1>1, <2>1, StartHeightFacts DEF Typed, JobTyped, Frontier
<1>2. CASE job.pc # "call"
  BY <1>2, StartHeightFacts DEF Frontier
<1> QED
  BY <1>1, <1>2, Zenon

(* Balances of block h stay so while rows and chain do.                    *)
LEMMA SettledStays ==
  ASSUME UNCHANGED <<head, events, holders>>, NEW h, Settled(h)
  PROVE  Settled(h)'
<1>1. \A a : Balance(a, h)' = Balance(a, h)
  BY ChainStays, Zenon
<1> QED
  BY <1>1, Zenon DEF Settled, Held

(* The jobs above h stay while the queues do.                              *)
LEMMA QueuedStays ==
  ASSUME UNCHANGED <<events, contract, wait, delayed, Frontier>>, NEW h, Queued(h)
  PROVE  Queued(h)'
<1>1. Frontier' = Frontier /\ Entries' = Entries
  BY Zenon DEF Entries
<1>2. Later(h)' = Later(h) /\ (\A i : Moving(i)' <=> Moving(i)) /\ (\A j, i : Covers(j, i)' <=> Covers(j, i))
  BY Zenon DEF Later, Moving, Covers
<1> QED
  BY <1>1, <1>2, Zenon DEF Queued

(* The rows above h stay while activities and checkpoint do.               *)
LEMMA StoredStays ==
  ASSUME UNCHANGED <<events, activity, cp>>, NEW h, Stored(h)
  PROVE  Stored(h)'
<1>1. Later(h)' = Later(h) /\ (\A i : Moving(i)' <=> Moving(i))
  BY Zenon DEF Later, Moving
<1> QED
  BY <1>1, Zenon DEF Stored

(* Steps that leave the contract, its rows and its jobs alone.             *)
LEMMA QuietStep ==
  ASSUME Typed, Balanced, [Next]_vars,
         CrawlContractEvent \/ HandleStart \/ ReindexRequest \/ ReindexQuery \/ ReindexFail \/ HistoryEnd \/ HistoryFail
           \/ UNCHANGED vars
  PROVE  Balanced'
<1> USE DEF node, rows, queue, reindexing
<1>1. UNCHANGED <<head, events, cp, contract, holders, activity, wait, delayed, faults>>
  BY Zenon DEF CrawlContractEvent, HandleStart, ReindexRequest, ReindexQuery, ReindexFail, HistoryEnd, HistoryFail, vars
<1>2. Frontier' = Frontier
  <2>1. UNCHANGED job \/ (job.pc = "idle" /\ job'.pc = "commit")
    <3>1. UNCHANGED job \/ HandleStart
      BY Zenon DEF CrawlContractEvent, HandleStart, ReindexRequest, ReindexQuery, ReindexFail, HistoryEnd, HistoryFail, vars
    <3>2. HandleStart => UNCHANGED job \/ (job.pc = "idle" /\ job'.pc = "commit")
      BY DEF HandleStart
    <3> QED
      BY <3>1, <3>2, Zenon
  <2>2. StartHeight(cp)' = StartHeight(cp)
    BY <1>1, Zenon DEF StartHeight
  <2> QED
    BY <2>1, <2>2, Zenon DEF Frontier
<1>3. ASSUME NEW h, Snapped(h) PROVE Snapped(h)'
  <2>1. UNCHANGED <<reindex, walk>> \/ ReindexRequest \/ ReindexQuery \/ ReindexFail \/ HistoryEnd \/ HistoryFail
    BY Zenon DEF CrawlContractEvent, HandleStart, ReindexRequest, ReindexQuery, ReindexFail, HistoryEnd, HistoryFail, vars
  <2>2. ReindexQuery => reindex'.pc # "committed" /\ UNCHANGED walk
    BY DEF ReindexQuery
  <2>3. ReindexRequest => reindex'.pc # "committed" /\ UNCHANGED walk
    <3>1. ReindexRequest => reindex = NoReindex /\ reindex' = [reindex EXCEPT !.pc = "queued"] /\ UNCHANGED walk
      BY Zenon DEF ReindexRequest, Typed, ReindexTyped
    <3> QED
      BY <3>1 DEF NoReindex
  <2>4. ReindexFail => reindex'.pc # "committed" /\ UNCHANGED walk
    BY Zenon DEF ReindexFail, NoReindex
  <2>5. HistoryEnd => reindex'.pc # "committed" /\ walk' = NoWalk
    BY DEF HistoryEnd, NoReindex
  <2>6. HistoryFail => UNCHANGED reindex /\ walk' = NoWalk
    BY Zenon DEF HistoryFail
  <2> QED
    BY <1>3, <2>1, <2>2, <2>3, <2>4, <2>5, <2>6 DEF Snapped, NoWalk
<1>4. (Tracked /\ faults = {})' <=> Tracked /\ faults = {}
  BY <1>1, Zenon DEF Tracked
<1>5. ASSUME NEW h, Holds(h) PROVE Holds(h)'
  BY <1>1, <1>2, <1>3, <1>5, SettledStays, QueuedStays, StoredStays DEF Holds
<1> QED
  BY <1>1, <1>4, <1>5, Zenon DEF Balanced

(* The events of a new block lie above every checkpoint.                   *)
LEMMA NewBlockBalanced ==
  ASSUME Typed, Balanced, NewBlock
  PROVE  Balanced'
<1> USE DEF node, rows, queue, reindexing
<1>1. UNCHANGED <<cp, contract, holders, activity, wait, delayed, reindex, walk, job, faults>>
  BY Zenon DEF NewBlock
<1>2. Heights /\ Continues
  <2>1. <<Instantiate>> \in Seq(Move) /\ Grow(<<Instantiate>>) /\ Heights
    BY StartHeightFacts DEF Instantiate, Move, NewBlock
  <2> QED
    BY <2>1, GrowContinues, Zenon
<1>3. Frontier' = Frontier /\ Entries' = Entries
  BY <1>1, Zenon DEF Frontier, StartHeight, Entries
<1>4. head' = head + 1 /\ Frontier \in Int /\ cp \in Int /\ head \in Int /\ Frontier <= head /\ cp <= head
  BY <1>2, FrontierFacts, StartHeightFacts DEF Continues
<1>5. \A i \in DOMAIN events : i \in DOMAIN events' /\ events'[i] = events[i] /\ (Moving(i)' <=> Moving(i))
  BY <1>2, ContinuesFacts, ContinuesOld, Zenon
<1>6. \A i \in DOMAIN events' : events'[i].height \in Int /\ (events'[i].height <= head => i \in DOMAIN events)
  <2>1. events' \in Seq(Event)
    BY <1>2, Zenon DEF Continues, Heights
  <2>2. \A i \in DOMAIN events' : events'[i] \in Event
    BY <2>1
  <2>3. \A e \in Event : e.height \in Int
    BY Zenon DEF Event
  <2> QED
    BY <1>2, <2>2, <2>3, ContinuesOld, Zenon
<1>7. SUFFICES ASSUME NEW h \in StartBlock .. head, Holds(h)
               PROVE  Holds(h)'
  <2>1. StartBlock .. head \subseteq (StartBlock .. head)' /\ (Tracked /\ faults = {} <=> (Tracked /\ faults = {})')
    BY <1>1, <1>4, StartHeightFacts DEF Tracked
  <2>2. (\E h \in StartBlock .. head : Holds(h)) => (\E h \in StartBlock .. head : Holds(h))'
    BY <1>7, <2>1, Zenon
  <2> QED
    BY <2>1, <2>2, Zenon DEF Balanced
<1>8. h \in Int /\ h <= head
  BY StartHeightFacts
<1>9. \A i \in Later(h)' : events'[i].height <= head => i \in Later(h) /\ events[i].height = events'[i].height
  BY <1>5, <1>6, Zenon DEF Later
<1>10. Settled(h)'
  <2>1. \A a \in Addr : Balance(a, h)' = Balance(a, h)
    BY <1>2, <1>8, ContinuesFacts, Zenon
  <2> QED
    BY <1>1, <1>7, <2>1, Zenon DEF Settled, Held, Holds
<1>11. Queued(h)'
  <2>1. \A i \in Later(h), j \in Entries : Covers(j, i)' <=> Covers(j, i)
    BY <1>1, <1>5, Zenon DEF Covers, Later
  <2>2. \A i \in Later(h)' : Moving(i)' /\ events'[i].height <= Frontier => \E j \in Entries : Covers(j, i)'
    <3>1. SUFFICES ASSUME NEW i \in Later(h)', Moving(i)', events'[i].height <= Frontier
                   PROVE  \E j \in Entries : Covers(j, i)'
      BY Zenon
    <3>2. i \in DOMAIN events' /\ events'[i].height <= head
      BY <1>4, <1>6, <3>1 DEF Later
    <3>3. i \in Later(h) /\ events[i].height = events'[i].height /\ i \in DOMAIN events
      BY <1>9, <3>1, <3>2 DEF Later
    <3>4. Moving(i) /\ events[i].height <= Frontier
      BY <1>5, <3>1, <3>3
    <3> QED
      BY <1>7, <2>1, <3>3, <3>4 DEF Holds, Queued
  <2> QED
    BY <1>1, <1>3, <1>7, <2>2 DEF Holds, Queued
<1>12. Stored(h)'
  <2>1. \A i \in Range(activity) : i \in DOMAIN events /\ (i \in Later(h)' <=> i \in Later(h)) /\ events'[i] = events[i]
    <3>1. \A i \in Range(activity) : i \in DOMAIN events
      BY Zenon DEF Typed
    <3> QED
      BY <1>5, <3>1, Zenon DEF Later
  <2>2. \A i \in Later(h)' : Moving(i)' /\ events'[i].height <= cp => i \in Range(activity)
    <3>1. SUFFICES ASSUME NEW i \in Later(h)', Moving(i)', events'[i].height <= cp
                   PROVE  i \in Range(activity)
      BY Zenon
    <3>2. i \in DOMAIN events' /\ events'[i].height <= head
      BY <1>4, <1>6, <3>1 DEF Later
    <3>3. i \in Later(h) /\ events[i].height = events'[i].height /\ i \in DOMAIN events
      BY <1>9, <3>1, <3>2, Zenon DEF Later
    <3>4. Moving(i) /\ events[i].height <= cp
      BY <1>5, <3>1, <3>3
    <3> QED
      BY <1>7, <3>3, <3>4, Zenon DEF Holds, Stored
  <2>3. \A i \in Later(h)' : i \in Range(activity) => events'[i].height <= cp
    BY <1>7, <2>1, Zenon DEF Holds, Stored
  <2>4. \A k \in DOMAIN activity : activity[k] \in Range(activity)
    BY InRange, Zenon
  <2>5. IncreasingOn(activity, Later(h)')
    BY <1>7, <2>1, <2>4, Zenon DEF Holds, Stored, IncreasingOn
  <2> QED
    BY <1>1, <2>2, <2>3, <2>5 DEF Stored
<1>13. Snapped(h)'
  BY <1>1, <1>7, Zenon DEF Holds, Snapped, NoWalk
<1> QED
  BY <1>10, <1>11, <1>12, <1>13 DEF Holds

(* A snapshot of one height l is the balances after one block, and no move *)
(* above that block is at or below b if there is no event between l and b: *)
(* if nobody is listed nobody ever held anything.                          *)
LEMMA InsertSettled ==
  ASSUME Typed, UNCHANGED <<head, events>>, NEW l \in StartBlock .. head,
         DOMAIN holders' = Listed(l), contract'.last = Lowest(holders'),
         \A a \in Listed(l) : holders'[a] = [amount |-> Balance(a, l), last |-> l],
         NEW b \in StartBlock .. head, InBlocks(l, b) = {}, NEW f \in StartBlock .. b
  PROVE  \E h \in StartBlock .. head :
            /\ Settled(h)' /\ (f <= l => f <= h)
            /\ (contract'.last <= f /\ h = f) \/ h = contract'.last
            /\ Lowest(holders') = Highest(holders') /\ Highest(holders') <= h
            /\ \A i \in Later(h) : Moving(i) => b < events[i].height
<1>1. Heights /\ Chain /\ head \in Int /\ StartBlock \in Nat
  BY StartHeightFacts, StartBlockAssumption, Zenon DEF Typed
<1>2. /\ DOMAIN holders' = Listed(l)
      /\ \A a \in Listed(l) : holders'[a] = [amount |-> Balance(a, l), last |-> l]
  OBVIOUS
<1>3. /\ contract'.last = Lowest(holders') /\ l \in Int /\ StartBlock <= l /\ l <= head
      /\ b \in Int /\ b <= head /\ f \in Int /\ f <= b /\ StartBlock <= f
  BY <1>1
<1>a. \A i \in DOMAIN events : events[i].height <= b => events[i].height <= l
  <2>1. \A i \in DOMAIN events : ~ (l < events[i].height /\ events[i].height <= b)
    BY Zenon DEF InBlocks
  <2> QED
    BY <1>1, <1>3, <2>1, EventTyped
<1>4. \A a, h : Balance(a, h)' = Balance(a, h)
  BY ChainStays, Zenon
<1>5. Listed(l) \subseteq Addr
  BY Zenon DEF Listed
<1>6. CASE Listed(l) = {}
  <2>1. Lowest(holders') = 0 /\ Highest(holders') = 0
    BY <1>2, <1>6, Zenon DEF Lowest, Highest
  <2>2. \A i \in DOMAIN events : events[i].height \in Int /\ events[i] \in Event
    BY <1>1, EventTyped, Zenon
  <2>3. \A a \in Addr : \A i \in DOMAIN events : events[i].height <= l => events[i].from # a /\ events[i].to # a
    BY <1>1, <1>3, <1>6, Unlisted
  <2>4. \A a \in Addr : a \notin Listed(f)
    <3>1. \A a \in Addr : ~ (Initial[a] > 0)
      BY <1>6, Zenon DEF Listed
    <3>2. \A i \in DOMAIN events : events[i].height <= f => events[i].height <= l
      BY <1>3, <1>a, <2>2
    <3> QED
      BY <2>3, <3>1, <3>2 DEF Listed
  <2>5. \A a \in Addr : Balance(a, f) = 0
    BY <1>1, <1>3, <2>4, Unlisted
  <2>6. Settled(f)'
    BY <1>2, <1>4, <1>6, <2>5 DEF Settled, Held
  <2>7. \A e \in Event : e.from \in Addr \cup {None} /\ e.to \in Addr \cup {None}
    BY Zenon DEF Event
  <2>8. ASSUME NEW i \in DOMAIN events, Moving(i) PROVE b < events[i].height
    <3>1. events[i].from \in Addr \/ events[i].to \in Addr
      BY <2>2, <2>7, <2>8 DEF Moving
    <3>2. ~ (events[i].height <= l)
      BY <2>3, <3>1, Zenon
    <3> QED
      BY <1>3, <1>a, <2>2, <3>2
  <2>9. f \in StartBlock .. head /\ 0 <= f /\ f <= f
    BY <1>1, <1>3
  <2>10. \A i \in Later(f) : Moving(i) => b < events[i].height
    BY <2>8, Zenon DEF Later
  <2> QED
    BY <1>3, <2>1, <2>6, <2>9, <2>10
<1>7. CASE Listed(l) # {}
  <2>1. \A a \in DOMAIN holders' : holders'[a].last \in l .. l
    BY <1>2, <1>3
  <2>2. Lowest(holders') = l /\ Highest(holders') = l
    <3>1. PICK hs : hs = holders'
      BY Zenon
    <3>2. DOMAIN hs # {} /\ \A a \in DOMAIN hs : hs[a].last \in l .. l
      BY <1>2, <1>7, <2>1, <3>1
    <3>3. Lowest(hs) \in l .. l /\ Highest(hs) \in l .. l
      BY <1>3, <3>2, SnapshotHeights, Zenon
    <3> QED
      BY <1>3, <3>1, <3>3
  <2>3. \A a \in Addr : a \notin Listed(l) => Balance(a, l) = 0
    BY <1>1, <1>3, Unlisted
  <2>4. Settled(l)'
    <3>1. \A a \in Addr : Held(holders', a) = Balance(a, l)
      BY <1>2, <2>3 DEF Held
    <3>2. \A a \in DOMAIN holders' : holders'[a].last <= l
      BY <1>3, <2>1
    <3> QED
      BY <1>4, <3>1, <3>2 DEF Settled
  <2>5. \A i \in Later(l) : b < events[i].height
    BY <1>1, <1>3, <1>a, EventTyped DEF Later
  <2>6. l \in StartBlock .. head /\ l <= l
    BY <1>1, <1>3
  <2> QED
    BY <1>3, <2>2, <2>4, <2>5, <2>6
<1> QED
  BY <1>6, <1>7, Zenon

(* REINDEX_CW20_CONTRACT: no job has the id of the new row yet.            *)
LEMMA ReindexBalanced ==
  ASSUME Typed, Typed', Ids, Answered, ReindexCommit
  PROVE  Balanced'
<1> USE DEF node, rows, queue, reindexing
<1>1. /\ UNCHANGED <<head, events, crawled, cp, job, wait, delayed, walk>>
      /\ InsertContract(Len(reindexed) + 1, reindex.answer) /\ activity' = <<>>
      /\ reindex.pc \in {"unknown", "known"}
      /\ reindex' = [NoReindex EXCEPT !.pc = "committed", !.min = reindex.min, !.max = reindex.max]
      /\ faults' = {} => reindex.answer.faults = {} /\ InBlocks(reindex.answer.reach, StartHeight(cp)) = {}
  BY Zenon DEF ReindexCommit
<1>2. SUFFICES ASSUME contract'.track, faults' = {}
               PROVE  (\E h \in StartBlock .. head : Holds(h))'
  BY Zenon DEF Balanced, Tracked
<1>3. Len(reindexed) \in Nat /\ Len(reindexed) + 1 \in Nat /\ Heights /\ crawled \in Int
      /\ wait \in Seq(UpdateJob) /\ delayed \in Seq(UpdateJob) /\ walk = NoWalk
  <2>1. reindexed \in Seq(Int) /\ wait \in Seq(UpdateJob) /\ delayed \in Seq(UpdateJob)
    BY Zenon DEF Typed, ReindexTyped
  <2>2. walk = NoWalk
    BY <1>1, Zenon DEF Typed, ReindexTyped
  <2> QED
    BY <2>1, <2>2, StartHeightFacts
<1>4. /\ Frontier \in StartBlock .. StartHeight(cp) /\ Frontier \in Int /\ StartHeight(cp) \in StartBlock .. head
      /\ Frontier <= StartHeight(cp) /\ StartHeight(cp) \in Int /\ cp \in Int /\ cp <= StartHeight(cp)
  BY FrontierFacts, StartHeightFacts
<1>a. PICK s : s = reindex.answer
  BY Zenon
<1>b. AnswerTyped(s) /\ reindex.min = Lowest(s.holders) /\ reindex.max = Highest(s.holders)
  BY <1>1, <1>a, Zenon DEF Typed, ReindexTyped
<1>6. /\ contract'.id = Len(reindexed) + 1 /\ contract'.last = Lowest(holders')
      /\ contract'.track = s.track /\ holders' = s.holders
  BY <1>1, <1>3, <1>a, <1>b, InsertFacts, Zenon
<1>c. PICK l \in StartBlock .. head : Taken(s, l)
  BY <1>1, <1>2, <1>6, <1>a, Zenon DEF Answered
<1>d. /\ DOMAIN holders' = Listed(l)
      /\ \A a \in Listed(l) : holders'[a] = [amount |-> Balance(a, l), last |-> l]
  BY <1>1, <1>2, <1>6, <1>a, <1>c, Zenon DEF Taken
<1>e. InBlocks(l, StartHeight(cp)) = {}
  <2>1. s.reach = l
    <3>1. CASE DOMAIN s.holders = {}
      BY <1>c, <3>1, Zenon DEF Taken
    <3>2. CASE DOMAIN s.holders # {}
      <4>0. l \in Int /\ l \in l .. l
        BY <1>c, StartHeightFacts
      <4>1. \A a \in DOMAIN s.holders : s.holders[a].last \in l .. l
        <5>1. SUFFICES ASSUME NEW a \in DOMAIN s.holders PROVE s.holders[a].last \in l .. l
          BY Zenon
        <5>2. PICK x : x = s.holders[a]
          BY Zenon
        <5>3. x = [amount |-> Balance(a, l), last |-> l]
          BY <1>6, <1>d, <5>1, <5>2, Zenon
        <5>4. x.last = l
          BY <5>3, Zenon
        <5> QED
          BY <4>0, <5>2, <5>4, Zenon
      <4>2. Highest(s.holders) \in l .. l
        BY <3>2, <4>0, <4>1, SnapshotHeights, Zenon
      <4>3. s.reach = Highest(s.holders)
        BY <1>c, <3>2, Zenon DEF Taken
      <4> QED
        BY <4>0, <4>2, <4>3
    <3> QED
      BY <3>1, <3>2, Zenon
  <2> QED
    BY <1>1, <1>2, <1>a, <2>1, Zenon
<1>5. PICK h \in StartBlock .. head :
            /\ Settled(h)'
            /\ (contract'.last <= Frontier /\ h = Frontier) \/ h = contract'.last
            /\ Lowest(holders') = Highest(holders') /\ Highest(holders') <= h
            /\ \A i \in Later(h) : Moving(i) => StartHeight(cp) < events[i].height
  BY <1>1, <1>4, <1>6, <1>d, <1>e, InsertSettled, ZenonT(40)
<1>7. \A j \in Entries : j.id # contract'.id
  <2>1. \A j \in Entries : j \in UpdateJob
    BY <1>3, RangeTyped, Zenon DEF Entries
  <2>2. \A j \in Entries : j.id \in Int
    BY <2>1, UpdateJobParts
  <2> QED
    BY <1>3, <1>6, <2>2 DEF Ids
<1>8. Frontier' = Frontier /\ Entries' = Entries /\ Later(h)' = Later(h) /\ \A i : Moving(i)' <=> Moving(i)
  BY <1>1, Zenon DEF Frontier, StartHeight, Entries, Later, Moving
<1>9. \A i \in Later(h) : Moving(i) => ~ (events[i].height <= cp) /\ ~ (events[i].height <= Frontier)
  <2>1. \A i \in Later(h) : events[i].height \in Int
    BY <1>3, EventTyped, Zenon DEF Later
  <2> QED
    BY <1>3, <1>4, <1>5, <2>1
<1>10. Queued(h)'
  <2>1. Disjoint(wait, delayed, contract'.id)
    <3>1. (\A k \in DOMAIN wait : wait[k] \in Entries) /\ (\A k \in DOMAIN delayed : delayed[k] \in Entries)
      BY InRange, Zenon DEF Entries
    <3> QED
      BY <1>7, <3>1, Zenon DEF Disjoint
  <2>2. (h <= Frontier /\ contract'.last <= Frontier) \/ h = contract'.last
    <3>1. Frontier <= Frontier
      BY <1>4
    <3> QED
      BY <1>5, <3>1, Zenon
  <2> QED
    BY <1>1, <1>7, <1>8, <1>9, <2>1, <2>2 DEF Queued
<1>11. Stored(h)'
  <2>1. Range(<<>>) = {} /\ DOMAIN <<>> = {}
    BY DEF Range
  <2> QED
    BY <1>1, <1>8, <1>9, <2>1 DEF Stored, IncreasingOn
<1>12. Snapped(h)'
  <2>1. reindex'.min = Lowest(holders') /\ reindex'.max = Highest(holders')
    BY <1>1, <1>6, <1>b, Zenon DEF NoReindex
  <2> QED
    BY <1>1, <1>3, <1>5, <2>1, Zenon DEF Snapped
<1> QED
  BY <1>1, <1>5, <1>10, <1>11, <1>12 DEF Holds

(* The range that holds the instantiation: the contract is new, it has no  *)
(* rows and no jobs, and the balances may be ahead of the range.           *)
LEMMA InsertBalanced ==
  ASSUME Typed, Unknown, HandleCommit, HandleCw20Instantiate
  PROVE  Balanced'
<1> USE DEF node, rows, queue, reindexing
<1>1. /\ UNCHANGED <<head, events, crawled, wait, delayed, walk, reindex>> /\ job.pc = "commit"
      /\ HandleCw20Histories(EventIds(job.start, job.end), contract' # NoContract /\ contract'.track)
      /\ cp' = job.end /\ job' = [job EXCEPT !.pc = "call"]
  BY Zenon DEF HandleCommit
<1>2. SUFFICES ASSUME contract' # NoContract, contract'.track, faults' = {}
               PROVE  (\E h \in StartBlock .. head : Holds(h))'
  BY Zenon DEF Balanced, Tracked
<1>3. activity = <<>> /\ wait = <<>> /\ delayed = <<>> /\ Range(<<>>) = {} /\ DOMAIN <<>> = {}
  BY DEF Unknown, Range, HandleCw20Instantiate
<1>4. walk = NoWalk /\ reindex.pc # "committed"
  BY Zenon DEF Typed, ReindexTyped, HandleCw20Instantiate
<1>5. job.start \in StartBlock .. crawled /\ job.start \in Int /\ job.end \in Int /\ job.end <= crawled
      /\ job'.pc = "call" /\ job'.start = job.start
  BY <1>1, StartHeightFacts DEF Typed, JobTyped, Idle
<1>6. Heights /\ crawled \in Int /\ 0 \in Nat
  BY StartHeightFacts, Zenon
<1>7. PICK h \in StartBlock .. head :
            /\ Settled(h)' /\ job.start <= h
            /\ (contract'.last <= job.start /\ h = job.start) \/ h = contract'.last
            /\ \A i \in Later(h) : Moving(i) => crawled < events[i].height
  <2>1. /\ contract'.last = Lowest(holders')
        /\ \E l \in crawled .. head :
              /\ DOMAIN holders' = Listed(l)
              /\ \A a \in Listed(l) : holders'[a] = [amount |-> Balance(a, l), last |-> l]
    BY <1>2, <1>6, InstantiateFacts, Zenon
  <2>2. PICK l \in crawled .. head :
           /\ DOMAIN holders' = Listed(l)
           /\ \A a \in Listed(l) : holders'[a] = [amount |-> Balance(a, l), last |-> l]
    BY <2>1, Zenon
  <2>3. l \in StartBlock .. head /\ crawled \in StartBlock .. head /\ job.start <= l
    BY <1>5, StartHeightFacts
  <2>4. InBlocks(l, crawled) = {}
    BY <1>6, StartHeightFacts, EventTyped DEF InBlocks
  <2> QED
    BY <1>1, <1>5, <2>1, <2>2, <2>3, <2>4, InsertSettled, ZenonT(40)
<1>8. Frontier' = job.start /\ Entries' = {} /\ Later(h)' = Later(h) /\ (\A i : Moving(i)' <=> Moving(i))
  BY <1>1, <1>3, <1>5, Zenon DEF Frontier, Entries, Later, Moving
<1>9. h \in Int /\ \A i \in Later(h) : i \in DOMAIN events /\ events[i].height \in Int /\ h < events[i].height
  BY <1>6, StartHeightFacts, EventTyped DEF Later
<1>10. Queued(h)'
  <2>1. \A i \in Later(h) : ~ (events[i].height <= job.start)
    BY <1>5, <1>7, <1>9
  <2>2. (h <= job.start /\ contract'.last <= job.start) \/ h = contract'.last
    BY <1>5, <1>7, Zenon
  <2>3. Disjoint(<<>>, <<>>, contract'.id)
    BY <1>3, Zenon DEF Disjoint
  <2> QED
    BY <1>1, <1>3, <1>8, <2>1, <2>2, <2>3 DEF Queued
<1>11. Stored(h)'
  <2>1. \A i \in Later(h) : events[i].height <= job.end => i \in EventIds(job.start, job.end)
    BY <1>5, <1>6, <1>7, <1>9, EventIdsFacts
  <2>2. \A i \in EventIds(job.start, job.end) :
           i \in DOMAIN events /\ events[i].height <= crawled /\ events[i].height <= job.end
    BY <1>5, <1>6, EventIdsFacts, Zenon
  <2>3. Range(activity') = EventIds(job.start, job.end)
    <3>1. HandleCw20Histories(EventIds(job.start, job.end), TRUE) /\ TRUE \in BOOLEAN
      BY <1>1, <1>2, Zenon DEF HandleCw20Histories
    <3>2. Range(activity') = Range(activity) \cup EventIds(job.start, job.end)
      BY <2>2, <3>1, HistoriesFacts, Zenon
    <3> QED
      BY <1>3, <3>2, Zenon
  <2>4. IncreasingOn(activity', Later(h))
    <3>1. IncreasingOn(activity, Later(h)) /\ Range(activity) = {}
      BY <1>3, Zenon DEF IncreasingOn
    <3> QED
      BY <1>1, <1>2, <2>2, <3>1, HistoriesOrder, ZenonT(40)
  <2> QED
    BY <1>1, <1>8, <2>1, <2>2, <2>3, <2>4 DEF Stored
<1>12. Snapped(h)'
  BY <1>1, <1>4, Zenon DEF Snapped, NoWalk
<1> QED
  BY <1>1, <1>7, <1>10, <1>11, <1>12 DEF Holds

(* Every other range: its rows come after the rows that are there.         *)
LEMMA CommitBalanced ==
  ASSUME Typed, Balanced, HandleCommit, UNCHANGED <<contract, holders, faults>>
  PROVE  Balanced'
<1> USE DEF node, rows, queue, reindexing
<1>1. /\ UNCHANGED <<head, events, crawled, wait, delayed, walk, reindex>> /\ job.pc = "commit"
      /\ HandleCw20Histories(EventIds(job.start, job.end), contract' # NoContract /\ contract'.track)
      /\ cp' = job.end /\ job' = [job EXCEPT !.pc = "call"]
  BY Zenon DEF HandleCommit
<1>2. SUFFICES ASSUME Tracked, NEW h \in StartBlock .. head, Holds(h)
               PROVE  Holds(h)'
  BY <1>1, Zenon DEF Balanced, Tracked
<1>3. job.start \in Int /\ job.end \in Int /\ job.start < job.end /\ job.end <= crawled /\ job.start = StartHeight(cp)
      /\ job'.pc = "call" /\ job'.start = job.start
  BY <1>1, StartHeightFacts, Zenon DEF Typed, JobTyped, Idle
<1>4. Frontier' = Frontier
  BY <1>1, <1>3, Zenon DEF Frontier
<1>5. Heights /\ crawled \in Int /\ cp \in Int /\ cp <= job.start
  BY <1>3, StartHeightFacts, Zenon
<1>6. Later(h)' = Later(h) /\ (\A i : Moving(i)' <=> Moving(i))
  BY <1>1, Zenon DEF Later, Moving
<1>7. \A i \in DOMAIN events : events[i].height \in Int /\ (events[i].height <= cp \/ job.start < events[i].height)
  <2>1. \A i \in DOMAIN events : events[i].height \in Int /\ StartBlock < events[i].height
    BY <1>5, EventTyped, Zenon DEF Heights
  <2>2. job.start = cp \/ job.start = StartBlock
    BY <1>3, Zenon DEF StartHeight
  <2> QED
    BY <1>3, <1>5, <2>1, <2>2
<1>8. Stored(h)'
  <2>1. \A i \in Later(h) : Moving(i) /\ events[i].height <= job.end =>
           i \in Range(activity) \/ i \in EventIds(job.start, job.end)
    <3>1. \A i \in DOMAIN events : job.start < events[i].height /\ events[i].height <= job.end
             => i \in EventIds(job.start, job.end)
      BY <1>3, <1>5, <1>7, EventIdsFacts
    <3> QED
      BY <1>2, <1>7, <3>1 DEF Later, Holds, Stored
  <2>2. \A i \in EventIds(job.start, job.end) :
           i \in DOMAIN events /\ events[i].height <= crawled /\ events[i].height <= job.end /\ job.start < events[i].height
    BY <1>3, <1>5, EventIdsFacts, ZenonT(40)
  <2>3. Range(activity') = Range(activity) \cup EventIds(job.start, job.end)
    <3>1. HandleCw20Histories(EventIds(job.start, job.end), TRUE) /\ TRUE \in BOOLEAN
      BY <1>1, <1>2, Zenon DEF HandleCw20Histories, Tracked
    <3> QED
      BY <2>2, <3>1, HistoriesFacts, Zenon
  <2>4. IncreasingOn(activity', Later(h))
    <3>1. IncreasingOn(activity, Later(h))
      BY <1>2, Zenon DEF Holds, Stored
    <3>2. ASSUME NEW x \in Range(activity) \cap Later(h), NEW y \in EventIds(job.start, job.end) \cap Later(h)
          PROVE  x < y
      <4>1. x \in DOMAIN events /\ y \in DOMAIN events /\ events[x].height < events[y].height
        BY <1>2, <1>3, <1>5, <1>7, <2>2 DEF Later, Holds, Stored
      <4>2. ~ (y <= x) /\ x \in Int /\ y \in Int
        BY <1>5, <1>7, <4>1, EventTyped DEF Heights
      <4> QED
        BY <4>2
    <3> QED
      BY <1>1, <2>2, <3>1, <3>2, HistoriesOrder, ZenonT(40)
  <2>5. \A i \in Later(h) : i \in Range(activity) => events[i].height <= job.end
    BY <1>2, <1>3, <1>5, <1>7 DEF Later, Holds, Stored
  <2> QED
    BY <1>1, <1>6, <2>1, <2>2, <2>3, <2>4, <2>5 DEF Stored
<1> QED
  BY <1>1, <1>2, <1>4, <1>8, SettledStays, QueuedStays DEF Holds, Snapped

(* A job that ends before its commit has done nothing; one that ends after *)
(* it loses a call.                                                        *)
LEMMA AbortBalanced ==
  ASSUME Typed, Balanced, HandleAbort
  PROVE  Balanced'
<1> USE DEF node, rows, queue, reindexing
<1>1. /\ UNCHANGED <<head, events, cp, contract, holders, activity, wait, delayed, walk, reindex>> /\ job' = Idle
      /\ job.pc = "call" => faults' # {}
      /\ job.pc # "call" => faults' = faults
  BY Zenon DEF HandleAbort
<1>2. CASE job.pc = "call"
  BY <1>1, <1>2, ZenonT(40) DEF Balanced
<1>3. CASE job.pc # "call"
  <2>1. Frontier' = Frontier
    BY <1>1, <1>3, ZenonT(40) DEF Frontier, Idle, StartHeight
  <2>2. ASSUME NEW h, Holds(h) PROVE Holds(h)'
    BY <1>1, <2>1, <2>2, SettledStays, QueuedStays, StoredStays DEF Holds, Snapped
  <2>3. (Tracked /\ faults = {})' <=> Tracked /\ faults = {}
    BY <1>1, <1>3, Zenon DEF Tracked
  <2> QED
    BY <1>1, <2>2, <2>3, ZenonT(40) DEF Balanced
<1> QED
  BY <1>2, <1>3, Zenon

(* The call after the commit: the job starts where the balances are, or    *)
(* where the last job ended.                                               *)
LEMMA CallBalanced ==
  ASSUME Typed, Balanced, HandleCall
  PROVE  Balanced'
<1> USE DEF node, rows, queue, reindexing
<1>1. /\ UNCHANGED <<head, events, cp, contract, holders, activity, delayed, walk, reindex, faults>>
      /\ job.pc = "call" /\ job' = Idle
      /\ \/ Tracked /\ UpdateByContract(contract, job.start, job.end)
         \/ Tracked /\ EventIds(job.start, job.end) = {} /\ wait' = wait
         \/ ~ Tracked
  BY Zenon DEF HandleCall
<1>2. SUFFICES ASSUME Tracked, NEW h \in StartBlock .. head, Holds(h)
               PROVE  Queued(h)'
  <2>1. (Tracked /\ faults = {})' <=> Tracked /\ faults = {}
    BY <1>1, Zenon DEF Tracked
  <2>2. ASSUME NEW h, Holds(h), Queued(h)' PROVE Holds(h)'
    BY <1>1, <2>2, SettledStays, StoredStays DEF Holds, Snapped
  <2> QED
    BY <1>1, <1>2, <2>1, <2>2 DEF Balanced
<1>3. /\ job.start \in Int /\ job.end \in Int /\ job.start < job.end /\ job.end = cp /\ cp <= crawled /\ crawled \in Int
      /\ StartBlock \in Nat /\ StartBlock <= job.start /\ h \in Int /\ Frontier = job.start
  BY <1>1, FrontierFacts, StartHeightFacts, StartBlockAssumption
<1>4. Frontier' = job.end
  BY <1>1, <1>3 DEF Frontier, Idle, StartHeight, NoRow
<1>5. contract \in ContractRow /\ contract.last \in Int /\ contract.id \in Nat
  BY <1>2, ContractParts, ZenonT(40) DEF Typed, Tracked
<1>6. Later(h)' = Later(h) /\ (\A i : Moving(i)' <=> Moving(i)) /\ (\A j, i : Covers(j, i)' <=> Covers(j, i))
  BY <1>1, Zenon DEF Later, Moving, Covers
<1>7. Heights /\ \A i \in Later(h) : i \in DOMAIN events /\ events[i].height \in Int /\ h < events[i].height
  BY StartHeightFacts, EventTyped, Zenon DEF Later
<1>8. wait \in Seq(UpdateJob) /\ delayed \in Seq(UpdateJob)
  BY Zenon DEF Typed
<1>9. \A j \in Entries : j \in UpdateJob /\ j.startBlock \in Int /\ j.endBlock \in Int
  <2>1. \A j \in Entries : j \in UpdateJob
    BY <1>8, RangeTyped, Zenon DEF Entries
  <2> QED
    BY <2>1, UpdateJobParts, Zenon
<1>10. /\ (h <= job.start /\ contract.last <= job.start) \/ h = contract.last
       /\ \A j \in Entries : j.id = contract.id =>
             h <= j.startBlock /\ j.startBlock < j.endBlock /\ j.endBlock <= job.start
       /\ Disjoint(wait, delayed, contract.id)
       /\ \A i \in Later(h) : Moving(i) /\ events[i].height <= job.start => \E j \in Entries : Covers(j, i)
  BY <1>2, <1>3, Zenon DEF Holds, Queued
<1>11. \A j \in Entries : j.id = contract.id => j.endBlock <= job.end
  BY <1>3, <1>9, <1>10
<1>12. CASE wait' = wait /\ \A i \in Later(h) : ~ (job.start < events[i].height /\ events[i].height <= job.end)
  <2>1. (h <= job.end /\ contract.last <= job.end) \/ h = contract.last
    BY <1>3, <1>5, <1>10
  <2>2. Entries' = Entries
    BY <1>1, <1>12, Zenon DEF Entries
  <2>3. \A i \in Later(h) : Moving(i) /\ events[i].height <= job.end => \E j \in Entries : Covers(j, i)
    BY <1>3, <1>7, <1>10, <1>12
  <2> QED
    BY <1>1, <1>4, <1>6, <1>10, <1>11, <1>12, <2>1, <2>2, <2>3, ZenonT(40) DEF Queued
<1>13. CASE EventIds(job.start, job.end) = {} /\ wait' = wait
  <2>1. \A i \in Later(h) : ~ (job.start < events[i].height /\ events[i].height <= job.end)
    <3>1. \A i \in Later(h) : i \notin EventIds(job.start, job.end)
      BY <1>13, Zenon
    <3>2. \A i \in Later(h) : events[i].height <= job.end => events[i].height <= crawled
      BY <1>3, <1>7
    <3> QED
      BY <1>3, <1>7, <3>1, <3>2, EventIdsFacts
  <2> QED
    BY <1>12, <1>13, <2>1
<1>14. CASE UpdateByContract(contract, job.start, job.end)
  <2>1. PICK start \in Int :
            /\ start = IF job.start >= contract.last THEN job.start ELSE contract.last
            /\ start >= job.end => wait' = wait
            /\ start < job.end => \E x \in UpdateJob : x.id = contract.id /\ x.startBlock = start
                                     /\ x.endBlock = job.end /\ wait' = Append(wait, x)
    BY <1>3, <1>5, <1>14, UpdateByContractFacts
  <2>2. CASE start >= job.end
    <3>1. h >= job.end
      BY <1>3, <1>5, <1>10, <2>1, <2>2
    <3>2. \A i \in Later(h) : ~ (job.start < events[i].height /\ events[i].height <= job.end)
      BY <1>3, <1>7, <3>1
    <3> QED
      BY <1>12, <2>1, <2>2, <3>2, ZenonT(40)
  <2>3. CASE start < job.end
    <3>1. PICK x \in UpdateJob : x.id = contract.id /\ x.startBlock = start /\ x.endBlock = job.end
                                 /\ wait' = Append(wait, x)
      BY <2>1, <2>3, Zenon
    <3>2. Entries' = Entries \cup {x}
      <4>1. Range(Append(wait, x)) = Range(wait) \cup {x}
        BY <1>8, Appended
      <4> QED
        BY <1>1, <3>1, <4>1, ZenonT(40) DEF Entries
    <3>3. h <= start /\ contract.last <= start /\ job.start <= start
      BY <1>3, <1>5, <1>10, <2>1
    <3>4. h <= job.end /\ contract.last <= job.end
      BY <1>3, <1>5, <2>3, <3>3
    <3>5. Disjoint(Append(wait, x), delayed, contract.id)
      <4>1. \A k \in Entries : k.id = contract.id => Apart(x, k)
        BY <1>3, <1>9, <1>10, <3>1, <3>3 DEF Apart
      <4> QED
        BY <1>8, <1>10, <4>1, JobAdded DEF Entries
    <3>6. \A i \in Later(h) : job.start < events[i].height /\ events[i].height <= job.end => Covers(x, i)
      <4>1. \A i \in Later(h) : job.start < events[i].height => start < events[i].height
        BY <1>3, <1>5, <1>7, <1>10, <2>1
      <4> QED
        BY <3>1, <4>1, ZenonT(40) DEF Covers
    <3>7. \A i \in Later(h) : Moving(i) /\ events[i].height <= job.end => \E j \in Entries \cup {x} : Covers(j, i)
      <4>1. \A i \in Later(h) : events[i].height <= job.start \/ job.start < events[i].height
        BY <1>3, <1>7
      <4> QED
        BY <1>10, <3>6, <4>1
    <3>8. x.startBlock < x.endBlock /\ h <= x.startBlock /\ x.endBlock <= job.end
      BY <1>3, <2>3, <3>1, <3>3
    <3>9. \A j \in Entries \cup {x} : j.id = contract.id =>
             h <= j.startBlock /\ j.startBlock < j.endBlock /\ j.endBlock <= job.end
      BY <1>10, <1>11, <3>8
    <3> QED
      BY <1>1, <1>4, <1>6, <3>1, <3>2, <3>4, <3>5, <3>7, <3>9, ZenonT(40) DEF Queued
  <2> QED
    BY <1>3, <2>1, <2>2, <2>3
<1> QED
  BY <1>1, <1>2, <1>13, <1>14

(* The same jobs in other places of the queue.                             *)
LEMMA QueuedSame ==
  ASSUME UNCHANGED <<events, contract, Frontier>>, NEW h, Queued(h),
         Within(wait', delayed', wait, delayed), Within(wait, delayed, wait', delayed'),
         Disjoint(wait', delayed', contract.id)
  PROVE  Queued(h)'
<1>1. Frontier' = Frontier /\ contract' = contract
  BY Zenon
<1>2. Later(h)' = Later(h) /\ (\A i : Moving(i)' <=> Moving(i)) /\ (\A j, i : Covers(j, i)' <=> Covers(j, i))
  BY Zenon DEF Later, Moving, Covers
<1>3. (\A j \in Entries' : \E k \in Entries : Same(j, k)) /\ (\A j \in Entries : \E k \in Entries' : Same(j, k))
  BY Zenon DEF Within, Entries
<1>4. \A j \in Entries' : j.id = contract.id => h <= j.startBlock /\ j.startBlock < j.endBlock /\ j.endBlock <= Frontier
  BY <1>3 DEF Same, Queued
<1>5. \A i \in Later(h) : Moving(i) /\ events[i].height <= Frontier => \E j \in Entries' : Covers(j, i)
  <2>1. \A j, k, i : Same(j, k) /\ Covers(j, i) => Covers(k, i)
    BY Zenon DEF Same, Covers
  <2> QED
    BY <1>3, <2>1, Zenon DEF Queued
<1> QED
  BY <1>1, <1>2, <1>4, <1>5 DEF Queued

(* A failed job waits, and comes back behind the jobs that are there.      *)
LEMMA RetryBalanced ==
  ASSUME Typed, Balanced, UpdateFail \/ UpdateRetry
  PROVE  Balanced'
<1> USE DEF node, rows, queue, reindexing
<1>1. UNCHANGED <<head, events, cp, contract, holders, activity, walk, reindex, job>>
  BY Zenon DEF UpdateFail, UpdateRetry
<1>2. wait \in Seq(UpdateJob) /\ delayed \in Seq(UpdateJob)
  BY Zenon DEF Typed
<1>3. Frontier' = Frontier
  BY <1>1, Zenon DEF Frontier, StartHeight
<1>4. SUFFICES ASSUME Tracked, faults' = {}
               PROVE  /\ Within(wait', delayed', wait, delayed) /\ Within(wait, delayed, wait', delayed')
                      /\ Disjoint(wait, delayed, contract.id) => Disjoint(wait', delayed', contract.id)
                      /\ faults = {}
  <2>1. Tracked' <=> Tracked
    BY <1>1, Zenon DEF Tracked
  <2>2. CASE Tracked /\ faults' = {}
    <3>1. PICK h \in StartBlock .. head : Holds(h)
      BY <1>4, <2>2, Zenon DEF Balanced
    <3>2. Disjoint(wait, delayed, contract.id)
      BY <3>1, Zenon DEF Holds, Queued
    <3>3. Queued(h)'
      BY <1>1, <1>3, <1>4, <2>2, <3>1, <3>2, QueuedSame DEF Holds
    <3>4. Holds(h)'
      BY <1>1, <3>1, <3>3, SettledStays, StoredStays DEF Holds, Snapped
    <3> QED
      BY <1>1, <3>4, ZenonT(40) DEF Balanced
  <2> QED
    BY <2>1, <2>2, Zenon DEF Balanced
<1>5. CASE UpdateFail
  <2>1. PICK x : x = [Head(wait) EXCEPT !.tries = @ + 1]
    BY Zenon
  <2>2. wait # <<>> /\ wait' = Tail(wait) /\ delayed' = Append(delayed, x) /\ faults' = faults
    <3>1. wait # <<>> /\ wait' = Tail(wait)
            /\ ((delayed' = Append(delayed, x) /\ faults' = faults) \/ faults' = faults \cup {"spent"})
      BY <1>5, <2>1, Zenon DEF UpdateFail
    <3> QED
      BY <1>4, <3>1, Zenon
  <2>3. Head(wait) \in UpdateJob
    BY <1>2, <2>2, HeadAndTail
  <2>4. PICK i \in Nat, p \in Int, y \in Int, t \in Nat :
           Head(wait) = [id |-> i, startBlock |-> p, endBlock |-> y, tries |-> t]
    BY <2>3, UpdateJobParts
  <2>5. x = [id |-> i, startBlock |-> p, endBlock |-> y, tries |-> t + 1]
    BY <2>1, <2>4
  <2>6. x \in UpdateJob /\ Same(x, Head(wait))
    BY <2>4, <2>5 DEF UpdateJob, Same
  <2>7. /\ Disjoint(wait, delayed, contract.id) => Disjoint(Tail(wait), Append(delayed, x), contract.id)
        /\ Within(Tail(wait), Append(delayed, x), wait, delayed) /\ Within(wait, delayed, Tail(wait), Append(delayed, x))
    BY <1>2, <2>2, <2>6, FirstDelayed, ZenonT(40)
  <2> QED
    BY <1>4, <2>2, <2>7, ZenonT(40)
<1>6. CASE UpdateRetry
  <2>1. PICK k \in DOMAIN delayed :
           /\ delayed' = SubSeq(delayed, 1, k - 1) \o SubSeq(delayed, k + 1, Len(delayed))
           /\ wait' = Append(wait, delayed[k]) /\ faults' = faults
    BY <1>6, Zenon DEF UpdateRetry
  <2>2. /\ Disjoint(wait, delayed, contract.id) => Disjoint(Append(wait, delayed[k]), delayed', contract.id)
        /\ Within(Append(wait, delayed[k]), delayed', wait, delayed) /\ Within(wait, delayed, Append(wait, delayed[k]), delayed')
    BY <1>2, <2>1, JobBack, ZenonT(40)
  <2> QED
    BY <1>4, <2>1, <2>2, ZenonT(40)
<1> QED
  BY <1>5, <1>6, Zenon

(* The jobs that follow a reindexing: with one height for all balances     *)
(* there is nothing to update, and the walk ends below them.               *)
LEMMA FollowBalanced ==
  ASSUME Typed, Balanced, ReindexFollow
  PROVE  Balanced'
<1> USE DEF node, rows, queue, reindexing
<1>1. /\ UNCHANGED <<head, events, cp, contract, holders, activity, delayed, job, faults>>
      /\ UpdateByContract([id |-> contract.id, last |-> reindex.min], reindex.min, reindex.max)
      /\ walk' = [prevId |-> 0, endBlock |-> reindex.max] /\ reindex.pc = "committed" /\ reindex'.pc = "done"
  BY Zenon DEF ReindexFollow, NoReindex
<1>2. SUFFICES ASSUME Tracked, NEW h \in StartBlock .. head, Holds(h)
               PROVE  Holds(h)'
  BY <1>1, Zenon DEF Balanced, Tracked
<1>3. reindex.min \in Int /\ reindex.max \in Int /\ contract.id \in Nat
  BY <1>2, ContractParts, Zenon DEF Typed, ReindexTyped, Tracked
<1>4. reindex.min = reindex.max /\ reindex.max <= h
  BY <1>1, <1>2, Zenon DEF Holds, Snapped
<1>5. wait' = wait
  <2>1. PICK c : c = [id |-> contract.id, last |-> reindex.min]
    BY Zenon
  <2>2. c.id \in Nat /\ c.last \in Int /\ c.last = reindex.min /\ UpdateByContract(c, reindex.min, reindex.max)
    BY <1>1, <1>3, <2>1
  <2>3. PICK start \in Int : start = (IF reindex.min >= c.last THEN reindex.min ELSE c.last)
                             /\ (start >= reindex.max => wait' = wait)
    BY <1>3, <2>2, UpdateByContractFacts
  <2> QED
    BY <1>3, <1>4, <2>2, <2>3
<1>6. Frontier' = Frontier
  BY <1>1, Zenon DEF Frontier, StartHeight
<1>7. Snapped(h)'
  BY <1>1, <1>4, Zenon DEF Snapped
<1> QED
  BY <1>1, <1>2, <1>5, <1>6, <1>7, SettledStays, QueuedStays, StoredStays DEF Holds

(* A page of the walk holds no event above its end.                        *)
LEMMA PageBalanced ==
  ASSUME Typed, Balanced, NEW acked \in BOOLEAN, HistoryPage(acked)
  PROVE  Balanced'
<1> USE DEF node, rows, queue, reindexing
<1>1. /\ UNCHANGED <<head, events, cp, contract, holders, wait, delayed, job, reindex>>
      /\ walk # NoWalk /\ HandleCw20Histories(NextPage, Tracked)
      /\ walk' = (IF acked THEN [walk EXCEPT !.prevId = Max(NextPage)] ELSE walk)
      /\ faults' = {} => faults = {}
  BY Zenon DEF HistoryPage
<1>2. SUFFICES ASSUME Tracked, NEW h \in StartBlock .. head, Holds(h)
               PROVE  Holds(h)'
  BY <1>1, Zenon DEF Balanced, Tracked
<1>3. walk \in [prevId : Nat, endBlock : Int] /\ walk'.endBlock = walk.endBlock /\ walk.endBlock <= h /\ h \in Int
  BY <1>1, <1>2, StartHeightFacts DEF Typed, ReindexTyped, Holds, Snapped
<1>4. Heights /\ \A i \in NextPage : i \in DOMAIN events /\ events[i].height <= crawled
  BY <1>1, NextPageFacts, StartHeightFacts, ZenonT(40)
<1>5. \A i \in NextPage : i \notin Later(h)
  <2>1. \A i \in NextPage : events[i].height <= walk.endBlock /\ events[i].height \in Int
    BY <1>1, <1>4, NextPageFacts, EventTyped
  <2>2. walk.endBlock \in Int
    BY <1>3, Zenon
  <2> QED
    BY <1>3, <2>1, <2>2 DEF Later
<1>6. HandleCw20Histories(NextPage, TRUE) /\ TRUE \in BOOLEAN
  BY <1>1, <1>2, Zenon DEF HandleCw20Histories
<1>7. Range(activity') = Range(activity) \cup NextPage
  BY <1>4, <1>6, HistoriesFacts, Zenon
<1>8. IncreasingOn(activity', Later(h))
  BY <1>2, <1>4, <1>5, <1>6, HistoriesOrder, ZenonT(40) DEF Holds, Stored
<1>9. Later(h)' = Later(h) /\ (\A i : Moving(i)' <=> Moving(i))
  BY <1>1, Zenon DEF Later, Moving
<1>10. Stored(h)'
  BY <1>1, <1>2, <1>5, <1>7, <1>8, <1>9 DEF Holds, Stored
<1>11. Frontier' = Frontier
  BY <1>1, Zenon DEF Frontier, StartHeight
<1>12. Snapped(h)'
  BY <1>1, <1>2, <1>3, ZenonT(40) DEF Holds, Snapped
<1> QED
  BY <1>1, <1>2, <1>10, <1>11, <1>12, SettledStays, QueuedStays DEF Holds

(* What the first job leaves in the queue.                                 *)
LEMMA FirstJob ==
  ASSUME Typed, wait # <<>>, NEW h, Queued(h), contract \in ContractRow
  PROVE  LET j == Head(wait)
             rest == Range(Tail(wait)) \cup Range(delayed)
         IN  /\ Entries = {j} \cup rest /\ Disjoint(Tail(wait), delayed, contract.id)
             /\ \A k \in Entries : k.id \in Nat /\ k.startBlock \in Int /\ k.endBlock \in Int
             /\ j.id = contract.id /\ {d \in rest : d.id = j.id /\ d.startBlock < j.startBlock} = {} =>
                   \A k \in rest : k.id = contract.id => j.endBlock <= k.startBlock
<1> DEFINE j == Head(wait)
           rest == Range(Tail(wait)) \cup Range(delayed)
<1>1. wait \in Seq(UpdateJob) /\ delayed \in Seq(UpdateJob)
  BY Zenon DEF Typed
<1>2. Entries = {j} \cup rest
  BY <1>1, HeadAndTail DEF Entries
<1>3. \A k \in Entries : k.id \in Nat /\ k.startBlock \in Int /\ k.endBlock \in Int
  <2>1. \A k \in Entries : k \in UpdateJob
    BY <1>1, RangeTyped, Zenon DEF Entries
  <2> QED
    BY <2>1, UpdateJobParts, Zenon
<1>4. /\ Disjoint(Tail(wait), delayed, contract.id)
      /\ \A k \in rest : k.id = contract.id /\ j.id = contract.id => Apart(j, k)
  BY <1>1, FirstDone, Zenon DEF Queued
<1>5. ASSUME j.id = contract.id, {d \in rest : d.id = j.id /\ d.startBlock < j.startBlock} = {},
             NEW k \in rest, k.id = contract.id
      PROVE  j.endBlock <= k.startBlock
  <2>1. ~ (k.startBlock < j.startBlock) /\ k \in Entries /\ j \in Entries
    BY <1>2, <1>5, Zenon
  <2>2. k.startBlock < k.endBlock
    BY <1>5, <2>1, Zenon DEF Queued
  <2>3. Apart(j, k)
    BY <1>4, <1>5, Zenon
  <2> QED
    BY <1>3, <2>1, <2>2, <2>3 DEF Apart
<1> QED
  BY <1>2, <1>3, <1>4, <1>5

(* The events of a job have their rows.                                    *)
LEMMA CoveredStored ==
  ASSUME Typed, NEW h \in Int, Queued(h), Stored(h), NEW j \in Entries, j.id = contract.id,
         NEW i \in Later(h), Moving(i), events[i].height <= j.endBlock
  PROVE  i \in Range(activity)
<1>1. i \in DOMAIN events /\ events[i].height \in Int /\ StartBlock < events[i].height
  BY StartHeightFacts, EventTyped, Zenon DEF Later, Heights
<1>2. j.endBlock \in Int /\ j.endBlock <= Frontier
  <2>1. j \in UpdateJob
    <3>1. wait \in Seq(UpdateJob) /\ delayed \in Seq(UpdateJob)
      BY Zenon DEF Typed
    <3> QED
      BY <3>1, RangeTyped, Zenon DEF Entries
  <2> QED
    BY <2>1, UpdateJobParts, Zenon DEF Queued
<1>3. Frontier <= cp \/ Frontier = StartBlock
  BY FrontierFacts, StartHeightFacts DEF StartHeight
<1>4. Frontier \in Int /\ cp \in Int /\ StartBlock \in Int
  BY FrontierFacts, StartHeightFacts, Zenon
<1>5. events[i].height <= cp
  BY <1>1, <1>2, <1>3, <1>4
<1> QED
  BY <1>5, Zenon DEF Stored

(* A job above h reads the rows of its range, in the order of the events.  *)
LEMMA ActivityOfFacts ==
  ASSUME Typed, NEW j, contract # NoContract, contract.id = j.id, NEW h \in Int, Stored(h),
         j.startBlock \in Int, j.endBlock \in Int, h <= j.startBlock
  PROVE  /\ Range(ActivityOf(j)) = Range(activity) \cap InBlocks(j.startBlock, j.endBlock)
         /\ IncreasingOn(ActivityOf(j), InBlocks(j.startBlock, j.endBlock))
<1> DEFINE ids == InBlocks(j.startBlock, j.endBlock)
<1>1. ActivityOf(j) = Those(activity, ids) /\ activity \in Seq(Int) /\ Int \subseteq Int
  BY Zenon DEF ActivityOf, Typed
<1>2. IncreasingOn(activity, ids)
  <2>1. Heights
    BY StartHeightFacts, Zenon
  <2>2. \A i \in ids : i \in Later(h)
    BY <2>1, EventTyped DEF InBlocks, Later
  <2>3. IncreasingOn(activity, Later(h))
    BY Zenon DEF Stored
  <2> HIDE DEF ids
  <2> QED
    BY <2>2, <2>3, Zenon DEF IncreasingOn
<1> HIDE DEF ids
<1>3. Range(Those(activity, ids)) = Range(activity) \cap ids /\ IncreasingOn(Those(activity, ids), ids)
  BY <1>1, <1>2, ThoseFacts, ZenonT(40)
<1> QED
  BY <1>1, <1>3, Zenon DEF ids

(* A job that is not behind another takes the balances from block h to its *)
(* last block.                                                             *)
LEMMA RunSettled ==
  ASSUME Typed, wait # <<>>, NEW h \in StartBlock .. head, Holds(h), contract \in ContractRow,
         NEW j, j = Head(wait), j.id = contract.id, Updated(j).ok,
         {d \in Range(Tail(wait)) \cup Range(delayed) : d.id = j.id /\ d.startBlock < j.startBlock} = {}
  PROVE  /\ \A a \in Addr : Held(Updated(j).holders, a) = Balance(a, j.endBlock)
         /\ \A a \in DOMAIN Updated(j).holders : Updated(j).holders[a].last <= j.endBlock
<1>1. Settled(h) /\ Queued(h) /\ Stored(h)
  BY Zenon DEF Holds
<1>2. /\ j \in Entries /\ j.startBlock \in Int /\ j.endBlock \in Int
      /\ \A k \in Entries : k.startBlock \in Int /\ k.endBlock \in Int
      /\ \A k \in Entries : k.id = contract.id => k = j \/ j.endBlock <= k.startBlock
  BY <1>1, FirstJob, ZenonT(40)
<1>3. h \in Int /\ Heights /\ h <= j.startBlock /\ j.startBlock < j.endBlock /\ HolderRows(holders)
  BY <1>1, <1>2, StartHeightFacts DEF Queued, Typed
<1>4. PICK x : x = EventsTo(h)
  BY Zenon
<1>5. PICK y : y = EventsTo(j.endBlock)
  BY Zenon
<1>6. PICK r : r = ActivityOf(j)
  BY Zenon
<1>7. /\ x \in 0 .. Len(events) /\ y \in 0 .. Len(events) /\ x <= y /\ Len(events) \in Nat
      /\ InBlocks(h, j.endBlock) = x + 1 .. y
  <2>1. h <= j.endBlock
    BY <1>2, <1>3
  <2> QED
    BY <1>2, <1>3, <1>4, <1>5, <2>1, EventsToFacts, EventsToOrder, InBlocksInterval, EventTyped, ZenonT(40)
<1>8. \A i \in x + 1 .. y : i \in Later(h) /\ h < events[i].height /\ events[i].height <= j.endBlock
                            /\ events[i].height \in Int
  BY <1>3, <1>7, EventTyped DEF InBlocks, Later
<1>9. /\ Range(r) = Range(activity) \cap InBlocks(j.startBlock, j.endBlock)
      /\ IncreasingOn(r, InBlocks(j.startBlock, j.endBlock)) /\ r \in Seq(DOMAIN events)
  <2>1. contract # NoContract
    BY ContractParts, Zenon
  <2> QED
    BY <1>1, <1>2, <1>3, <1>6, <2>1, ActivityOfFacts, ActivityTyped, ZenonT(40)
<1>10. InBlocks(j.startBlock, j.endBlock) \subseteq x + 1 .. y
  <2>1. InBlocks(j.startBlock, j.endBlock) \subseteq InBlocks(h, j.endBlock)
    BY <1>2, <1>3, EventTyped DEF InBlocks
  <2> QED
    BY <1>7, <2>1, ZenonT(40)
<1>11. Len(r) \in Nat /\ DOMAIN r = 1 .. Len(r) /\ \A k \in 1 .. Len(r) : r[k] \in Range(r)
  BY <1>9, InRange
<1>12. r \in Seq(x + 1 .. y) /\ \A k, l \in 1 .. Len(r) : k < l => r[k] < r[l]
  <2>1. \A k \in 1 .. Len(r) : r[k] \in InBlocks(j.startBlock, j.endBlock) /\ r[k] \in x + 1 .. y
    BY <1>9, <1>10, <1>11, ZenonT(40)
  <2>2. r \in Seq(x + 1 .. y)
    <3>1. PICK E : E = x + 1 .. y
      BY Zenon
    <3> QED
      BY <1>9, <2>1, <3>1, SeqOf, ZenonT(40)
  <2> QED
    BY <1>9, <1>11, <2>1, <2>2, ZenonT(40) DEF IncreasingOn
<1>13. ASSUME NEW i \in x + 1 .. y, Moving(i) PROVE i \in Range(r)
  <2>1. events[i].height <= Frontier
    <3>1. j.endBlock <= Frontier /\ Frontier \in Int
      BY <1>1, <1>2, FrontierFacts, ZenonT(40) DEF Queued
    <3> QED
      BY <1>2, <1>8, <3>1
  <2>2. PICK k \in Entries : Covers(k, i)
    BY <1>1, <1>8, <1>13, <2>1 DEF Queued
  <2>3. k = j
    BY <1>2, <1>8, <2>2 DEF Covers
  <2>4. i \in InBlocks(j.startBlock, j.endBlock)
    BY <1>8, <2>2, <2>3 DEF Covers, InBlocks, Later
  <2>5. i \in Range(activity)
    BY <1>1, <1>2, <1>3, <1>8, <1>13, CoveredStored
  <2> QED
    BY <1>9, <2>4, <2>5
<1>14. \A a \in Addr : Held(holders, a) = Worth(a, x)
  BY <1>1, <1>3, <1>4, BalanceIsWorth DEF Settled
<1>15. \A a \in DOMAIN holders : holders[a].last <= h
  BY <1>1, Zenon DEF Settled
<1>16. Updated(j) = Applied(r)
  BY <1>6, UpdatedApplied, Zenon
<1>17. /\ \A a \in Addr : Held(Applied(r).holders, a) = Worth(a, y)
       /\ \A a \in DOMAIN Applied(r).holders :
             Applied(r).holders[a].last <= j.endBlock
  <2>1. Applied(r).ok
    BY <1>16, ZenonT(40)
  <2>2. h <= j.endBlock /\ \A i \in x + 1 .. y : h <= events[i].height /\ events[i].height <= j.endBlock
    BY <1>2, <1>3, <1>8
  <2> QED
    BY <1>2, <1>3, <1>7, <1>12, <1>13, <1>14, <1>15, <2>1, <2>2, AppliedFollows, ZenonT(40)
<1>18. \A a \in Addr : Balance(a, j.endBlock) = Worth(a, y)
  BY <1>2, <1>3, <1>5, BalanceIsWorth, ZenonT(40)
<1> QED
  BY <1>16, <1>17, <1>18

(* The rest of the queue covers what the first job has not applied.        *)
LEMMA RunQueued ==
  ASSUME Typed, UNCHANGED <<events, delayed, job, cp>>, wait # <<>>, wait' = Tail(wait),
         NEW h \in StartBlock .. head, Queued(h), contract \in ContractRow, contract'.id = contract.id,
         NEW g \in Int, h <= g,
         (g = h /\ contract'.last = contract.last) \/ g = contract'.last,
         \A k \in Range(Tail(wait)) \cup Range(delayed) : k.id = contract.id => g <= k.startBlock,
         \A i \in Later(g) : Moving(i) => ~ Covers(Head(wait), i)
  PROVE  Queued(g)'
<1>1. /\ Entries = {Head(wait)} \cup Entries' /\ Disjoint(wait', delayed', contract'.id)
      /\ Entries' = Range(Tail(wait)) \cup Range(delayed)
  BY FirstJob, Zenon DEF Entries
<1>2. Frontier' = Frontier
  BY Zenon DEF Frontier, StartHeight
<1>3. Later(g)' = Later(g) /\ (\A i : Moving(i)' <=> Moving(i)) /\ (\A j, i : Covers(j, i)' <=> Covers(j, i))
  BY Zenon DEF Later, Moving, Covers
<1>4. h \in Int /\ \A i \in Later(g) : i \in Later(h)
  BY StartHeightFacts, EventTyped DEF Later
<1>5. (g <= Frontier /\ contract'.last <= Frontier) \/ g = contract'.last
  BY Zenon DEF Queued
<1>6. \A j \in Entries' : j.id = contract.id => g <= j.startBlock /\ j.startBlock < j.endBlock /\ j.endBlock <= Frontier
  BY <1>1, Zenon DEF Queued
<1>7. \A i \in Later(g) : Moving(i) /\ events[i].height <= Frontier => \E j \in Entries' : Covers(j, i)
  BY <1>1, <1>4, Zenon DEF Queued
<1> QED
  BY <1>1, <1>2, <1>3, <1>5, <1>6, <1>7, ZenonT(40) DEF Queued

(* Rows and walks that are in place for h are in place above it.           *)
LEMMA HigherStored ==
  ASSUME Typed, NEW h \in Int, NEW g \in Int, h <= g, Stored(h)
  PROVE  Stored(g)
<1>1. \A i \in Later(g) : i \in Later(h)
  BY StartHeightFacts, EventTyped DEF Later
<1>2. IncreasingOn(activity, Later(g))
  BY <1>1, Zenon DEF Stored, IncreasingOn
<1> QED
  BY <1>1, <1>2, ZenonT(40) DEF Stored

(* What a walk may insert lies below any higher block, too.                *)
LEMMA HigherSnapped ==
  ASSUME Typed, NEW h \in Int, NEW g \in Int, h <= g, Snapped(h)
  PROVE  Snapped(g)
<1>1. (walk # NoWalk => walk.endBlock \in Int) /\ reindex.max \in Int
  BY Zenon DEF Typed, ReindexTyped
<1> QED
  BY <1>1 DEF Snapped

(* CW20_UPDATE_BY_CONTRACT: nothing, or all the moves of the job.          *)
LEMMA RunBalanced ==
  ASSUME Typed, Typed', Balanced, NEW acked \in BOOLEAN, UpdateRun(acked)
  PROVE  Balanced'
<1> USE DEF node, rows, queue, reindexing
<1>1. PICK j : j = Head(wait)
  BY Zenon
<1>2. PICK behind : behind = {d \in Range(Tail(wait)) \cup Range(delayed) : d.id = j.id /\ d.startBlock < j.startBlock}
  BY Zenon
<1>3. /\ UNCHANGED <<head, events, crawled, cp, activity, job, delayed, walk, reindex>>
      /\ wait # <<>> /\ Updated(j).ok /\ wait' = (IF acked THEN Tail(wait) ELSE wait)
      /\ IF ActivityOf(j) = <<>> THEN UNCHANGED <<contract, holders>>
         ELSE /\ contract' = [contract EXCEPT !.supply = @ + Updated(j).add, !.last = j.endBlock]
              /\ holders' = Updated(j).holders
      /\ faults' = faults \cup (IF acked THEN {} ELSE {"redelivered"}) \cup (IF behind = {} THEN {} ELSE {"overtaken"})
  BY <1>1, <1>2, Zenon DEF UpdateRun
<1>4. SUFFICES ASSUME Tracked, faults' = {}, NEW h \in StartBlock .. head, Holds(h)
               PROVE  \E g \in StartBlock .. head : Holds(g)'
  <2>1. Tracked' <=> Tracked
    BY TrackedKept, Zenon
  <2>2. faults' = {} => faults = {}
    BY <1>3, Zenon
  <2> QED
    BY <1>3, <1>4, <2>1, <2>2, ZenonT(40) DEF Balanced
<1>5. acked /\ behind = {} /\ wait' = Tail(wait)
  BY <1>3, <1>4, Zenon
<1>6. contract \in ContractRow /\ contract # NoContract
  BY <1>4, Zenon DEF Typed, Tracked
<1>7. Settled(h) /\ Queued(h) /\ Stored(h) /\ Snapped(h)
  BY <1>4, Zenon DEF Holds
<1>8. PICK rest : rest = Range(Tail(wait)) \cup Range(delayed)
  BY Zenon
<1>9. /\ Entries = {j} \cup rest
      /\ \A k \in Entries : k.id \in Nat /\ k.startBlock \in Int /\ k.endBlock \in Int
      /\ j.id = contract.id => \A k \in rest : k.id = contract.id => j.endBlock <= k.startBlock
  BY <1>1, <1>2, <1>3, <1>5, <1>6, <1>7, <1>8, FirstJob
<1>10. h \in Int /\ Heights /\ head \in Int /\ StartBlock \in Int /\ h <= h
  BY StartHeightFacts
<1>11. ASSUME UNCHANGED <<contract, holders>>, \A i \in Later(h) : Moving(i) => ~ Covers(j, i)
       PROVE  \E g \in StartBlock .. head : Holds(g)'
  <2>1. \A k \in rest : k.id = contract.id => h <= k.startBlock
    BY <1>7, <1>9, ZenonT(40) DEF Queued
  <2>2. Queued(h)'
    BY <1>1, <1>3, <1>5, <1>6, <1>7, <1>8, <1>10, <1>11, <2>1, RunQueued
  <2>3. Settled(h)' /\ Stored(h)' /\ Snapped(h)'
    BY <1>3, <1>7, <1>11, SettledStays, StoredStays DEF Snapped
  <2> QED
    BY <2>2, <2>3, Zenon DEF Holds
<1>12. CASE j.id # contract.id
  <2>1. ActivityOf(j) = <<>>
    BY <1>12, Zenon DEF ActivityOf
  <2> QED
    BY <1>3, <1>11, <1>12, <2>1 DEF Covers
<1>13. CASE j.id = contract.id /\ ActivityOf(j) = <<>>
  <2>1. j \in Entries /\ j.startBlock \in Int /\ j.endBlock \in Int /\ h <= j.startBlock
    BY <1>7, <1>9, <1>13 DEF Queued
  <2>2. Range(activity) \cap InBlocks(j.startBlock, j.endBlock) = {}
    <3>1. Range(<<>>) = {}
      BY DEF Range
    <3> QED
      BY <1>6, <1>7, <1>10, <1>13, <2>1, <3>1, ActivityOfFacts
  <2>3. ASSUME NEW i \in Later(h), Moving(i), Covers(j, i) PROVE FALSE
    <3>1. i \in InBlocks(j.startBlock, j.endBlock)
      BY <2>3, ZenonT(40) DEF Covers, InBlocks, Later
    <3>2. i \in Range(activity)
      BY <1>7, <1>10, <1>13, <2>1, <2>3, CoveredStored DEF Covers
    <3> QED
      BY <2>2, <3>1, <3>2
  <2> QED
    BY <1>3, <1>11, <1>13, <2>3
<1>14. CASE j.id = contract.id /\ ActivityOf(j) # <<>>
  <2>1. /\ j \in Entries /\ j.endBlock \in Int /\ h <= j.endBlock /\ j.endBlock \in StartBlock .. head
    <3>1. j \in Entries /\ j.startBlock \in Int /\ j.endBlock \in Int /\ h <= j.startBlock /\ j.startBlock < j.endBlock
          /\ j.endBlock <= Frontier
      BY <1>7, <1>9, <1>14 DEF Queued
    <3> QED
      BY <1>10, <3>1, FrontierFacts
  <2>2. contract'.id = contract.id /\ contract'.last = j.endBlock /\ holders' = Updated(j).holders
    <3>1. PICK s \in Int : s = contract.supply + Updated(j).add
      BY <1>6, ContractParts, UpdatedFacts
    <3>2. contract' = [contract EXCEPT !.supply = s, !.last = j.endBlock]
      BY <1>3, <1>14, <3>1, ZenonT(40)
    <3>3. PICK n \in Nat, t \in BOOLEAN, u \in Int, l \in Int : contract = [id |-> n, track |-> t, supply |-> u, last |-> l]
      BY <1>6, ContractParts
    <3>4. contract' = [id |-> n, track |-> t, supply |-> s, last |-> j.endBlock]
      BY <3>2, <3>3, ZenonT(40)
    <3> QED
      BY <1>3, <1>14, <3>3, <3>4
  <2>3. Settled(j.endBlock)'
    <3>1. /\ \A a \in Addr : Held(Updated(j).holders, a) = Balance(a, j.endBlock)
          /\ \A a \in DOMAIN Updated(j).holders : Updated(j).holders[a].last <= j.endBlock
      BY <1>1, <1>2, <1>3, <1>4, <1>5, <1>6, <1>14, RunSettled
    <3>2. PICK e : e = j.endBlock
      BY Zenon
    <3>3. \A a : Balance(a, e)' = Balance(a, e)
      BY <1>3, ChainStays, ZenonT(40)
    <3>4. Settled(e)'
      BY <2>2, <3>1, <3>2, <3>3 DEF Settled, Held
    <3> QED
      BY <3>2, <3>4, ZenonT(40)
  <2>4. Queued(j.endBlock)'
    <3>1. PICK e \in Int : e = j.endBlock
      BY <2>1, ZenonT(40)
    <3>2. \A i \in Later(e) : Moving(i) => ~ Covers(j, i)
      BY <1>10, <2>1, <3>1, EventTyped DEF Covers, Later
    <3>3. \A k \in rest : k.id = contract.id => e <= k.startBlock
      BY <1>9, <1>14, <3>1
    <3>4. Queued(e)'
      BY <1>1, <1>3, <1>5, <1>6, <1>7, <1>8, <2>1, <2>2, <3>1, <3>2, <3>3, RunQueued
    <3> QED
      BY <3>1, <3>4
  <2>5. Stored(j.endBlock)' /\ Snapped(j.endBlock)'
    <3>1. PICK e \in Int : e = j.endBlock
      BY <2>1
    <3>2. Stored(e) /\ Snapped(e)
      BY <1>7, <1>10, <2>1, <3>1, HigherStored, HigherSnapped
    <3>3. Stored(e)' /\ Snapped(e)'
      BY <1>3, <3>2, StoredStays DEF Snapped
    <3> QED
      BY <3>1, <3>3
  <2> QED
    BY <2>1, <2>3, <2>4, <2>5 DEF Holds
<1> QED
  BY <1>12, <1>13, <1>14

(* Every action keeps the balances those of one block.                     *)
LEMMA BalancedStep ==
  ASSUME Typed, Typed', Unknown, Ids, Answered, Balanced, [Next]_vars
  PROVE  Balanced'
<1>1. CASE HandleCommit
  <2>1. HandleCw20Instantiate \/ UNCHANGED <<contract, holders, faults>>
    BY <1>1, Zenon DEF HandleCommit
  <2> QED
    BY <1>1, <2>1, InsertBalanced, CommitBalanced
<1>2. CASE \E acked \in BOOLEAN : UpdateRun(acked) \/ HistoryPage(acked)
  BY <1>2, RunBalanced, PageBalanced, ZenonT(40)
<1>3. CASE NewBlock \/ HandleCall \/ HandleAbort
  BY <1>3, NewBlockBalanced, CallBalanced, AbortBalanced
<1>4. CASE UpdateFail \/ UpdateRetry
  BY <1>4, RetryBalanced, ZenonT(40)
<1>5. CASE ReindexCommit \/ ReindexFollow
  BY <1>5, ReindexBalanced, FollowBalanced
<1>6. CASE CrawlContractEvent \/ HandleStart \/ ReindexRequest \/ ReindexQuery \/ ReindexFail \/ HistoryEnd \/ HistoryFail
             \/ UNCHANGED vars
  BY <1>6, QuietStep, ZenonT(40)
<1> QED
  BY <1>1, <1>2, <1>3, <1>4, <1>5, <1>6, ZenonT(40) DEF Next

(* With no job left, the block of the balances is the checkpoint, or above *)
(* it: between a lower one and the checkpoint nothing moved.               *)
LEMMA BalancedAtRest ==
  ASSUME Typed, Balanced
  PROVE  BalancesOfOneBlock
<1>1. SUFFICES ASSUME Tracked, faults = {}, job = Idle, wait = <<>>, delayed = <<>>
               PROVE  \E h \in cp .. head : \A a \in Addr : Balance(a, h) = Held(holders, a)
  BY Zenon DEF BalancesOfOneBlock, Held
<1>2. PICK h \in StartBlock .. head : Holds(h)
  BY <1>1, Zenon DEF Balanced
<1>3. /\ Heights /\ StartBlock \in Nat /\ head \in Int /\ cp \in Int /\ h \in Int /\ StartBlock <= h /\ h <= head
      /\ cp <= crawled /\ crawled <= head /\ crawled \in Int
  BY StartHeightFacts, StartBlockAssumption
<1>4. \A a \in Addr : Balance(a, h) = Held(holders, a)
  BY <1>2, ZenonT(40) DEF Holds, Settled
<1>5. CASE cp <= h
  BY <1>3, <1>4, <1>5
<1>6. CASE h < cp
  <2>1. Frontier = cp
    BY <1>1, <1>3, <1>6 DEF Frontier, Idle, StartHeight, NoRow
  <2>2. \A i \in Later(h) : events[i].height <= cp => ~ Moving(i)
    <3>1. Entries = {}
      BY <1>1 DEF Entries, Range
    <3> QED
      BY <1>2, <2>1, <3>1 DEF Holds, Queued
  <2>3. PICK x : x = EventsTo(h)
    BY Zenon
  <2>4. PICK y : y = EventsTo(cp)
    BY ZenonT(40)
  <2>5. x \in 0 .. Len(events) /\ y \in 0 .. Len(events) /\ x <= y /\ InBlocks(h, cp) = x + 1 .. y
    BY <1>3, <1>6, <2>3, <2>4, EventsToFacts, EventsToOrder, InBlocksInterval
  <2>6. \A i \in x + 1 .. y : ~ Moving(i)
    BY <2>2, <2>5, ZenonT(40) DEF InBlocks, Later
  <2>7. \A a \in Addr : Worth(a, y) = Worth(a, x)
    BY <1>3, <2>5, <2>6, WorthFlat
  <2>8. \A a \in Addr : Balance(a, cp) = Balance(a, h)
    BY <1>3, <2>3, <2>4, <2>7, BalanceIsWorth
  <2>9. cp \in cp .. head
    BY <1>3
  <2> QED
    BY <1>4, <2>8, <2>9
<1> QED
  BY <1>3, <1>5, <1>6

(* When HANDLE_CW20 and the queue of CW20_UPDATE_BY_CONTRACT are at rest   *)
(* and nothing went wrong with or since the writing of the contract row,   *)
(* the balances in cw20_holder are those of the chain after one block, at  *)
(* or above the checkpoint.                                                *)
THEOREM BalancesHold == Spec => []BalancesOfOneBlock
<1>1. Init => Unknown /\ Ids /\ Answered /\ Balanced
  <2> SUFFICES ASSUME Init PROVE Unknown /\ Ids /\ Answered /\ Balanced
    BY Zenon
  <2>1. contract = NoContract /\ activity = <<>> /\ wait = <<>> /\ delayed = <<>>
    BY Zenon DEF Init
  <2>2. Entries = {}
    BY <2>1 DEF Entries, Range
  <2>3. reindex.pc = "none"
    BY Zenon DEF Init, NoReindex
  <2>4. Answered
    BY <2>3 DEF Answered
  <2> QED
    BY <2>1, <2>2, <2>4, Zenon DEF Unknown, Ids, Balanced, Tracked
<1>2. Typed /\ Typed' /\ (Unknown /\ Ids /\ Answered /\ Balanced) /\ [Next]_vars
        => (Unknown /\ Ids /\ Answered /\ Balanced)'
  BY UnknownStep, IdsStep, AnsweredStep, BalancedStep
<1>3. Typed /\ Balanced => BalancesOfOneBlock
  BY BalancedAtRest, Zenon
<1> QED
  BY <1>1, <1>2, <1>3, TypesHold, PTL DEF Spec
=============================================================================
