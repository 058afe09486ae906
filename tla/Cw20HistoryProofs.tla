------------------------- MODULE Cw20HistoryProofs --------------------------
(***************************************************************************)
(* For every chain, every set of accounts, every size of the pages and any *)
(* number of jobs, retries and reindexings, the history of a CW-20         *)
(* contract has every move once.  The second part is about the queue of    *)
(* update jobs and the order of the history, which the balances rest on.   *)
(***************************************************************************)
EXTENDS Cw20Proofs

(* The provers that try a leaf, one after the other, and their time in     *)
(* seconds.                                                                *)
USE SMTT(40), ZenonT(40)

(* The page has every event that is due up to its last one.                *)
LEMMA NextPageComplete ==
  ASSUME Typed, walk # NoWalk, NEW i \in DOMAIN events, i > walk.prevId,
         events[i].height <= walk.endBlock, events[i].height <= crawled
  PROVE  NextPage # {} /\ (i \in NextPage \/ i > Max(NextPage))
<1>1. Heights /\ crawled \in Int /\ StartBlock \in Int /\ walk.endBlock \in Int
  BY StartHeightFacts, Zenon DEF Typed, ReindexTyped
<1>2. PICK n \in Nat : DOMAIN events = 1 .. n
  BY <1>1, EventTyped, Zenon
<1>3. PICK due : due = {k \in EventIds(StartBlock, walk.endBlock) : k > walk.prevId}
  BY Zenon
<1>4. due \in SUBSET (1 .. n) /\ i \in due
  <2>1. StartBlock < events[i].height
    BY <1>1, Zenon DEF Heights
  <2>2. i \in EventIds(StartBlock, walk.endBlock)
    BY <1>1, <2>1, EventIdsFacts, Zenon
  <2>3. \A k \in EventIds(StartBlock, walk.endBlock) : k \in 1 .. n
    BY <1>1, <1>2, EventIdsFacts, Zenon
  <2> QED
    BY <1>3, <2>2, <2>3, Zenon
<1>5. NextPage = {x \in due : Cardinality({k \in due : k < x}) < Page}
  BY <1>3, Zenon DEF NextPage
<1>6. IsFiniteSet(due) /\ \A k \in due : k \in Int
  <2>1. IsFiniteSet(1 .. n)
    BY FS_Interval
  <2>2. due \subseteq 1 .. n
    BY <1>4, Zenon
  <2>3. IsFiniteSet(due)
    BY <2>1, <2>2, FS_Subset, Zenon
  <2>4. \A k \in due : k \in Int
    BY <2>2
  <2> QED
    BY <2>3, <2>4, Zenon
<1>7. \A x : IsFiniteSet({k \in due : k < x}) /\ Cardinality({k \in due : k < x}) \in Nat
  <2> TAKE x
  <2>1. {k \in due : k < x} \subseteq due
    BY Zenon
  <2> QED
    BY <1>6, <2>1, FS_Subset, FS_CardinalityType, Zenon
<1>8. NextPage # {}
  <2>1. Min(due) \in due /\ \A x \in due : Min(due) <= x
    <3>1. due # {} /\ 1 \in Int /\ n \in Int
      BY <1>4
    <3> QED
      BY <1>4, <3>1, Extremes, Zenon
  <2>2. PICK x \in due : \A y \in due : x <= y
    BY <2>1, Zenon
  <2>3. {k \in due : k < x} = {}
    BY <1>6, <2>2
  <2>4. Cardinality({k \in due : k < x}) = 0
    BY <2>3, FS_EmptySet, Zenon
  <2> QED
    BY <1>5, <2>4, Cw20Assumption
<1>9. ASSUME ~ (i > Max(NextPage))
      PROVE  i \in NextPage
  <2>1. PICK m : m = Max(NextPage)
    BY Zenon
  <2>2. m \in NextPage
    BY <1>8, <2>1, NextPageFacts, Zenon
  <2>7. m \in due /\ Cardinality({k \in due : k < m}) < Page
    BY <1>5, <2>2, Zenon
  <2>3. i <= m /\ i \in Int /\ m \in Int
    <3>1. ~ (i > m)
      BY <1>9, <2>1, Zenon
    <3>2. i \in Int /\ m \in Int
      BY <1>4, <1>6, <2>7, Zenon
    <3> QED
      BY <3>1, <3>2
  <2>4. {k \in due : k < i} \subseteq {k \in due : k < m}
    BY <1>6, <2>3
  <2>5. Cardinality({k \in due : k < i}) <= Cardinality({k \in due : k < m})
    BY <1>7, <2>4, FS_Subset, Zenon
  <2>6. Cardinality({k \in due : k < i}) < Page
    BY <1>7, <2>5, <2>7, Cw20Assumption
  <2> QED
    BY <1>4, <1>5, <2>6, Zenon
<1> QED
  BY <1>8, <1>9, Zenon

-----------------------------------------------------------------------------
(* The answer that a reindexing holds is one of a block of the chain.      *)
Answered ==
    reindex.pc \in {"unknown", "known"} /\ reindex.answer.track =>
        \E l \in StartBlock .. head : Taken(reindex.answer, l)

(* A new block leaves it so.                                               *)
LEMMA TakenStays ==
  ASSUME Heights, Continues, NEW s, NEW l \in Int, l <= head, Taken(s, l),
         \A a \in DOMAIN s.holders : s.holders[a].last \in Int
  PROVE  Taken(s, l)'
<1>1. \A i \in DOMAIN events' : events'[i].height \in Int
  <2>1. events' \in Seq(Event)
    BY Zenon DEF Continues, Heights
  <2>2. \A i \in DOMAIN events' : events'[i] \in Event
    BY <2>1
  <2> QED
    BY <2>2, Zenon DEF Event
<1>2. head \in Int /\ head' = head + 1
  BY Zenon DEF Heights, Continues
<1>3. /\ \A i \in DOMAIN events : i \in DOMAIN events' /\ events'[i] = events[i]
      /\ \A i \in DOMAIN events' : events'[i].height <= l => i \in DOMAIN events
  BY <1>1, <1>2, ContinuesFacts, ContinuesOld
<1>4. Listed(l)' = Listed(l) /\ Listed(l) \subseteq Addr
  BY <1>3, ZenonT(40) DEF Listed
<1>5. \A a \in Listed(l) : Balance(a, l)' = Balance(a, l)
  BY <1>4, ContinuesFacts, Zenon
<1>6. \A x \in Int : x \in l .. head => x \in l .. head'
  BY <1>2
<1> QED
  BY <1>4, <1>5, <1>6, Zenon DEF Taken

(* No other step touches it before the transaction of the reindexing.      *)
LEMMA AnsweredStep ==
  ASSUME Typed, Answered, [Next]_vars
  PROVE  Answered'
<1> USE DEF node, rows, queue, reindexing
<1>0. Heights /\ StartBlock \in Int /\ crawled \in Int /\ head \in Int /\ StartBlock <= crawled
  BY StartHeightFacts DEF Typed
<1>1. CASE ReindexQuery
  <2>1. UNCHANGED <<head, events>>
    BY <1>1, Zenon DEF ReindexQuery
  <2>2. PICK s \in Answers, pc \in {"unknown", "known"} :
           reindex' = [pc |-> pc, min |-> Lowest(s.holders), max |-> Highest(s.holders), answer |-> s]
    BY <1>1, Zenon DEF ReindexQuery
  <2>3. reindex'.answer = s
    BY <2>2, Zenon
  <2>4. s.track => \E l \in crawled .. head : Taken(s, l)
    BY <1>0, AnswerFacts, Zenon
  <2>5. \A l \in crawled .. head : l \in StartBlock .. head
    BY <1>0
  <2>6. \A l : Taken(s, l) => Taken(s, l)'
    <3>1. (\A l : Listed(l)' = Listed(l)) /\ head' = head
      BY <2>1, Zenon DEF Listed
    <3> QED
      BY <2>1, <3>1, ChainStays, Zenon DEF Taken
  <2> QED
    BY <2>1, <2>3, <2>4, <2>5, <2>6, Zenon DEF Answered
<1>2. CASE NewBlock
  <2>1. UNCHANGED reindex /\ <<Instantiate>> \in Seq(Move) /\ Grow(<<Instantiate>>)
    BY <1>2 DEF NewBlock, Instantiate, Move
  <2>2. Continues
    BY <1>0, <2>1, GrowContinues, Zenon
  <2>3. PICK s : s = reindex.answer /\ s = reindex'.answer
    BY <2>1, Zenon
  <2>4. SUFFICES ASSUME reindex.pc \in {"unknown", "known"}, s.track
                 PROVE  \E l \in StartBlock .. head' : Taken(s, l)'
    BY <2>1, <2>3, Zenon DEF Answered
  <2>5. PICK l \in StartBlock .. head : Taken(s, l)
    BY <2>3, <2>4, Zenon DEF Answered
  <2>6. HolderRows(s.holders)
    BY <2>3, <2>4, Zenon DEF Typed, ReindexTyped, AnswerTyped
  <2>7. \A a \in DOMAIN s.holders : s.holders[a].last \in Int
    BY <2>6, Zenon DEF HolderRows, Holder
  <2>8. l \in Int /\ l <= head /\ l \in StartBlock .. head'
    BY <1>0, <2>2 DEF Continues
  <2>9. Taken(s, l)'
    BY <1>0, <2>2, <2>5, <2>7, <2>8, TakenStays, Zenon
  <2> QED
    BY <2>8, <2>9, Zenon
<1>3. CASE UNCHANGED <<head, events, reindex>>
  <2>1. PICK s : s = reindex.answer /\ s = reindex'.answer
    BY <1>3, Zenon
  <2>2. \A l : Taken(s, l) => Taken(s, l)'
    <3>1. (\A l : Listed(l)' = Listed(l)) /\ head' = head
      BY <1>3, Zenon DEF Listed
    <3> QED
      BY <1>3, <3>1, ChainStays, Zenon DEF Taken
  <2> QED
    BY <1>3, <2>1, <2>2, Zenon DEF Answered
<1>4. CASE ReindexRequest \/ ReindexCommit \/ ReindexFollow \/ ReindexFail \/ HistoryEnd
  <2>1. reindex'.pc \in {"queued", "committed", "done", "failed", "none"}
    <3>1. ReindexRequest => reindex'.pc = "queued"
      <4>1. ReindexRequest => reindex = NoReindex /\ reindex' = [reindex EXCEPT !.pc = "queued"]
        BY Zenon DEF ReindexRequest, Typed, ReindexTyped
      <4> QED
        BY <4>1, Zenon DEF NoReindex
    <3>2. ReindexCommit => reindex'.pc = "committed"
      BY Zenon DEF ReindexCommit, NoReindex
    <3>3. (ReindexFollow => reindex'.pc = "done") /\ (ReindexFail => reindex'.pc = "failed")
      BY Zenon DEF ReindexFollow, ReindexFail, NoReindex
    <3>4. HistoryEnd => reindex'.pc = "none"
      BY DEF HistoryEnd, NoReindex
    <3> QED
      BY <1>4, <3>1, <3>2, <3>3, <3>4, Zenon
  <2>2. reindex'.pc \notin {"unknown", "known"}
    BY <2>1
  <2> QED
    BY <2>2, Zenon DEF Answered
<1>5. \/ ReindexQuery \/ NewBlock \/ UNCHANGED <<head, events, reindex>>
      \/ (ReindexRequest \/ ReindexCommit \/ ReindexFollow \/ ReindexFail \/ HistoryEnd)
  BY Zenon DEF Next, vars, CrawlContractEvent, HandleStart, HandleCommit, HandleCall, HandleAbort, UpdateRun,
     HistoryPage, UpdateFail, UpdateRetry, HistoryFail
<1> QED
  BY <1>1, <1>2, <1>3, <1>4, <1>5, Zenon
-----------------------------------------------------------------------------
(* The history.  What the walk still owes it, or never will give it.       *)
Owed(i) ==
    \/ reindex.pc = "committed" /\ events[i].height <= reindex.max
    \/ walk # NoWalk /\ i > walk.prevId /\ events[i].height <= walk.endBlock
    \/ reindex.pc = "failed" \/ (reindex.pc = "done" /\ walk = NoWalk)

(* Every move below the checkpoint has its row, or the walk owes it.       *)
Complete ==
    Tracked /\ "gap" \notin faults => \A i \in DOMAIN events :
        events[i].height <= cp /\ Moving(i) => i \in Range(activity) \/ Owed(i)

(* The rows that HANDLE_CW20, and that the walk, may have made of event i. *)
Handled(i) ==
    IF events[i].height <= cp /\ (reindexed = <<>> \/ events[i].height > reindexed[Len(reindexed)]) THEN 1 ELSE 0
Walked(i) ==
    IF reindexed # <<>> /\ reindex.pc # "committed" /\ (walk # NoWalk => i <= walk.prevId) THEN 1 ELSE 0

(* No event has more rows than these two made.                             *)
Once ==
    "redelivered" \notin faults => \A i \in DOMAIN events : Occurrences(activity, i) <= Handled(i) + Walked(i)

(* No step loses an event from the history that it does not owe to the     *)
(* walk of a reindexing.                                                   *)
LEMMA CompleteStep ==
  ASSUME Typed, Typed', Answered, Complete, [Next]_vars
  PROVE  Complete'
<1> SUFFICES ASSUME Tracked', "gap" \notin faults', NEW i \in DOMAIN events', events'[i].height <= cp', Moving(i)'
             PROVE  i \in Range(activity)' \/ Owed(i)'
  BY Zenon DEF Complete
<1> USE DEF node, rows, queue, reindexing
<1>0. /\ Heights /\ StartBlock \in Int /\ head \in Int /\ crawled \in Int /\ cp \in Int
      /\ StartHeight(cp) \in Int /\ StartBlock <= StartHeight(cp) /\ StartHeight(cp) <= crawled
      /\ crawled <= head /\ cp <= StartHeight(cp)
      /\ \A k \in DOMAIN events : events[k].height \in Int
  BY StartHeightFacts, EventTyped, Zenon
<1>1. CASE NewBlock
  <2>1. <<Instantiate>> \in Seq(Move) /\ Grow(<<Instantiate>>)
    BY <1>1 DEF NewBlock, Instantiate, Move
  <2>2. Continues
    BY <1>0, <2>1, GrowContinues, Zenon
  <2>3. UNCHANGED <<cp, contract, activity, reindex, walk, faults>>
    BY <1>1, Zenon DEF NewBlock
  <2>4. events'[i].height \in Int
    <3>1. events' \in Seq(Event)
      BY Zenon DEF Typed, Chain, Heights
    <3>2. events'[i] \in Event
      BY <3>1
    <3> QED
      BY <3>2, Zenon DEF Event
  <2>5. i \in DOMAIN events /\ events'[i] = events[i] /\ Moving(i)
    BY <1>0, <2>2, <2>3, <2>4, ContinuesOld, ContinuesFacts
  <2>6. i \in Range(activity) \/ Owed(i)
    BY <2>3, <2>5, Zenon DEF Complete, Tracked
  <2> QED
    BY <2>3, <2>5, <2>6, Zenon DEF Owed
<1>2. ASSUME UNCHANGED <<head, events>>
      PROVE  i \in DOMAIN events /\ events'[i] = events[i] /\ Moving(i) /\ events[i].height \in Int
  BY <1>0, <1>2, Zenon DEF Moving
<1>3. ASSUME UNCHANGED <<head, events, cp, activity, reindex, walk>>, Tracked' => Tracked, faults \subseteq faults'
      PROVE  i \in Range(activity)' \/ Owed(i)'
  BY <1>2, <1>3, Zenon DEF Complete, Owed
<1>4. CASE HandleCommit
  <2>1. /\ UNCHANGED <<head, events, crawled, reindex, walk>>
        /\ job.pc = "commit" /\ cp' = job.end
        /\ IF 1 \in EventIds(job.start, job.end)
           THEN HandleCw20Instantiate ELSE UNCHANGED <<contract, holders, faults>>
        /\ HandleCw20Histories(EventIds(job.start, job.end), TRUE)
    BY <1>4, Zenon DEF HandleCommit, Tracked
  <2>2. job.start \in Int /\ job.end \in Int /\ job.end <= crawled /\ job.start = StartHeight(cp)
    BY <2>1 DEF Typed, JobTyped, Idle
  <2>3. \A k \in EventIds(job.start, job.end) : k \in DOMAIN events /\ events[k].height <= crawled
    BY <1>0, <2>2, EventIdsFacts, Zenon
  <2>4. Range(activity') = Range(activity) \cup EventIds(job.start, job.end)
    BY <2>1, <2>3, HistoriesFacts, Zenon
  <2>5. CASE job.start < events[i].height
    <3>1. i \in EventIds(job.start, job.end)
      BY <1>0, <1>2, <2>1, <2>2, <2>5, EventIdsFacts
    <3> QED
      BY <2>4, <3>1, Zenon
  <2>6. CASE ~ (job.start < events[i].height)
    <3>1. 1 \notin EventIds(job.start, job.end)
      <4>1. 1 \in DOMAIN events => events[1].height <= events[i].height
        BY <1>0, <1>2, <2>1, EventTyped DEF Heights
      <4> QED
        BY <1>0, <1>2, <2>1, <2>2, <2>6, <4>1, EventIdsFacts
    <3>2. Tracked /\ faults' = faults
      BY <2>1, <3>1, Zenon DEF Tracked
    <3>3. events[i].height <= cp
      <4>1. StartBlock < events[i].height
        BY <1>0, <1>2, <2>1 DEF Heights
      <4> QED
        BY <1>0, <1>2, <2>1, <2>2, <2>6, <4>1 DEF StartHeight
    <3>4. i \in Range(activity) \/ Owed(i)
      BY <1>2, <2>1, <3>2, <3>3 DEF Complete
    <3> QED
      BY <1>2, <2>1, <2>4, <3>4, Zenon DEF Owed
  <2> QED
    BY <2>5, <2>6, Zenon
<1>5. CASE ReindexCommit
  <2>1. /\ UNCHANGED <<head, events, crawled, cp>> /\ reindex.pc \in {"unknown", "known"}
        /\ InsertContract(Len(reindexed) + 1, reindex.answer)
        /\ reindex' = [NoReindex EXCEPT !.pc = "committed", !.min = reindex.min, !.max = reindex.max]
        /\ InBlocks(reindex.answer.reach, StartHeight(cp)) = {}
    BY <1>5, Zenon DEF ReindexCommit
  <2>2. PICK s : s = reindex.answer
    BY Zenon
  <2>3. AnswerTyped(s) /\ reindex.max = Highest(s.holders) /\ Len(reindexed) + 1 \in Nat
    BY <2>1, <2>2 DEF Typed, ReindexTyped
  <2>4. s.track
    <3>1. contract'.track = s.track
      BY <2>1, <2>2, <2>3, InsertFacts, Zenon
    <3> QED
      BY <3>1, Zenon DEF Tracked
  <2>5. PICK l \in StartBlock .. head : Taken(s, l)
    BY <2>1, <2>2, <2>4, Zenon DEF Answered
  <2>6. l \in Int /\ l <= head /\ events[i].height <= StartHeight(cp)
    BY <1>0, <1>2, <2>1, <2>5
  <2>7. ~ (s.reach < events[i].height)
    BY <1>2, <2>1, <2>2, <2>6, Zenon DEF InBlocks
  <2>8. DOMAIN s.holders # {}
    <3>1. PICK a \in Addr : a = events[i].from \/ a = events[i].to
      BY <1>0, <1>2, <2>1, EventTyped, Zenon DEF Moving, Event
    <3>2. SUFFICES ASSUME DOMAIN s.holders = {} PROVE FALSE
      BY Zenon
    <3>3. s.reach = l
      BY <2>5, <3>2, Zenon DEF Taken
    <3>4. events[i].height <= l
      BY <1>2, <2>1, <2>6, <2>7, <3>3
    <3>5. a \in Listed(l)
      BY <1>2, <2>1, <2>6, <3>1, <3>4, Unlisted, ZenonT(40) DEF Typed
    <3> QED
      BY <2>5, <3>2, <3>5, Zenon DEF Taken
  <2>9. s.reach = reindex.max /\ reindex.max \in Int
    BY <2>3, <2>5, <2>8, Zenon DEF Taken, AnswerTyped
  <2>10. events[i].height <= reindex.max
    BY <1>2, <2>1, <2>7, <2>9
  <2>11. reindex'.pc = "committed" /\ reindex'.max = reindex.max
    BY <2>1, Zenon DEF NoReindex
  <2>12. Owed(i)'
    BY <2>1, <2>10, <2>11, Zenon DEF Owed
  <2> QED
    BY <2>12, Zenon
<1>a. CASE ReindexQuery
  <2>1. UNCHANGED <<head, events, cp, contract, activity, walk, faults>> /\ reindex.pc = "queued"
    BY <1>a, Zenon DEF ReindexQuery
  <2>2. ~ Owed(i)
    BY <2>1 DEF Owed, Typed, ReindexTyped
  <2> QED
    BY <1>2, <2>1, <2>2, Zenon DEF Complete, Tracked
<1>6. CASE ReindexRequest
  <2>1. /\ UNCHANGED <<head, events, cp, contract, activity, walk, faults>>
        /\ reindex.pc = "none" /\ reindex' = [reindex EXCEPT !.pc = "queued"]
    BY <1>6, Zenon DEF ReindexRequest
  <2>2. ~ Owed(i)
    BY <2>1, Zenon DEF Owed, Typed, ReindexTyped
  <2> QED
    BY <1>2, <2>1, <2>2, Zenon DEF Complete, Tracked
<1>7. CASE ReindexFollow
  <2>1. /\ UNCHANGED <<head, events, cp, contract, activity, faults>>
        /\ reindex.pc = "committed" /\ walk' = [prevId |-> 0, endBlock |-> reindex.max]
    BY <1>7, Zenon DEF ReindexFollow
  <2>2. i > 0
    BY <1>0, <1>2, <2>1, EventTyped
  <2>3. Owed(i) => events[i].height <= reindex.max
    BY <2>1, Zenon DEF Owed, Typed, ReindexTyped
  <2>4. walk' # NoWalk /\ walk'.prevId = 0 /\ walk'.endBlock = reindex.max
    BY <2>1 DEF NoWalk
  <2>5. Owed(i) => Owed(i)'
    BY <1>2, <2>1, <2>2, <2>3, <2>4, ZenonT(40) DEF Owed
  <2> QED
    BY <1>2, <2>1, <2>5, ZenonT(40) DEF Complete, Tracked
<1>8. CASE ReindexFail
  <2>1. /\ UNCHANGED <<head, events, cp, contract, activity>> /\ reindex'.pc = "failed"
    BY <1>8, Zenon DEF ReindexFail, NoReindex
  <2> QED
    BY <2>1, Zenon DEF Owed
<1>9. ASSUME NEW acked \in BOOLEAN, HistoryPage(acked)
      PROVE  i \in Range(activity)' \/ Owed(i)'
  <2>1. /\ UNCHANGED <<head, events, crawled, cp, contract, reindex>>
        /\ walk # NoWalk /\ NextPage # {} /\ HandleCw20Histories(NextPage, Tracked)
        /\ walk' = IF acked THEN [walk EXCEPT !.prevId = Max(NextPage)] ELSE walk
        /\ "gap" \notin faults
    BY <1>9, Zenon DEF HistoryPage
  <2>2. Tracked
    BY <2>1, Zenon DEF Tracked
  <2>3. Range(activity') = Range(activity) \cup NextPage
    BY <2>1, <2>2, NextPageFacts, HistoriesFacts, Zenon
  <2>4. walk \in [prevId : Nat, endBlock : Int] /\ reindex.pc = "done"
    BY <2>1, Zenon DEF Typed, ReindexTyped
  <2>5. CASE Owed(i)
    <3>1. i > walk.prevId /\ events[i].height <= walk.endBlock
      BY <2>1, <2>4, <2>5, Zenon DEF Owed
    <3>2. events[i].height <= crawled
      BY <1>0, <1>2, <2>1
    <3>3. i \in NextPage \/ i > Max(NextPage)
      BY <1>2, <2>1, <3>1, <3>2, NextPageComplete
    <3>4. CASE i > Max(NextPage)
      <4>1. PICK m \in Nat : m = Max(NextPage)
        BY <1>0, <2>1, NextPageFacts, EventTyped
      <4>2. walk' # NoWalk /\ i > walk'.prevId /\ walk'.endBlock = walk.endBlock
        <5>1. PICK p \in Nat, y \in Int : walk = [prevId |-> p, endBlock |-> y]
          BY <2>4, Zenon
        <5>2. walk' = [prevId |-> m, endBlock |-> y] \/ walk' = walk
          BY <2>1, <4>1, <5>1, Zenon
        <5> QED
          BY <2>1, <3>1, <3>4, <4>1, <5>1, <5>2 DEF NoWalk
      <4> QED
        BY <1>2, <2>1, <3>1, <4>2 DEF Owed
    <3> QED
      BY <2>3, <3>3, <3>4, ZenonT(40)
  <2> QED
    BY <1>2, <2>1, <2>2, <2>3, <2>5 DEF Complete
<1>10. CASE HistoryEnd
  <2>1. /\ UNCHANGED <<head, events, crawled, cp, contract, activity, faults>> /\ walk # NoWalk /\ NextPage = {}
    BY <1>10, Zenon DEF HistoryEnd
  <2>2. events[i].height <= crawled
    BY <1>0, <1>2, <2>1
  <2>3. ~ Owed(i)
    <3>1. ~ (i > walk.prevId /\ events[i].height <= walk.endBlock)
      BY <1>2, <2>1, <2>2, NextPageComplete, Zenon
    <3> QED
      BY <2>1, <3>1, Zenon DEF Owed, Typed, ReindexTyped
  <2> QED
    BY <1>2, <2>1, <2>3, Zenon DEF Complete, Tracked
<1>11. CASE HistoryFail
  <2>1. UNCHANGED <<head, events, cp, contract, activity, reindex, faults>> /\ walk # NoWalk /\ walk' = NoWalk
    BY <1>11, Zenon DEF HistoryFail
  <2> QED
    BY <2>1, Zenon DEF Owed, Typed, ReindexTyped
<1>12. \/ NewBlock \/ HandleCommit \/ ReindexCommit \/ ReindexRequest \/ ReindexQuery \/ ReindexFollow \/ ReindexFail
       \/ (\E acked \in BOOLEAN : HistoryPage(acked)) \/ HistoryEnd \/ HistoryFail
       \/ (UNCHANGED <<head, events, cp, activity, reindex, walk>> /\ faults \subseteq faults'
            /\ (UNCHANGED contract \/ \E acked \in BOOLEAN : UpdateRun(acked)))
  BY Zenon DEF Next, vars, CrawlContractEvent, HandleStart, HandleCall, HandleAbort, UpdateRun, UpdateFail, UpdateRetry
<1>13. UNCHANGED contract \/ (\E acked \in BOOLEAN : UpdateRun(acked)) => (Tracked' => Tracked)
  BY TrackedKept, Zenon DEF Tracked
<1> QED
  BY <1>1, <1>3, <1>4, <1>5, <1>a, <1>6, <1>7, <1>8, <1>9, <1>10, <1>11, <1>12, <1>13, ZenonT(40)

(* No step adds a second row of an event.                                  *)
LEMMA OnceStep ==
  ASSUME Typed, Typed', Unknown, Once, [Next]_vars
  PROVE  Once'
<1> SUFFICES ASSUME "redelivered" \notin faults', NEW i \in DOMAIN events'
             PROVE  Occurrences(activity', i) <= Handled(i)' + Walked(i)'
  BY Zenon DEF Once
<1> USE DEF node, rows, queue, reindexing
<1>0. /\ Heights /\ StartBlock \in Int /\ head \in Int /\ crawled \in Int /\ cp \in Int
      /\ StartHeight(cp) \in Int /\ StartBlock <= StartHeight(cp) /\ StartHeight(cp) <= crawled
      /\ crawled <= head /\ cp <= StartHeight(cp)
      /\ \A k \in DOMAIN events : k \in Int /\ events[k].height \in Int
      /\ activity \in Seq(Int) /\ activity' \in Seq(Int)
  BY StartHeightFacts, EventTyped DEF Typed
<1>1. /\ \A k : Handled(k) \in {0, 1} /\ Walked(k) \in {0, 1}
      /\ \A k : Handled(k)' \in {0, 1} /\ Walked(k)' \in {0, 1}
  BY Zenon DEF Handled, Walked
<1>2. \A k : /\ Occurrences(activity, k) \in Nat /\ Occurrences(activity', k) \in Nat
             /\ k \notin Range(activity) => Occurrences(activity, k) = 0
             /\ k \notin Range(activity') => Occurrences(activity', k) = 0
  <2>1. ASSUME NEW s \in Seq(Int), NEW k
        PROVE  Occurrences(s, k) \in Nat /\ (k \notin Range(s) => Occurrences(s, k) = 0)
    <3>1. Occurrences(s, k) \in Nat /\ (Occurrences(s, k) > 0 <=> k \in Range(s))
      BY OccurrencesType, Zenon
    <3> QED
      BY <3>1
  <2> QED
    BY <1>0, <2>1, Zenon
<1>3. CASE NewBlock
  <2>1. <<Instantiate>> \in Seq(Move) /\ Grow(<<Instantiate>>)
    BY <1>3 DEF NewBlock, Instantiate, Move
  <2>2. \A k \in DOMAIN events : k \in DOMAIN events' /\ events'[k] = events[k]
    BY <1>0, <2>1, GrowContinues, ContinuesFacts, ZenonT(40)
  <2>3. UNCHANGED <<cp, activity, reindex, walk, reindexed, faults>>
    BY <1>3, Zenon DEF NewBlock
  <2>4. CASE i \in DOMAIN events
    BY <2>2, <2>3, <2>4, ZenonT(40) DEF Once, Handled, Walked
  <2>5. CASE i \notin DOMAIN events
    <3>1. Occurrences(activity', i) = 0
      BY <1>2, <2>3, <2>5, ZenonT(40) DEF Typed
    <3> QED
      BY <1>1, <3>1
  <2> QED
    BY <2>4, <2>5, Zenon
<1>4. ASSUME UNCHANGED <<head, events, cp, activity, reindexed>>, faults \subseteq faults', Walked(i) <= Walked(i)'
      PROVE  Occurrences(activity', i) <= Handled(i)' + Walked(i)'
  <2>1. Occurrences(activity, i) <= Handled(i) + Walked(i)
    BY <1>4, Zenon DEF Once
  <2>2. Handled(i)' = Handled(i)
    BY <1>4, Zenon DEF Handled
  <2> QED
    BY <1>1, <1>2, <1>4, <2>1, <2>2
<1>5. CASE HandleCommit
  <2> DEFINE ids == EventIds(job.start, job.end)
             tracked == contract' # NoContract /\ contract'.track
  <2>1. /\ UNCHANGED <<head, events, crawled, reindex, walk, reindexed>>
        /\ job.pc = "commit" /\ cp' = job.end
        /\ contract = NoContract \/ faults' = faults
        /\ HandleCw20Histories(ids, tracked)
    BY <1>5, Zenon DEF HandleCommit, HandleCw20Instantiate
  <2>2. job.start \in Int /\ job.end \in Int /\ job.start < job.end /\ job.end <= crawled /\ job.start = StartHeight(cp)
    BY <2>1 DEF Typed, JobTyped, Idle
  <2>3. \A k \in ids : k \in DOMAIN events /\ events[k].height <= crawled
    BY <1>0, <2>2, EventIdsFacts, Zenon
  <2>4. tracked \in BOOLEAN
    BY ContractParts, Zenon DEF Typed
  <2>5. Occurrences(activity', i) = Occurrences(activity, i) + (IF tracked /\ i \in ids THEN 1 ELSE 0)
    BY <2>1, <2>3, <2>4, HistoriesFacts, ZenonT(40)
  <2>6. i \in ids <=> job.start < events[i].height /\ events[i].height <= job.end
    BY <1>0, <2>1, <2>2, EventIdsFacts
  <2> HIDE DEF ids, tracked
  <2>7. Occurrences(activity, i) <= Handled(i) + Walked(i)
    <3>1. CASE contract = NoContract
      <4>1. Occurrences(activity, i) = 0
        BY <1>2, <3>1 DEF Unknown, Range
      <4> QED
        BY <1>1, <4>1
    <3> QED
      BY <2>1, <3>1, Zenon DEF Once
  <2>8. reindexed # <<>> => reindexed[Len(reindexed)] \in Int /\ reindexed[Len(reindexed)] <= StartHeight(cp)
    <3>1. reindexed # <<>> => Len(reindexed) \in DOMAIN reindexed
      BY DEF Typed, ReindexTyped
    <3> QED
      BY <3>1 DEF Typed, ReindexTyped
  <2>9. Walked(i)' = Walked(i)
    BY <2>1, Zenon DEF Walked
  <2>10. CASE i \in ids
    <3>1. Handled(i) = 0 /\ Handled(i)' = 1
      BY <1>0, <2>1, <2>2, <2>6, <2>8, <2>10 DEF Handled
    <3> QED
      BY <1>1, <1>2, <2>5, <2>7, <2>9, <3>1
  <2>11. CASE i \notin ids
    <3>1. Handled(i) <= Handled(i)'
      BY <1>0, <2>1, <2>2 DEF Handled
    <3> QED
      BY <1>1, <1>2, <2>5, <2>7, <2>9, <2>11, <3>1
  <2> QED
    BY <2>10, <2>11, Zenon
<1>6. CASE ReindexCommit
  <2>1. activity' = <<>>
    BY <1>6, Zenon DEF ReindexCommit
  <2>2. Occurrences(activity', i) = 0
    BY <1>2, <2>1 DEF Range
  <2> QED
    BY <1>1, <2>2
<1>7. ASSUME NEW acked \in BOOLEAN, HistoryPage(acked)
      PROVE  Occurrences(activity', i) <= Handled(i)' + Walked(i)'
  <2>1. /\ UNCHANGED <<head, events, cp, reindex, reindexed>>
        /\ walk # NoWalk /\ NextPage # {} /\ HandleCw20Histories(NextPage, Tracked)
        /\ walk' = [walk EXCEPT !.prevId = Max(NextPage)] /\ faults' = faults
    BY <1>7, Zenon DEF HistoryPage
  <2>2. Tracked \in BOOLEAN
    BY ContractParts, Zenon DEF Tracked, Typed
  <2>3. Occurrences(activity', i) = Occurrences(activity, i) + (IF Tracked /\ i \in NextPage THEN 1 ELSE 0)
    BY <2>1, <2>2, NextPageFacts, HistoriesFacts
  <2>4. Occurrences(activity, i) <= Handled(i) + Walked(i) /\ Handled(i)' = Handled(i)
    BY <2>1, Zenon DEF Once, Handled
  <2>5. PICK m \in Nat : m = Max(NextPage) /\ m > walk.prevId /\ \A k \in NextPage : k > walk.prevId /\ k <= m
    BY <1>0, <2>1, NextPageFacts, EventTyped
  <2>6. PICK p \in Nat, y \in Int : walk = [prevId |-> p, endBlock |-> y]
    BY <2>1, Zenon DEF Typed, ReindexTyped
  <2>7. walk' # NoWalk /\ walk'.prevId = m
    BY <2>1, <2>5, <2>6 DEF NoWalk
  <2>8. reindexed # <<>> /\ reindex.pc = "done"
    BY <2>1, Zenon DEF Typed, ReindexTyped
  <2>9. /\ Walked(i) = IF i <= p THEN 1 ELSE 0
        /\ Walked(i)' = IF i <= m THEN 1 ELSE 0
    BY <2>1, <2>6, <2>7, <2>8, ZenonT(40) DEF Walked
  <2>10. p < m /\ (i \in NextPage => ~ (i <= p) /\ i <= m)
    BY <1>0, <2>1, <2>5, <2>6
  <2>11. (i \in NextPage => Walked(i) = 0 /\ Walked(i)' = 1) /\ Walked(i) <= Walked(i)'
    BY <1>0, <2>1, <2>9, <2>10
  <2>12. Occurrences(activity', i) <= Occurrences(activity, i) + (IF i \in NextPage THEN 1 ELSE 0)
    BY <1>2, <2>3
  <2> QED
    BY <1>1, <1>2, <2>4, <2>11, <2>12
<1>8. CASE ReindexFollow
  <2>1. UNCHANGED <<head, events, cp, activity, reindexed>> /\ faults' = faults /\ reindex.pc = "committed"
    BY <1>8, Zenon DEF ReindexFollow
  <2>2. Walked(i) = 0
    BY <2>1, Zenon DEF Walked
  <2>3. Walked(i) <= Walked(i)' /\ faults \subseteq faults'
    BY <1>1, <2>1, <2>2
  <2> QED
    BY <1>4, <2>1, <2>3, ZenonT(40)
<1>9. CASE ReindexRequest \/ ReindexQuery \/ ReindexFail \/ HistoryEnd \/ HistoryFail
  <2>1. /\ UNCHANGED <<head, events, cp, activity, reindexed, faults>>
        /\ reindex'.pc # "committed" /\ (walk' = walk \/ walk' = NoWalk)
    BY <1>9 DEF ReindexRequest, ReindexQuery, ReindexFail, HistoryEnd, HistoryFail, Typed, ReindexTyped, NoReindex
  <2>2. Walked(i) <= Walked(i)'
    BY <2>1 DEF Walked
  <2> QED
    BY <1>4, <2>1, <2>2, ZenonT(40)
<1>10. CASE UNCHANGED <<head, events, cp, activity, reindex, walk, reindexed>> /\ faults \subseteq faults'
  <2>1. Walked(i)' = Walked(i)
    BY <1>10, Zenon DEF Walked
  <2> QED
    BY <1>1, <1>4, <1>10, <2>1
<1>11. \/ NewBlock \/ HandleCommit \/ ReindexCommit \/ (\E acked \in BOOLEAN : HistoryPage(acked))
       \/ ReindexFollow \/ (ReindexRequest \/ ReindexQuery \/ ReindexFail \/ HistoryEnd \/ HistoryFail)
       \/ (UNCHANGED <<head, events, cp, activity, reindex, walk, reindexed>> /\ faults \subseteq faults')
  BY Zenon DEF Next, vars, CrawlContractEvent, HandleStart, HandleCall, HandleAbort, UpdateRun, UpdateFail, UpdateRetry
<1> QED
  BY <1>3, <1>5, <1>6, <1>7, <1>8, <1>9, <1>10, <1>11

(* cw20_activity has every move up to the checkpoint of HANDLE_CW20, also  *)
(* after a walk of REINDEX_CW20_HISTORY that came to its end, unless an    *)
(* event was handled between the snapshot of the reindexing and its        *)
(* transaction, and no event twice but those between the checkpoint and the snapshot of the last     *)
(* reindexing.                                                             *)
THEOREM HistoryHolds == Spec => []HistoryExact
<1>1. Init => Unknown /\ Answered /\ Complete /\ Once
  <2> SUFFICES ASSUME Init PROVE Unknown /\ Answered /\ Complete /\ Once
    BY Zenon
  <2>1. contract = NoContract /\ activity = <<>> /\ wait = <<>> /\ delayed = <<>> /\ \A i \in DOMAIN events : FALSE
    BY DEF Init
  <2>2. reindex.pc = "none"
    BY Zenon DEF Init, NoReindex
  <2>3. Answered
    BY <2>2 DEF Answered
  <2> QED
    BY <2>1, <2>3, Zenon DEF Unknown, Complete, Tracked, Once
<1>2. Typed /\ Typed' /\ (Unknown /\ Answered /\ Complete /\ Once) /\ [Next]_vars => (Unknown /\ Answered /\ Complete /\ Once)'
  BY UnknownStep, AnsweredStep, CompleteStep, OnceStep, Zenon
<1>3. Typed /\ Complete /\ Once => HistoryExact
  <2> SUFFICES ASSUME Typed, Complete, Once, NEW i \in DOMAIN events
               PROVE  /\ Tracked /\ reindex = NoReindex /\ "gap" \notin faults /\ events[i].height <= cp
                           /\ events[i].from # events[i].to => Rows(i) >= 1
                      /\ "redelivered" \notin faults =>
                            Rows(i) <= IF reindexed = <<>> \/ events[i].height <= reindexed[Len(reindexed)]
                                       THEN 1 ELSE 2
    BY Zenon DEF HistoryExact
  <2>1. Rows(i) = Occurrences(activity, i)
    BY Zenon DEF Rows, Occurrences
  <2>2. activity \in Seq(Int)
    BY Zenon DEF Typed
  <2>3. Rows(i) \in Nat /\ (Rows(i) > 0 <=> i \in Range(activity))
    BY <2>1, <2>2, OccurrencesType, ZenonT(40)
  <2>4. ASSUME Tracked, reindex = NoReindex, "gap" \notin faults, events[i].height <= cp, events[i].from # events[i].to
        PROVE  Rows(i) >= 1
    <3>1. Moving(i)
      BY <2>4, Zenon DEF Moving
    <3>2. ~ Owed(i)
      BY <2>4, Zenon DEF Owed, NoReindex, Typed, ReindexTyped
    <3>3. i \in Range(activity)
      BY <2>4, <3>1, <3>2, Zenon DEF Complete
    <3> QED
      BY <2>3, <3>3
  <2>5. ASSUME "redelivered" \notin faults
        PROVE  Rows(i) <= IF reindexed = <<>> \/ events[i].height <= reindexed[Len(reindexed)] THEN 1 ELSE 2
    <3>1. Rows(i) <= Handled(i) + Walked(i) /\ Handled(i) \in {0, 1} /\ Walked(i) \in {0, 1}
      BY <2>1, <2>5, Zenon DEF Once, Handled, Walked
    <3>2. reindexed = <<>> => Walked(i) = 0
      BY Zenon DEF Walked
    <3>3. reindexed # <<>> /\ events[i].height <= reindexed[Len(reindexed)] => Handled(i) = 0
      <4>1. reindexed # <<>> => Len(reindexed) \in DOMAIN reindexed
        BY DEF Typed, ReindexTyped
      <4>2. reindexed # <<>> => reindexed[Len(reindexed)] \in Int
        BY <4>1 DEF Typed, ReindexTyped
      <4>3. events[i].height \in Int
        BY StartHeightFacts, EventTyped, Zenon
      <4> QED
        BY <4>2, <4>3 DEF Handled
    <3> QED
      BY <2>3, <3>1, <3>2, <3>3
  <2> QED
    BY <2>4, <2>5, Zenon
<1> QED
  BY <1>1, <1>2, <1>3, TypesHold, PTL DEF Spec
-----------------------------------------------------------------------------
(* The queue as the balances see it: jobs of one row of the contract, for  *)
(* ranges of blocks that do not meet.                                      *)
Same(j, k) == j.id = k.id /\ j.startBlock = k.startBlock /\ j.endBlock = k.endBlock
Apart(j, k) == j.endBlock <= k.startBlock \/ k.endBlock <= j.startBlock

(* The jobs of the row id, waiting or delayed, are for ranges apart.       *)
Disjoint(w, d, id) ==
    /\ \A p, r \in DOMAIN w : p # r /\ w[p].id = id /\ w[r].id = id => Apart(w[p], w[r])
    /\ \A p, r \in DOMAIN d : p # r /\ d[p].id = id /\ d[r].id = id => Apart(d[p], d[r])
    /\ \A p \in DOMAIN w, r \in DOMAIN d : w[p].id = id /\ d[r].id = id => Apart(w[p], d[r])

(* The jobs of one pair of queues are those of another, but for attempts.  *)
Within(w2, d2, w, d) == \A j \in Range(w2) \cup Range(d2) : \E k \in Range(w) \cup Range(d) : Same(j, k)

(* Apartness depends on the range of a job only.                           *)
LEMMA ApartSame ==
  ASSUME NEW x, NEW y, NEW j, NEW k, Same(x, y)
  PROVE  (Apart(x, j) <=> Apart(y, j)) /\ (Apart(j, x) <=> Apart(j, y)) /\ (Apart(j, k) <=> Apart(k, j))
  BY Zenon DEF Same, Apart

(* The first job is done.                                                  *)
LEMMA FirstDone ==
  ASSUME NEW w \in Seq(UpdateJob), NEW d \in Seq(UpdateJob), w # <<>>, NEW id, Disjoint(w, d, id)
  PROVE  /\ Disjoint(Tail(w), d, id)
         /\ \A k \in Range(Tail(w)) \cup Range(d) : k.id = id /\ Head(w).id = id => Apart(Head(w), k)
<1>1. PICK n \in Nat : /\ DOMAIN w = 1 .. n + 1 /\ DOMAIN Tail(w) = 1 .. n /\ Head(w) = w[1]
                       /\ \A k \in 1 .. n : Tail(w)[k] = w[k + 1]
  <2>1. Len(w) - 1 \in Nat /\ (Len(w) - 1) + 1 = Len(w)
    BY HeadAndTail
  <2> QED
    BY <2>1, HeadAndTail, Zenon
<1>2. PICK t : t = Tail(w)
  BY Zenon
<1>3. 1 \in 1 .. n + 1 /\ \A k \in 1 .. n : k + 1 \in 1 .. n + 1 /\ k + 1 # 1
  OBVIOUS
<1>4. \A p, r \in 1 .. n : p # r => p + 1 # r + 1
  OBVIOUS
<1>5. Disjoint(t, d, id)
  BY <1>1, <1>2, <1>3, <1>4 DEF Disjoint
<1>6. ASSUME NEW k \in Range(t), k.id = id, w[1].id = id
      PROVE  Apart(w[1], k)
  <2>1. PICK p \in DOMAIN t : t[p] = k
    BY <1>6, InRange, Zenon
  <2>2. p \in 1 .. n /\ k = w[p + 1]
    BY <1>1, <1>2, <2>1, Zenon
  <2> QED
    BY <1>1, <1>3, <1>6, <2>2, Zenon DEF Disjoint
<1>7. ASSUME NEW k \in Range(d), k.id = id, w[1].id = id
      PROVE  Apart(w[1], k)
  <2>1. PICK p \in DOMAIN d : k = d[p]
    BY <1>7, InRange, Zenon
  <2> QED
    BY <1>1, <1>3, <1>7, <2>1, Zenon DEF Disjoint
<1> QED
  BY <1>1, <1>2, <1>5, <1>6, <1>7

(* The first job waits for its next attempt.                               *)
LEMMA FirstDelayed ==
  ASSUME NEW w \in Seq(UpdateJob), NEW d \in Seq(UpdateJob), w # <<>>, NEW id,
         NEW x \in UpdateJob, Same(x, Head(w))
  PROVE  /\ Disjoint(w, d, id) => Disjoint(Tail(w), Append(d, x), id)
         /\ Within(Tail(w), Append(d, x), w, d) /\ Within(w, d, Tail(w), Append(d, x))
<1>1. PICK t, e : t = Tail(w) /\ e = Append(d, x)
  BY Zenon
<1>2. /\ Range(w) = {Head(w)} \cup Range(t)
      /\ Range(e) = Range(d) \cup {x}
  BY <1>1, HeadAndTail, Appended
<1>3. Within(t, e, w, d) /\ Within(w, d, t, e)
  BY <1>2, Zenon DEF Within, Same
<1>4. ASSUME Disjoint(w, d, id)
      PROVE  Disjoint(t, e, id)
  <2>1. /\ Disjoint(t, d, id)
        /\ \A k \in Range(t) \cup Range(d) : k.id = id /\ x.id = id => Apart(x, k) /\ Apart(k, x)
    <3>1. /\ Disjoint(t, d, id)
          /\ \A k \in Range(t) \cup Range(d) : k.id = id /\ Head(w).id = id => Apart(Head(w), k)
      BY <1>1, <1>4, FirstDone, ZenonT(40)
    <3> QED
      BY <3>1, ApartSame, Zenon DEF Same
  <2>2. PICK n \in Nat : /\ DOMAIN d = 1 .. n /\ DOMAIN e = 1 .. n + 1 /\ e[n + 1] = x
                         /\ \A k \in 1 .. n : e[k] = d[k]
    BY <1>1, Appended
  <2>3. \A k \in 1 .. n + 1 : k \in 1 .. n \/ k = n + 1
    OBVIOUS
  <2>4. (\A p \in DOMAIN t : t[p] \in Range(t)) /\ (\A p \in DOMAIN d : d[p] \in Range(d))
    BY InRange, Zenon
  <2>5. \A p, r \in DOMAIN e : p # r /\ e[p].id = id /\ e[r].id = id => Apart(e[p], e[r])
    BY <2>1, <2>2, <2>3, <2>4, ZenonT(40) DEF Disjoint
  <2>6. \A p \in DOMAIN t, r \in DOMAIN e : t[p].id = id /\ e[r].id = id => Apart(t[p], e[r])
    BY <2>1, <2>2, <2>3, <2>4 DEF Disjoint
  <2> QED
    BY <2>1, <2>5, <2>6, Zenon DEF Disjoint
<1> QED
  BY <1>1, <1>3, <1>4, Zenon

(* A job is added to the queue.                                            *)
LEMMA JobAdded ==
  ASSUME NEW w \in Seq(UpdateJob), NEW d \in Seq(UpdateJob), NEW id, Disjoint(w, d, id), NEW x \in UpdateJob,
         \A k \in Range(w) \cup Range(d) : k.id = id /\ x.id = id => Apart(x, k)
  PROVE  Disjoint(Append(w, x), d, id)
<1>1. PICK e : e = Append(w, x)
  BY Zenon
<1>2. \A k \in Range(w) \cup Range(d) : k.id = id /\ x.id = id => Apart(x, k) /\ Apart(k, x)
  BY Zenon DEF Apart
<1>3. PICK n \in Nat : /\ DOMAIN w = 1 .. n /\ DOMAIN e = 1 .. n + 1 /\ e[n + 1] = x
                       /\ \A k \in 1 .. n : e[k] = w[k]
  BY <1>1, Appended
<1>4. \A k \in 1 .. n + 1 : k \in 1 .. n \/ k = n + 1
  OBVIOUS
<1>5. (\A p \in DOMAIN w : w[p] \in Range(w)) /\ (\A p \in DOMAIN d : d[p] \in Range(d))
  BY InRange, Zenon
<1>6. \A p, r \in DOMAIN e : p # r /\ e[p].id = id /\ e[r].id = id => Apart(e[p], e[r])
  BY <1>2, <1>3, <1>4, <1>5, ZenonT(40) DEF Disjoint
<1>7. \A p \in DOMAIN e, r \in DOMAIN d : e[p].id = id /\ d[r].id = id => Apart(e[p], d[r])
  BY <1>2, <1>3, <1>4, <1>5 DEF Disjoint
<1>8. Disjoint(e, d, id)
  BY <1>6, <1>7, Zenon DEF Disjoint
<1> QED
  BY <1>1, <1>8, Zenon

(* A job comes back from its delay.                                        *)
LEMMA JobBack ==
  ASSUME NEW w \in Seq(UpdateJob), NEW d \in Seq(UpdateJob), NEW id, NEW k \in DOMAIN d,
         NEW e, e = SubSeq(d, 1, k - 1) \o SubSeq(d, k + 1, Len(d))
  PROVE  /\ Disjoint(w, d, id) => Disjoint(Append(w, d[k]), e, id)
         /\ Within(Append(w, d[k]), e, w, d) /\ Within(w, d, Append(w, d[k]), e)
<1>1. PICK r \in Seq(UpdateJob) :
          /\ r = SubSeq(d, 1, k - 1) \o SubSeq(d, k + 1, Len(d))
          /\ d[k] \in UpdateJob /\ Removal(r, d, k)
  BY Removed, Zenon
<1>2. PICK n \in Nat : DOMAIN d = 1 .. n /\ k \in 1 .. n /\ DOMAIN r = 1 .. n - 1
                       /\ \A i \in 1 .. n - 1 : r[i] = IF i < k THEN d[i] ELSE d[i + 1]
  BY <1>1, Zenon DEF Removal
<1>x. PICK x \in UpdateJob : x = d[k]
  BY <1>1, Zenon
<1>3. PICK v : x = d[k] /\ v = Append(w, x)
  BY <1>x, Zenon
<1>4. Range(v) = Range(w) \cup {x} /\ Range(d) = Range(r) \cup {x}
  BY <1>1, <1>3, Appended DEF Removal
<1>5. Within(v, r, w, d) /\ Within(w, d, v, r)
  BY <1>4, Zenon DEF Within, Same
<1>6. ASSUME Disjoint(w, d, id)
      PROVE  Disjoint(v, r, id)
  <2> DEFINE at(i) == IF i < k THEN i ELSE i + 1
  <2>1. \A i \in 1 .. n - 1 : at(i) \in 1 .. n /\ at(i) # k /\ r[i] = d[at(i)]
    BY <1>2
  <2>2. \A i, j \in 1 .. n - 1 : i # j => at(i) # at(j)
    BY <1>2
  <2> HIDE DEF at
  <2>3. Disjoint(w, r, id)
    <3>1. ASSUME NEW p \in DOMAIN r, NEW q \in DOMAIN r, p # q, r[p].id = id, r[q].id = id
          PROVE  Apart(r[p], r[q])
      <4>1. at(p) \in 1 .. n /\ at(q) \in 1 .. n /\ at(p) # at(q) /\ r[p] = d[at(p)] /\ r[q] = d[at(q)]
        BY <1>2, <2>1, <2>2, <3>1
      <4> QED
        BY <1>2, <1>6, <3>1, <4>1, ZenonT(40) DEF Disjoint
    <3>2. ASSUME NEW p \in DOMAIN w, NEW q \in DOMAIN r, w[p].id = id, r[q].id = id
          PROVE  Apart(w[p], r[q])
      <4>1. at(q) \in 1 .. n /\ r[q] = d[at(q)]
        BY <1>2, <2>1, Zenon
      <4> QED
        BY <1>2, <1>6, <3>2, <4>1 DEF Disjoint
    <3> QED
      BY <1>6, <3>1, <3>2, Zenon DEF Disjoint
  <2>4. ASSUME NEW y \in Range(w) \cup Range(r), y.id = id, x.id = id
        PROVE  Apart(x, y)
    <3>1. CASE y \in Range(w)
      <4>1. PICK p \in DOMAIN w : w[p] = y
        BY <3>1, InRange, Zenon
      <4>2. Apart(y, x)
        BY <1>2, <1>3, <1>6, <2>4, <4>1 DEF Disjoint
      <4> QED
        BY <4>2, Zenon DEF Apart
    <3>2. CASE y \in Range(r)
      <4>1. PICK p \in DOMAIN r : r[p] = y
        BY <3>2, InRange, Zenon
      <4>2. at(p) \in 1 .. n /\ at(p) # k /\ y = d[at(p)]
        BY <1>2, <2>1, <4>1, Zenon
      <4> QED
        BY <1>2, <1>3, <1>6, <2>4, <4>2 DEF Disjoint
    <3> QED
      BY <2>4, <3>1, <3>2, Zenon
  <2> QED
    BY <1>1, <1>3, <2>3, <2>4, JobAdded, ZenonT(40)
<1>7. r = e
  BY <1>1, Zenon
<1> QED
  BY <1>3, <1>5, <1>6, <1>7
-----------------------------------------------------------------------------
(* Every reindexing gives the row of the contract an id of its own, which  *)
(* no job in the queue has yet.                                            *)
Entries == Range(wait) \cup Range(delayed)

(* The row has the id of the last reindexing, the jobs none later.         *)
Ids ==
    /\ contract # NoContract => contract.id = Len(reindexed)
    /\ \A j \in Entries : j.id <= Len(reindexed)

(* What each step that is not a reindexing does to the queues.             *)
LEMMA QueueSteps ==
  ASSUME Typed, [Next]_vars
  PROVE  \/ UNCHANGED <<wait, delayed>>
         \/ HandleCall
         \/ \E acked \in BOOLEAN : UpdateRun(acked)
         \/ UpdateFail
         \/ Within(wait', delayed', wait, delayed) /\ UpdateRetry
         \/ ReindexFollow
<1>1. ASSUME UpdateRetry
      PROVE  Within(wait', delayed', wait, delayed)
  <2>1. PICK k \in DOMAIN delayed :
        /\ delayed' = SubSeq(delayed, 1, k - 1) \o SubSeq(delayed, k + 1, Len(delayed))
        /\ wait' = Append(wait, delayed[k])
    BY <1>1, Zenon DEF UpdateRetry
  <2>2. wait \in Seq(UpdateJob) /\ delayed \in Seq(UpdateJob)
    BY Zenon DEF Typed
  <2>3. Within(Append(wait, delayed[k]), delayed', wait, delayed)
    BY <2>1, <2>2, JobBack, Zenon
  <2> QED
    BY <2>1, <2>3, Zenon
<1> QED
  BY <1>1, Zenon DEF Next, vars, queue, NewBlock, CrawlContractEvent, HandleStart, HandleCommit, HandleAbort,
     HistoryPage, ReindexRequest, ReindexQuery, ReindexCommit, ReindexFail, HistoryEnd, HistoryFail

(* The job that UpdateByContract adds.                                     *)
LEMMA UpdateByContractFacts ==
  ASSUME NEW c, c.id \in Nat, c.last \in Int, NEW lo \in Int, NEW hi \in Int, UpdateByContract(c, lo, hi)
  PROVE  \E start \in Int :
            /\ start = IF lo >= c.last THEN lo ELSE c.last
            /\ start >= hi => wait' = wait
            /\ start < hi => \E x \in UpdateJob :
                  x.id = c.id /\ x.startBlock = start /\ x.endBlock = hi /\ wait' = Append(wait, x)
<1>1. PICK start \in Int : start = IF lo >= c.last THEN lo ELSE c.last
  BY Zenon
<1>2. PICK x : x = [id |-> c.id, startBlock |-> start, endBlock |-> hi, tries |-> 0]
  BY Zenon
<1>3. x \in UpdateJob /\ x.id = c.id /\ x.startBlock = start /\ x.endBlock = hi
  BY <1>2, Zenon DEF UpdateJob
<1>4. wait' = IF start < hi THEN Append(wait, x) ELSE wait
  BY <1>1, <1>2, Zenon DEF UpdateByContract
<1> QED
  BY <1>1, <1>3, <1>4

(* No step gives a job the id of a row that does not exist yet.            *)
LEMMA IdsStep ==
  ASSUME Typed, Ids, [Next]_vars
  PROVE  Ids'
<1> USE DEF node, rows, queue, reindexing
<1>0. /\ Len(reindexed) \in Nat /\ wait \in Seq(UpdateJob) /\ delayed \in Seq(UpdateJob)
      /\ Heights /\ crawled \in Int
      /\ reindexed # <<>> => contract # NoContract
  BY StartHeightFacts DEF Typed, ReindexTyped
<1>1. CASE ReindexCommit
  <2>1. /\ UNCHANGED <<wait, delayed>> /\ InsertContract(Len(reindexed) + 1, reindex.answer)
        /\ reindex.pc \in {"unknown", "known"}
        /\ reindexed' = Append(reindexed, StartHeight(cp))
    BY <1>1, Zenon DEF ReindexCommit
  <2>2. contract'.id = Len(reindexed) + 1
    <3>1. AnswerTyped(reindex.answer) /\ Len(reindexed) + 1 \in Nat
      BY <1>0, <2>1 DEF Typed, ReindexTyped
    <3> QED
      BY <2>1, <3>1, InsertFacts, Zenon
  <2>3. Len(reindexed') = Len(reindexed) + 1
    BY <2>1 DEF Typed, ReindexTyped
  <2>4. \A j \in Entries : j.id \in Int
    <3>1. \A j \in Entries : j \in UpdateJob
      BY <1>0, RangeTyped, Zenon DEF Entries
    <3> QED
      BY <3>1, UpdateJobParts
  <2> QED
    BY <1>0, <2>1, <2>2, <2>3, <2>4 DEF Ids, Entries
<1>2. CASE UNCHANGED reindexed
  <2>1. contract' # NoContract => contract'.id = Len(reindexed)
    <3>1. CASE HandleCommit
      <4>1. HandleCw20Instantiate \/ UNCHANGED contract
        BY <3>1, Zenon DEF HandleCommit
      <4>2. contract = NoContract => Len(reindexed) = 0
        BY <1>0
      <4> QED
        BY <1>0, <4>1, <4>2, InstantiateFacts DEF Ids
    <3>2. CASE \E acked \in BOOLEAN : UpdateRun(acked)
      <4>1. \/ contract' = contract
            \/ /\ contract \in ContractRow
               /\ \E x, y : contract' = [contract EXCEPT !.supply = x, !.last = y]
        BY <3>2, ActivityTyped, Zenon DEF UpdateRun
      <4>2. contract \in ContractRow => contract # NoContract /\
               \A x, y : [contract EXCEPT !.supply = x, !.last = y].id = contract.id
        BY ContractParts, Zenon DEF ContractRow
      <4> QED
        BY <4>1, <4>2, Zenon DEF Ids
    <3>3. CASE UNCHANGED contract
      BY <3>3, Zenon DEF Ids
    <3>4. HandleCommit \/ ReindexCommit \/ (\E acked \in BOOLEAN : UpdateRun(acked)) \/ UNCHANGED contract
      BY Zenon DEF Next, vars, NewBlock, CrawlContractEvent, HandleStart, HandleCall, HandleAbort,
         HistoryPage, UpdateFail, UpdateRetry, ReindexRequest, ReindexQuery, ReindexFollow, ReindexFail, HistoryEnd, HistoryFail
    <3> QED
      BY <1>1, <1>2, <3>1, <3>2, <3>3, <3>4 DEF Ids
  <2>2. \A j \in Range(wait') \cup Range(delayed') : j.id <= Len(reindexed)
    <3>1. CASE HandleCall
      <4>1. UNCHANGED delayed /\ ((Tracked /\ UpdateByContract(contract, job.start, job.end)) \/ wait' = wait)
        BY <3>1, Zenon DEF HandleCall
      <4>2. CASE Tracked /\ UpdateByContract(contract, job.start, job.end)
        <5>1. job.start \in Int /\ job.end \in Int
          BY <3>1 DEF HandleCall, Typed, JobTyped, Idle
        <5>2. contract.id \in Nat /\ contract.last \in Int /\ contract.id = Len(reindexed)
          BY <4>2, ContractParts, ZenonT(40) DEF Tracked, Typed, Ids
        <5>3. wait' = wait \/ \E x \in UpdateJob : x.id = contract.id /\ wait' = Append(wait, x)
          BY <4>2, <5>1, <5>2, UpdateByContractFacts
        <5>4. \A x \in UpdateJob : Range(Append(wait, x)) = Range(wait) \cup {x}
          BY <1>0, Appended
        <5>5. wait' = wait \/ \E x \in UpdateJob : x.id = Len(reindexed) /\ Range(wait') = Range(wait) \cup {x}
          BY <5>2, <5>3, <5>4, Zenon
        <5>6. Len(reindexed) <= Len(reindexed)
          BY <1>0
        <5> QED
          BY <4>1, <5>5, <5>6, ZenonT(40) DEF Ids, Entries
      <4> QED
        BY <4>1, <4>2, Zenon DEF Ids, Entries
    <3>2. CASE ReindexFollow
      <4>1. /\ UNCHANGED delayed /\ contract # NoContract
            /\ UpdateByContract([id |-> contract.id, last |-> reindex.min], reindex.min, reindex.max)
        BY <1>0, <3>2, Zenon DEF ReindexFollow, Typed, ReindexTyped
      <4>2. reindex.min \in Int /\ reindex.max \in Int /\ contract.id \in Nat /\ contract.id = Len(reindexed)
        BY <4>1, ContractParts, Zenon DEF Typed, ReindexTyped, Ids
      <4>3. wait' = wait \/ \E x \in UpdateJob : x.id = contract.id /\ wait' = Append(wait, x)
        <5>1. PICK c : c = [id |-> contract.id, last |-> reindex.min]
          BY Zenon
        <5>2. c.id = contract.id /\ c.last = reindex.min
          BY <5>1, Zenon
        <5> QED
          BY <4>1, <4>2, <5>1, <5>2, UpdateByContractFacts
      <4>4. \A x \in UpdateJob : Range(Append(wait, x)) = Range(wait) \cup {x}
        BY <1>0, Appended
      <4>5. wait' = wait \/ \E x \in UpdateJob : x.id = Len(reindexed) /\ Range(wait') = Range(wait) \cup {x}
        BY <4>2, <4>3, <4>4, ZenonT(40)
      <4>6. Len(reindexed) <= Len(reindexed)
        BY <1>0
      <4> QED
        BY <4>1, <4>5, <4>6, Zenon DEF Ids, Entries
    <3>3. CASE \E acked \in BOOLEAN : UpdateRun(acked)
      <4>1. wait # <<>> /\ UNCHANGED delayed /\ (wait' = wait \/ wait' = Tail(wait))
        BY <3>3, Zenon DEF UpdateRun
      <4>2. Range(Tail(wait)) \subseteq Range(wait)
        BY <1>0, <4>1, HeadAndTail
      <4> QED
        BY <4>1, <4>2, Zenon DEF Ids, Entries
    <3>4. CASE UpdateFail
      <4>1. PICK x : x = [Head(wait) EXCEPT !.tries = @ + 1]
        BY Zenon
      <4>2. wait # <<>> /\ wait' = Tail(wait) /\ (delayed' = Append(delayed, x) \/ delayed' = delayed)
        BY <3>4, <4>1, Zenon DEF UpdateFail
      <4>3. Head(wait) \in UpdateJob /\ Range(wait) = {Head(wait)} \cup Range(Tail(wait))
        BY <1>0, <4>2, HeadAndTail
      <4>4. PICK i \in Nat, p \in Int, y \in Int, t \in Nat :
               Head(wait) = [id |-> i, startBlock |-> p, endBlock |-> y, tries |-> t]
        BY <4>3, UpdateJobParts
      <4>5. x = [id |-> i, startBlock |-> p, endBlock |-> y, tries |-> t + 1]
        BY <4>1, <4>4
      <4>6. x \in UpdateJob /\ x.id = Head(wait).id
        BY <4>4, <4>5 DEF UpdateJob
      <4>7. Range(Append(delayed, x)) = Range(delayed) \cup {x}
        BY <1>0, <4>6, Appended
      <4> QED
        BY <4>2, <4>3, <4>6, <4>7, Zenon DEF Ids, Entries
    <3>5. CASE Within(wait', delayed', wait, delayed)
      BY <3>5, Zenon DEF Within, Same, Ids, Entries
    <3>6. CASE UNCHANGED <<wait, delayed>>
      BY <3>6, Zenon DEF Ids, Entries
    <3> QED
      BY <3>1, <3>2, <3>3, <3>4, <3>5, <3>6, QueueSteps
  <2> QED
    BY <1>2, <2>1, <2>2, Zenon DEF Ids, Entries
<1>3. ReindexCommit \/ UNCHANGED reindexed
  BY Zenon DEF Next, vars, NewBlock, CrawlContractEvent, HandleStart, HandleCommit, HandleCall, HandleAbort, UpdateRun,
     HistoryPage, UpdateFail, UpdateRetry, ReindexRequest, ReindexQuery, ReindexFollow, ReindexFail, HistoryEnd, HistoryFail
<1> QED
  BY <1>1, <1>2, <1>3

(* The rows of one call of handleCw20Histories come in the order of ids.   *)
LEMMA HistoriesOrder ==
  ASSUME Typed, NEW ids, NEW tracked \in BOOLEAN, HandleCw20Histories(ids, tracked),
         \A i \in ids : i \in DOMAIN events,
         NEW A, IncreasingOn(activity, A), \A x \in Range(activity) \cap A, y \in ids \cap A : x < y
  PROVE  IncreasingOn(activity', A)
<1>1. Len(events) \in Nat /\ DOMAIN events = 1 .. Len(events) /\ activity \in Seq(Int)
  BY StartHeightFacts, EventTyped, Zenon DEF Typed
<1>2. /\ InOrder(ids) \in Seq(1 .. Len(events)) /\ Range(InOrder(ids)) = ids
      /\ IncreasingOn(InOrder(ids), ids)
  <2>1. PICK n \in Nat : DOMAIN events = 1 .. n /\ n = Len(events)
    BY <1>1, Zenon
  <2>2. /\ InOrder(ids) \in Seq(1 .. n) /\ Range(InOrder(ids)) = ids \cap 1 .. n
        /\ IncreasingOn(InOrder(ids), ids)
    BY <2>1, InOrderFacts, Zenon
  <2>3. ids \cap 1 .. n = ids
    BY <2>1, Zenon
  <2> QED
    BY <2>1, <2>2, <2>3, Zenon
<1>3. InOrder(ids) \in Seq(Int)
  BY <1>1, <1>2
<1>4. IncreasingOn(activity \o InOrder(ids), A)
  BY <1>1, <1>2, <1>3, IncreasingConcat, Zenon
<1> QED
  BY <1>4, Zenon DEF HandleCw20Histories
=============================================================================
