------------------------------ MODULE Feegrant ------------------------------
(***************************************************************************)
(* Fee grants of one granter to one grantee.  HANDLE_FEEGRANT turns the    *)
(* events of the blocks into rows of feegrant and feegrant_history, and    *)
(* UPDATE_FEEGRANT works through the history: it looks for the grant that  *)
(* each entry is about, and takes the fees off its spend_limit or ends it. *)
(* A block holds one transaction: the height stands for the id of both.    *)
(* feegrant_history is read without an order: here, in the order of ids.   *)
(***************************************************************************)
EXTENDS Checkpoint, Sequences, SequencesExt

CONSTANTS
    Limits,           \* spend limits of grants
    BlocksPerCall,
    LimitPerCall,     \* config.feegrant.updateFeegrant.limitPerCall
    Top               \* bound: the height of the chain

VARIABLES
    chain,     \* for each block: the events of its transaction, the grants after it
    crawled,   \* block_checkpoint of HANDLE_TRANSACTION
    cp,        \* block_checkpoint of HANDLE_FEEGRANT
    rows,      \* the table feegrant: [init, left, status]
    history,   \* the table feegrant_history: [tx, action]
    done,      \* how many rows of it are processed
    old        \* the grants at the first block: in the genesis file, or unknown

vars == <<chain, crawled, cp, rows, history, done, old>>

NoLimit == -1
Fee == 1
head == Len(chain)
GrantsAt(h) == IF h = 0 THEN old ELSE chain[h].grants
Alive(gs) == {k \in DOMAIN gs : gs[k].status = "Available"}
Grant(init, limit, status) == [init |-> init, left |-> limit, status |-> status]
Spent(left) == IF left = NoLimit THEN NoLimit ELSE left - Fee
-----------------------------------------------------------------------------
(* A grant may be older than the first block.  The table has it when it    *)
(* comes from the genesis file; otherwise its init is NoRow.               *)
Init ==
    /\ old \in {<<>>} \cup {<<Grant(i, l, "Available")>> : i \in {0, NoRow}, l \in Limits}
    /\ chain = <<>> /\ crawled = 0 /\ cp = 0 /\ history = <<>> /\ done = 0
    /\ rows = SelectSeq(old, LAMBDA g : g.init = 0)

(* The transactions that may come: their events, in order.  A fee is taken *)
(* before the messages run, and uses a grant up when nothing is left; a    *)
(* grant can be set when there is none.                                    *)
Transactions ==
    LET alive == Alive(GrantsAt(head))
        last == \E k \in alive : GrantsAt(head)[k].left = Fee
        use == IF last THEN <<"use", "use_up">> ELSE <<"use">>
    IN  IF alive = {} THEN {<<>>, <<"set">>}
        ELSE {<<>>, <<"revoke">>, <<"revoke", "set">>, use}
             \cup (IF last THEN {use \o <<"set">>} ELSE {use \o <<"revoke">>})

Effect(gs, e, limit) ==
    LET k == Max(Alive(gs) \cup {0})
    IN  CASE e = "use" -> [gs EXCEPT ![k].left = Spent(@)]
          [] e = "use_up" -> [gs EXCEPT ![k].status = "Use up"]
          [] e = "revoke" -> [gs EXCEPT ![k].status = "Revoked"]
          [] e = "set" -> Append(gs, Grant(head + 1, limit, "Available"))

NewBlock ==
    /\ head < Top
    /\ \E events \in Transactions, limit \in Limits :
          chain' = Append(chain, [events |-> events, grants |->
                     FoldLeft(LAMBDA gs, e : Effect(gs, e, limit), GrantsAt(head), events)])
    /\ UNCHANGED <<crawled, cp, rows, history, done, old>>

(* A grant expires: the chain forgets it without an event.                 *)
Expire ==
    /\ head < Top /\ Alive(GrantsAt(head)) # {}
    /\ chain' = Append(chain, [events |-> <<>>, grants |->
                  [k \in DOMAIN GrantsAt(head) |->
                     IF k \in Alive(GrantsAt(head)) THEN [GrantsAt(head)[k] EXCEPT !.status = "Expired"]
                     ELSE GrantsAt(head)[k]]])
    /\ UNCHANGED <<crawled, cp, rows, history, done, old>>

HandleTx ==
    /\ crawled < head
    /\ crawled' = crawled + 1
    /\ UNCHANGED <<chain, cp, rows, history, done, old>>
-----------------------------------------------------------------------------
(* getFeegrantEvents: first the uses; then grants set and revoked, where a *)
(* revocation that no message made turns the use into a use up.            *)
Histories(h) ==
    LET events == chain[h].events
        first == SelectSeq(events, LAMBDA e : e = "use")
        then == SelectSeq(events, LAMBDA e : e \in {"set", "revoke"})
    IN  [k \in DOMAIN first |-> [tx |-> h, action |-> IF Contains(events, "use_up") THEN "use_up" ELSE "use"]]
        \o [k \in DOMAIN then |-> [tx |-> h, action |-> then[k]]]

HandleFeegrant ==
    LET end == EndHeight(cp, crawled, BlocksPerCall)
        heights == [k \in 1 .. end - cp |-> cp + k]
        set == {k \in DOMAIN GrantsAt(end) : GrantsAt(end)[k].init > cp}
        limits(k) == LET h == GrantsAt(end)[k].init IN Grant(h, chain[h].grants[k].left, "Available")
    IN  /\ cp < end
        /\ history' = history \o FlattenSeq([k \in DOMAIN heights |-> Histories(heights[k])])
        /\ rows' = rows \o [k \in 1 .. Cardinality(set) |-> limits(Min(set) + k - 1)]
        /\ cp' = end
        /\ UNCHANGED <<chain, crawled, done, old>>
-----------------------------------------------------------------------------
(* mutant: of several grants the oldest is taken                           *)
OriginalFeegrantOldest(e) ==
    LET suspicious == {k \in Alive(rows) : rows[k].init <= e.tx}
    IN  IF suspicious = {} THEN 0 ELSE CHOOSE k \in suspicious : \A j \in suspicious : rows[k].init <= rows[j].init

(* The grant that an entry is about: of the available ones, the latest     *)
(* that is not younger than the entry.                                     *)
OriginalFeegrant(e) ==
    LET suspicious == {k \in Alive(rows) : rows[k].init <= e.tx}
    IN  IF suspicious = {} THEN 0 ELSE CHOOSE k \in suspicious : \A j \in suspicious : rows[k].init >= rows[j].init

(* updateFeegrant adds up what the entries of one call say of a grant.     *)
Updated(k, entries) ==
    LET own == SelectSeq(entries, LAMBDA e : OriginalFeegrant(e) = k)
        uses == SelectSeq(own, LAMBDA e : e.action \in {"use", "use_up"})
        ends == SelectSeq(own, LAMBDA e : e.action \in {"use_up", "revoke"})
    IN  [rows[k] EXCEPT
            !.left = IF @ = NoLimit THEN NoLimit ELSE @ - Len(uses) * Fee,
            !.status = IF ends = <<>> THEN @
                       ELSE IF ends[Len(ends)].action = "revoke" THEN "Revoked" ELSE "Use up"]

UpdateFeegrant ==
    LET last == SmallerOf(done + LimitPerCall, Len(history))
        entries == SubSeq(history, done + 1, last)
    IN  /\ done < Len(history)
        /\ rows' = [k \in DOMAIN rows |-> Updated(k, entries)]
        /\ done' = last
        /\ UNCHANGED <<chain, crawled, cp, history, old>>

Next == NewBlock \/ Expire \/ HandleTx \/ HandleFeegrant \/ UpdateFeegrant

Spec == Init /\ [][Next]_vars
-----------------------------------------------------------------------------
(* Properties                                                              *)

(* A transaction that sets a grant and uses or ends one.                   *)
Mixed(h) == Len(chain[h].events) > 1 /\ Contains(chain[h].events, "set")

(* The last block whose history is processed and complete.                 *)
Settled == IF done = Len(history) THEN cp ELSE history[done + 1].tx - 1

(* When the history is processed up to the end of a transaction, however   *)
(* the blocks and the entries were cut into calls, every grant stored has  *)
(* the spend limit and the status that it had on the chain then (an expired*)
(* one stays available), although grants of the same two accounts follow   *)
(* one another; until a transaction both sets a grant and uses or revokes  *)
(* another: its entries all go to the new one.                             *)
FeegrantsExact ==
    LET there == SelectSeq(GrantsAt(Settled), LAMBDA g : g.init # NoRow)
        midway == done > 0 /\ history[done].tx = Settled + 1
    IN  ~ midway /\ (\A h \in 1 .. Settled : ~ Mixed(h)) =>
            \A k \in DOMAIN there :
                /\ rows[k].left = there[k].left
                /\ rows[k].status = IF there[k].status = "Expired" THEN "Available" ELSE there[k].status
=============================================================================
