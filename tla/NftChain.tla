------------------------------ MODULE NftChain ------------------------------
(***************************************************************************)
(* The chain as the NFT services see it: a growing sequence of blocks      *)
(* whose events move tokens between owners.  A token that does not exist   *)
(* belongs to None: a mint comes from None and a burn goes to None.  The   *)
(* id of an event is its position in events.                               *)
(***************************************************************************)
EXTENDS Checkpoint, Sequences, SequencesExt

CONSTANTS
    Token,      \* tokens
    Addr,       \* owners
    None,       \* no owner, no token
    Blocks,     \* the moves a block may hold, each a sequence of [token, from, to]
    Top         \* bound: the height of the chain

VARIABLES
    head,       \* the height of the chain
    events      \* its events, in order

(* Who owns t after the events that satisfy In.                            *)
LastOwner(t, In(_)) ==
    FoldLeft(LAMBDA o, i : IF events[i].token = t /\ In(i) THEN events[i].to ELSE o,
             None, [i \in DOMAIN events |-> i])

Owner(t, h) == LastOwner(t, LAMBDA i : events[i].height <= h)
OwnerBefore(k) == LastOwner(events[k].token, LAMBDA i : i < k)

InBlocks(lo, hi) == {i \in DOMAIN events : lo < events[i].height /\ events[i].height <= hi}

InOrder(ids) == SelectSeq([i \in DOMAIN events |-> i], LAMBDA i : i \in ids)

(* The next block; the first one begins with the events in first.  Only    *)
(* the owner of a token moves it.                                          *)
Grow(first) ==
    /\ head < Top
    /\ \E b \in Blocks :
          LET moves == IF head = StartBlock THEN first \o b ELSE b
              owner(t, k) == FoldLeft(LAMBDA o, m : IF m.token = t THEN m.to ELSE o,
                                      Owner(t, head), SubSeq(moves, 1, k))
          IN  /\ \A k \in DOMAIN moves : moves[k].from = owner(moves[k].token, k - 1)
              /\ events' = events \o [k \in DOMAIN moves |->
                    [height |-> head + 1, token |-> moves[k].token,
                     from |-> moves[k].from, to |-> moves[k].to]]
    /\ head' = head + 1
=============================================================================
