----------------------------- MODULE TokenChain -----------------------------
(***************************************************************************)
(* The chain as the token services see it: a growing sequence of blocks    *)
(* whose events move one unit of one fungible token between accounts.  An  *)
(* account that does not exist is None: a mint comes from None and a burn  *)
(* goes to None.  The id of an event is its position in events.            *)
(***************************************************************************)
EXTENDS Checkpoint, Sequences, FiniteSetsExt

CONSTANTS
    Addr,       \* accounts
    None,       \* no account
    Initial,    \* the balances before the first event
    Blocks,     \* the moves a block may hold, each a sequence of [from, to]
    Top         \* bound: the height of the chain

ASSUME TokenAssumption ==
    /\ IsFiniteSet(Addr) /\ None \notin Addr
    /\ Initial \in [Addr -> Nat]
    /\ \A b \in Blocks : b \in Seq([from : Addr \cup {None}, to : Addr \cup {None}])

VARIABLES
    head,       \* the height of the chain
    events      \* its events, in order

(* op on the elements of the sequence s, from the first one on.            *)
Fold(op(_, _), base, s) ==
    LET after[k \in 0 .. Len(s)] == IF k = 0 THEN base ELSE op(after[k - 1], s[k])
    IN  after[Len(s)]

Credit(e, a) == IF e.to = a THEN 1 ELSE 0
Debit(e, a) == IF e.from = a THEN 1 ELSE 0

(* What an account owns after block h, and the supply of the token there.  *)
Balance(a, h) ==
    Fold(LAMBDA sum, e : IF e.height <= h THEN sum + Credit(e, a) - Debit(e, a) ELSE sum,
         Initial[a], events)

Supply(h) == FoldSet(LAMBDA a, sum : sum + Balance(a, h), 0, Addr)

InBlocks(lo, hi) == {i \in DOMAIN events : lo < events[i].height /\ events[i].height <= hi}

(* The elements of s that are in ids, in the order of s, and the events    *)
(* with the ids, in the order of their ids.                                *)
Those(s, ids) == Fold(LAMBDA t, i : IF i \in ids THEN Append(t, i) ELSE t, <<>>, s)

InOrder(ids) == Those([i \in DOMAIN events |-> i], ids)

(* The next block; the first one begins with the moves in first.  Nobody   *)
(* spends what they do not own.                                            *)
Grow(first) ==
    /\ head < Top
    /\ \E b \in Blocks :
          LET moves == IF head = StartBlock THEN first \o b ELSE b
              owned(k, a) == Fold(LAMBDA sum, e : sum + Credit(e, a) - Debit(e, a),
                                  Balance(a, head), SubSeq(moves, 1, k))
          IN  /\ \A k \in DOMAIN moves, a \in Addr : owned(k, a) >= 0
              /\ events' = events \o [k \in DOMAIN moves |->
                    [height |-> head + 1, from |-> moves[k].from, to |-> moves[k].to]]
    /\ head' = head + 1
=============================================================================
