------------------------------- MODULE MCCw20 -------------------------------
(* Two accounts, one of which owns two units from the start.  A block may  *)
(* be empty or hold a mint, or a transfer that is burnt at once.           *)
EXTENDS Cw20

Move(f, t) == [from |-> f, to |-> t]

Owned == [a \in Addr |-> IF a = "ann" THEN 2 ELSE 0]

SomeBlocks ==
    {<<>>, <<Move(None, "bob")>>,
     <<Move("ann", "bob"), Move("bob", None)>>}
=============================================================================
