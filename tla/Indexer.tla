------------------------------- MODULE Indexer ------------------------------
(***************************************************************************)
(* What the ingestion pipeline promises: three tables that fill in block   *)
(* order, each block's rows appearing once, and a cursor per table that    *)
(* vouches for everything below it.  Nothing fails and nothing is read     *)
(* here; a table is only ever extended above its cursor, and only with     *)
(* blocks that the cursor of the table it derives from vouches for.        *)
(***************************************************************************)
EXTENDS Integers

CONSTANTS StartBlock, TopBlock, Jobs, First, SourceOf, Owed

Heights == (StartBlock + 1) .. TopBlock

VARIABLES chain, cursor, table

vars == <<chain, cursor, table>>

Init ==
    /\ chain = StartBlock
    /\ cursor = [j \in Jobs |-> StartBlock]
    /\ table = [j \in Jobs |-> {}]

NewBlock == /\ chain < TopBlock
            /\ chain' = chain + 1
            /\ UNCHANGED <<cursor, table>>

Limit(j) == IF j = First THEN chain ELSE cursor[SourceOf[j]]

Vouched(j, n, T) == \A h \in Heights : h <= n /\ h \in Owed[j] => h \in T

(* The first table may be extended before its cursor moves.                *)
Extend(j, S) ==
    /\ j = First
    /\ S \subseteq {h \in Heights : cursor[j] < h /\ h <= Limit(j)} \ table[j]
    /\ table' = [table EXCEPT ![j] = @ \cup S]
    /\ UNCHANGED <<chain, cursor>>

(* The cursor moves up, together with the rows it vouches for.             *)
Advance(j, n, S) ==
    /\ cursor[j] < n /\ n <= Limit(j)
    /\ S \subseteq {h \in Heights : cursor[j] < h /\ h <= n} \ table[j]
    /\ j # First => S \subseteq table[SourceOf[j]]
    /\ Vouched(j, n, table[j] \cup S)
    /\ table' = [table EXCEPT ![j] = @ \cup S]
    /\ cursor' = [cursor EXCEPT ![j] = n]
    /\ UNCHANGED chain

Next ==
    \/ NewBlock
    \/ \E j \in Jobs, S \in SUBSET Heights :
          \/ Extend(j, S)
          \/ \E n \in Heights : Advance(j, n, S)

Spec == Init /\ [][Next]_vars
=============================================================================
