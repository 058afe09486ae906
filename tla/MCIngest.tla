------------------------------ MODULE MCIngest ------------------------------
(* The pipeline with one worker per queue, or with two for one of them.    *)
EXTENDS Ingest

OneEach == [w \in Workers |-> w]
TwoHandlers == [w \in Workers |->
                  CASE w = "b" -> CB [] w = "t" -> CT [] OTHER -> HT]
PerCall == [j \in Jobs |-> 2]
=============================================================================
