-------------------------- MODULE MCReptestSeries --------------------------
(* Small instances: a table of two rows and two columns, so that each test *)
(* runs after the results, or the error, of others.                        *)
EXTENDS ReptestSeries

MCTarget == [u \in Units |-> IF u = "ops" THEN 1 ELSE 0]
MCBlockTicks == {1, 2}
MCOtherTicks == {1}
MCBlockFaults == {0, 1}
===========================================================================
