------------------------- MODULE MCThreadedReadWeak -------------------------
(***************************************************************************)
(* Values for the constants of ThreadedReadWeak: see MCThreadedRead.       *)
(***************************************************************************)
EXTENDS ThreadedReadWeak

MCData == [o \in 0 .. FileCells - 1 |-> 2 ^ o]

MCPrefix[n \in 0 .. FileCells] == IF n = 0 THEN 0 ELSE MCPrefix[n - 1] + MCData[n - 1]

==============================================================================
