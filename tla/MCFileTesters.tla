---------------------------- MODULE MCFileTesters ----------------------------
(***************************************************************************)
(* Values for the constants of FileTesters.  Every cell of the file holds  *)
(* a different power of two, so that as many cells as the file has add up  *)
(* to its sum only if they are each of its cells once.  Standard input is  *)
(* the same file: the one case in which a stray mapping goes unnoticed.    *)
(***************************************************************************)
EXTENDS FileTesters

MCData == [o \in 0 .. FileCells - 1 |-> 2 ^ o]

MCPrefix[n \in 0 .. FileCells] == IF n = 0 THEN 0 ELSE MCPrefix[n - 1] + MCData[n - 1]

==============================================================================
