--------------------------- MODULE MCJsonTokenizer ---------------------------
(* All short files over an alphabet with a byte of every kind, and longer   *)
(* ones over the bytes of numbers, ended by a separator or by the end of    *)
(* the file, and over those of strings.                                     *)
EXTENDS JsonTokenizer

MixedBytes == {" ", Quote, "{", ",", "1", Minus, "n", "u", "ff"}
NumberBytes == {"1", Minus, Dot, Exponent, "+"}
StringBytes == {Quote, " ", "1", ":"}

Numbers == BoundedSeq(NumberBytes, 5) \cup
             {<<Minus, "1", Dot, "1", Exponent, "1">>, <<Minus, "1", Dot, "1", Exponent, "+", "1">>}

MCSources == BoundedSeq(MixedBytes, 4) \cup Numbers \cup {Append(n, " ") : n \in Numbers}
               \cup BoundedSeq(StringBytes, 6)
=============================================================================
