--------------------------- MODULE MCDecoder8086 ---------------------------
EXTENDS ManualClocks8086

\* Bound: the bytes after the second one; with the signs the other way round
\* for some of the second bytes, among them some of each mod, number and rm 6.
MCFirstTail == <<1, 2, 131, 4, 133>>
MCOtherTail == <<129, 254, 3, 252, 5>>
MCZeroTail == <<0, 0, 0, 0, 0>>
MCSecondBytes == {[byte |-> s, tail |-> MCFirstTail] : s \in 0..255}
    \cup {[byte |-> 8 * k + 6, tail |-> MCOtherTail] : k \in 0..31}
    \cup {[byte |-> 8 * k + 6, tail |-> MCZeroTail] : k \in {8, 9, 16, 23}}
MCAll == {<<f, s.byte>> \o s.tail : f \in 0..255, s \in MCSecondBytes}

\* Bound: runs of prefixes, and the instructions tried after them: one of each
\* way the validation goes.
MCMaxPrefixes == 3
MCPrefixBytes == {240, 242, 243, 38, 54}
MCAfter == {<<165, 0>>, <<137, 7>>, <<195, 0>>, <<215, 0>>, <<144, 0>>, <<255, 23>>,
            <<255, 223>>, <<141, 7>>, <<141, 199>>, <<142, 200>>, <<238, 0>>,
            <<116, 200>>, <<214, 0>>, <<217, 1>>, <<209, 224>>}

MCPrefixes == {<<p, 0>> \o MCFirstTail : p \in MCPrefixBytes}
MCSelected == {w \o MCFirstTail : w \in MCAfter}

\* Bound: what follows a prefixed instruction, and then nothing more.
MCNext == {<<165, 0>> \o MCFirstTail, <<137, 7>> \o MCFirstTail}

MCStreams(b, before) ==
    IF b = <<>> THEN MCAll
    ELSE IF b \in MCPrefixes /\ Len(before) + 1 < MCMaxPrefixes
    THEN MCSelected \cup MCPrefixes
    ELSE IF b \in MCPrefixes THEN MCSelected
    ELSE IF before # <<>> THEN MCNext
    ELSE {<<>>}

\* Bound: two executions.  A conditional jump taken and not, a shift by a count
\* and by none, a string instruction repeated three times and once.
MCExecutions ==
    {[op1_val |-> 5, repetitions |-> 3, wait_n |-> 2, cond_action_happened |-> TRUE,
      wide_transfer_cnt |-> 2, wide_odd_transfer_cnt |-> 1],
     [op1_val |-> 0, repetitions |-> 1, wait_n |-> 0, cond_action_happened |-> FALSE,
      wide_transfer_cnt |-> 0, wide_odd_transfer_cnt |-> 0]}
=============================================================================
