----------------------------- MODULE Stopwatch -----------------------------
(***************************************************************************)
(* What the profiler of Common/profiling.hpp promises.  Blocks of code are *)
(* opened and closed like parentheses, a block possibly inside itself, and *)
(* counters (of ticks, of page faults) advance meanwhile.  An advance of a *)
(* counter is charged                                                      *)
(*   - to the self of each open block that watches the counter and sees    *)
(*     no block opened directly in it do so: of the innermost one, and of  *)
(*     others only where a block that does not watch it is in between, and *)
(*   - to the total of every open block that watches it, once, however     *)
(*     often the block is open.                                            *)
(* When everything is closed the blocks that ran are listed, the one with  *)
(* the largest total of ticks first.                                       *)
(***************************************************************************)
EXTENDS Integers, Sequences, FiniteSets

CONSTANTS
    Blocks,         \* the profiled blocks
    Counters,       \* what is counted, "ticks" among it
    Watched         \* Watched[b]: the counters block b watches

VARIABLES
    open,           \* the open blocks, outermost first
    self, total,    \* [Counters -> [Blocks -> Nat]]
    hits,           \* how often each block was opened
    listed          \* what was printed at the end, or <<>>

vars == <<open, self, total, hits, listed>>

Zero == [k \in Counters |-> [b \in Blocks |-> 0]]

Init ==
    /\ open = <<>>
    /\ self = Zero /\ total = Zero
    /\ hits = [b \in Blocks |-> 0]
    /\ listed = <<>>

Running == listed = <<>>

Open(b) ==
    /\ Running
    /\ open' = Append(open, b)
    /\ hits' = [hits EXCEPT ![b] = @ + 1]
    /\ UNCHANGED <<self, total, listed>>

Close ==
    /\ Running
    /\ open # <<>>
    /\ open' = SubSeq(open, 1, Len(open) - 1)
    /\ UNCHANGED <<self, total, hits, listed>>

Watching(k) == {i \in DOMAIN open : k \in Watched[open[i]]}

\* How many times it is, for a block may be open more than once.
Charged(k, b) ==
    Cardinality({i \in Watching(k) : open[i] = b /\ i + 1 \notin Watching(k)})

Advance(k) ==
    /\ Running
    /\ self' = [self EXCEPT ![k] =
                  [b \in Blocks |-> @[b] + Charged(k, b)]]
    /\ total' = [total EXCEPT ![k] =
                  [b \in Blocks |-> @[b] +
                      IF \E i \in Watching(k) : open[i] = b THEN 1 ELSE 0]]
    /\ UNCHANGED <<open, hits, listed>>

Entry(b) == [name |-> b, hit_count |-> hits[b],
             inclusive |-> [k \in Counters |-> total[k][b]],
             exclusive |-> [k \in Counters |-> self[k][b]]]

Ran == {b \in Blocks : hits[b] > 0}

(* Any order of the blocks that ran with decreasing totals will do.        *)
List ==
    /\ Running
    /\ open = <<>>
    /\ Ran # {}
    /\ \E order \in [1 .. Cardinality(Ran) -> Ran] :
          /\ \A i, j \in DOMAIN order : i < j =>
                /\ order[i] # order[j]
                /\ total["ticks"][order[i]] >= total["ticks"][order[j]]
          /\ listed' = [i \in DOMAIN order |-> Entry(order[i])]
    /\ UNCHANGED <<open, self, total, hits>>

Next ==
    \/ \E b \in Blocks : Open(b)
    \/ Close
    \/ \E k \in Counters : Advance(k)
    \/ List

Spec == Init /\ [][Next]_vars

===========================================================================
