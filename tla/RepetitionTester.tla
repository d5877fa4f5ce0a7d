------------------------- MODULE RepetitionTester -------------------------
(***************************************************************************)
(* The repetition tester of Common/repetition.hpp (57-238) under the loop  *)
(* every benchmark of the repository wraps it in, written as in            *)
(* HaversineMathTests/haversine_perf_test.cpp (51-82):                     *)
(*                                                                         *)
(*   for each test                                                         *)
(*     rt.ReStart(results);                                                *)
(*     do { rt.BeginTimeBlock(); f(); rt.EndTimeBlock();                   *)
(*          rt.ReportProcessed...(); } while (rt.Tick());                  *)
(*     print_reptest_results(results, ...);                                *)
(*                                                                         *)
(* One tester and one results record serve all the tests.  Measured code   *)
(* may report an error, as the file readers of MemoryTests/fileread.cpp    *)
(* do (253-257), or process other than the target number of units.         *)
(*                                                                         *)
(* Time and page faults are what the two counters advanced since the last  *)
(* successful ReStart.  The tester reads each counter twice per block, -=  *)
(* then +=, so the wrap of its u64 fields cancels and Int is exact.        *)
(***************************************************************************)
EXTENDS Integers

CONSTANTS
    Tests,          \* how many tests the program runs, one after the other
    TryRenewFor,    \* m_try_renew_min_for_ticks
    LargestTicks,   \* u64(-1), the min_ticks of empty results
    Target,         \* target_units of each kind of unit
    BlockTicks,     \* how long a timed block may take
    LongestBlock,   \* ... and at most takes
    OtherTicks,     \* how long the rest of an iteration may take
    LongestRest,    \* ... and at most takes
    BlockFaults     \* the page faults a stretch of code may take

Units == {"bytes", "ops"}

ASSUME CountAssumption == /\ Tests \in Nat \ {0}
                          /\ TryRenewFor \in Nat
                          /\ LargestTicks \in Nat
ASSUME TargetAssumption == Target \in [Units -> Nat]
\* The timer advances between two calls of Tick: an iteration takes time.
ASSUME ClockAssumption ==
    /\ LongestBlock \in Nat /\ BlockTicks \subseteq 0 .. LongestBlock
    /\ LongestRest \in Nat /\ OtherTicks \subseteq 1 .. LongestRest
    /\ BlockFaults \subseteq Nat

VARIABLES
    m_state, m_test_start_ticks, m_ticks, m_page_faults,
    m_units, m_open_blocks, m_closed_blocks,    \* the RepetitionTester
    results,                                    \* repetition_test_results_t
    clock, faults,                              \* READ_TIMER, READ_PAGE_FAULT_COUNTER
    pc, test                                    \* the program around them

tester == <<m_state, m_test_start_ticks, m_ticks, m_page_faults,
            m_units, m_open_blocks, m_closed_blocks>>
counters == <<clock, faults>>
program == <<pc, test>>
vars == <<tester, results, counters, program>>

NoUnits == [u \in Units |-> 0]

\* repetition_test_results_t{}; the target units survive a ReStart and are
\* the constant Target.
NoResults ==
    [test_count |-> 0,
     min_ticks |-> LargestTicks, max_ticks |-> 0, total_ticks |-> 0,
     min_test_page_faults |-> 0, max_test_page_faults |-> 0,
     total_page_faults |-> 0,
     total_units |-> NoUnits]

Init ==
    /\ m_state = "pending"
    /\ m_test_start_ticks = 0 /\ m_ticks = 0 /\ m_page_faults = 0
    /\ m_units = NoUnits
    /\ m_open_blocks = 0 /\ m_closed_blocks = 0
    /\ results = NoResults
    /\ clock = 0 /\ faults = 0
    /\ pc = "restart" /\ test = 1

Goto(from, to) == pc = from /\ pc' = to

ResetBlocks ==
    /\ m_ticks' = 0 /\ m_page_faults' = 0
    /\ m_open_blocks' = 0 /\ m_closed_blocks' = 0
    /\ m_units' = NoUnits

---------------------------------------------------------------------------
(* ReStart: everything is reset and the time is taken anew ...             *)
KeepsResults == UNCHANGED results
ClearsResults == results' = NoResults

ReStart ==
    /\ Goto("restart", "begin")
    /\ m_state = "pending"
    /\ m_state' = "active"
    /\ ClearsResults
    /\ ResetBlocks
    /\ clock' = 0 /\ faults' = 0
    /\ m_test_start_ticks' = 0
    /\ UNCHANGED test

(* ... unless the tester is not pending: then it is left in error, and the *)
(* caller, which is told nothing, goes on to the first iteration.          *)
ReStartRefused ==
    /\ Goto("restart", "begin")
    /\ m_state # "pending"
    /\ m_state' = "error"
    /\ UNCHANGED <<m_test_start_ticks, m_ticks, m_page_faults, m_units,
                   m_open_blocks, m_closed_blocks, results, counters, test>>

BeginTimeBlock ==
    /\ Goto("begin", "end")
    /\ m_open_blocks' = m_open_blocks + 1
    /\ m_page_faults' = m_page_faults - faults
    /\ m_ticks' = m_ticks - clock
    /\ UNCHANGED <<m_state, m_test_start_ticks, m_units, m_closed_blocks,
                   results, counters, test>>

(* The tested function runs for d ticks with p page faults, then the block *)
(* is closed.                                                              *)
EndTimeBlock ==
    /\ Goto("end", "report")
    /\ \E d \in BlockTicks, p \in BlockFaults :
          /\ clock' = clock + d
          /\ faults' = faults + p
    /\ m_ticks' = m_ticks + clock'
    /\ m_page_faults' = m_page_faults + faults'
    /\ m_closed_blocks' = m_closed_blocks + 1
    /\ UNCHANGED <<m_state, m_test_start_ticks, m_units, m_open_blocks,
                   results, test>>

(* What the block did is reported: the units it processed and, if that is  *)
(* not what was asked for, possibly an error.  The rest of the iteration   *)
(* takes time and page faults of its own.                                  *)
Report ==
    /\ Goto("report", "tick")
    /\ \E done \in [Units -> UNION {0 .. Target[u] : u \in Units}] :
          /\ m_units' = [u \in Units |-> m_units[u] + done[u]]
          /\ \/ UNCHANGED m_state
             \/ done # Target /\ m_state' = "error"     \* ReportError
    /\ \E d \in OtherTicks, p \in BlockFaults :
          /\ clock' = clock + d
          /\ faults' = faults + p
    /\ UNCHANGED <<m_test_start_ticks, m_ticks, m_page_faults,
                   m_open_blocks, m_closed_blocks, results, test>>

---------------------------------------------------------------------------
(* Tick, which ends an iteration.  Its loop over the kinds of unit adds    *)
(* each to the results and stops at the first that is off target, so the   *)
(* bytes of a block whose ops are off have been added already.             *)
CheckedBefore(u) == IF u = "bytes" THEN {} ELSE {"bytes"}
OnTarget(u) == m_units[u] = Target[u]

\* Adding before checking would spoil the totals with what was off target.
UnitsAddedUnchecked ==
    [u \in Units |-> results.total_units[u] + m_units[u]]

UnitsAdded ==
    [u \in Units |->
        IF \A v \in CheckedBefore(u) \cup {u} : OnTarget(v)
        THEN results.total_units[u] + m_units[u]
        ELSE results.total_units[u]]

\* The test of a new minimum and, for the sake of comparison, a lax one.
TiesRenew(ticks, min) == ticks <= min
IsNewMin(ticks, min) == ticks < min

\* The page faults kept with an extreme: the block's, not the counter's.
FaultsKept(isExtreme, previous) == IF isExtreme THEN m_page_faults ELSE previous

ResultsCounted ==
    LET newMax == results.max_ticks < m_ticks
        newMin == IsNewMin(m_ticks, results.min_ticks)
    IN  [test_count |-> results.test_count + 1,
         min_ticks |-> IF newMin THEN m_ticks ELSE results.min_ticks,
         max_ticks |-> IF newMax THEN m_ticks ELSE results.max_ticks,
         total_ticks |-> results.total_ticks + m_ticks,
         min_test_page_faults |->
            FaultsKept(newMin, results.min_test_page_faults),
         max_test_page_faults |->
            FaultsKept(newMax, results.max_test_page_faults),
         total_page_faults |-> results.total_page_faults + m_page_faults,
         total_units |-> UnitsAdded]

NextTest ==
    IF test < Tests THEN pc' = "restart" /\ test' = test + 1
                    ELSE pc' = "done" /\ UNCHANGED test

(* The do-while goes on while Tick returns true: until no block has been   *)
(* faster than the fastest for TryRenewFor ticks.                          *)
TickCounts ==
    /\ pc = "tick"
    /\ m_state = "active"
    /\ m_open_blocks > 0 /\ m_open_blocks = m_closed_blocks
    /\ \A u \in Units : OnTarget(u)
    /\ results' = ResultsCounted
    /\ m_test_start_ticks' = IF IsNewMin(m_ticks, results.min_ticks)
                             THEN clock ELSE m_test_start_ticks
    /\ ResetBlocks
    /\ IF clock - m_test_start_ticks' > TryRenewFor
       THEN m_state' = "pending" /\ pc' = "print"
       ELSE m_state' = "active" /\ pc' = "begin"
    /\ UNCHANGED <<counters, test>>

TickOffTarget ==
    /\ Goto("tick", "print")
    /\ m_state = "active"
    /\ m_open_blocks > 0 /\ m_open_blocks = m_closed_blocks
    /\ \E u \in Units : ~OnTarget(u)
    /\ results' = [results EXCEPT !.total_units = UnitsAdded]
    /\ m_state' = "error"
    /\ UNCHANGED <<m_test_start_ticks, m_ticks, m_page_faults, m_units,
                   m_open_blocks, m_closed_blocks, counters, test>>

\* Making the tester usable again would hide that its results are not.
TickClearsError ==
    /\ Goto("tick", "print")
    /\ m_state = "error"
    /\ m_state' = "pending"
    /\ UNCHANGED <<m_test_start_ticks, m_ticks, m_page_faults, m_units,
                   m_open_blocks, m_closed_blocks, results, counters, test>>

TickInError ==
    /\ Goto("tick", "print")
    /\ m_state = "error"
    /\ UNCHANGED <<tester, results, counters, test>>

---------------------------------------------------------------------------
(* print_reptest_results divides two u64 by each other (248): with no test *)
(* counted the program dies there.                                         *)
PrintResults ==
    /\ pc = "print"
    /\ results.test_count # 0
    /\ NextTest
    /\ UNCHANGED <<tester, results, counters>>

DivideByZero ==
    /\ Goto("print", "crashed")
    /\ results.test_count = 0
    /\ UNCHANGED <<tester, results, counters, test>>

Terminating == pc \in {"done", "crashed"} /\ UNCHANGED vars

Next ==
    \/ ReStart \/ ReStartRefused
    \/ BeginTimeBlock \/ EndTimeBlock \/ Report
    \/ TickCounts \/ TickOffTarget \/ TickInError
    \/ PrintResults \/ DivideByZero
    \/ Terminating

Spec == Init /\ [][Next]_vars

---------------------------------------------------------------------------
(* The types of the variables.  No more blocks are open than an iteration  *)
(* opens, one, and one for each test run after an error: Tick does not     *)
(* reset a tester that is in error.                                        *)
ResultsType ==
    [test_count : Nat, min_ticks : Nat, max_ticks : Nat, total_ticks : Nat,
     min_test_page_faults : Nat, max_test_page_faults : Nat,
     total_page_faults : Nat, total_units : [Units -> Nat]]

TypeOK ==
    /\ m_state \in {"pending", "active", "error"}
    /\ m_test_start_ticks \in Nat
    /\ m_ticks \in Int /\ m_page_faults \in Int
    /\ m_units \in [Units -> Nat]
    /\ m_open_blocks \in 0 .. test /\ m_closed_blocks \in 0 .. test
    /\ results \in ResultsType
    /\ clock \in Nat /\ faults \in Nat
    /\ pc \in {"restart", "begin", "end", "report", "tick", "print",
               "done", "crashed"}
    /\ test \in 1 .. Tests

\* The average time lies between the minimum and the maximum, and the timed
\* blocks together took no longer and no more faults than the run.
TicksAddUp ==
    /\ results.min_ticks * results.test_count <= results.total_ticks
    /\ results.total_ticks <= results.max_ticks * results.test_count
    /\ results.total_ticks <= clock
    /\ results.total_page_faults <= faults

\* The page faults of the fastest and the slowest test are part of the total.
FaultsArePartOfTotal ==
    /\ results.min_test_page_faults <= results.total_page_faults
    /\ results.max_test_page_faults <= results.total_page_faults

(* What the report prints is consistent: minimum, average and maximum are  *)
(* in order, the timed blocks are part of the run, so that no block is     *)
(* counted twice and none leaks into the next test, and the page faults    *)
(* printed with the fastest and the slowest test are those of a test that  *)
(* was counted (repetition.hpp 142-156, 179-203).                          *)
TimesAddUp == TicksAddUp /\ FaultsArePartOfTotal

(* Whatever was counted did the work asked for, and the throughput that is *)
(* printed for a run that ended without an error is that of its tests; an  *)
(* iteration that is off target may have added at most its own units       *)
(* (repetition.hpp 169-177).                                               *)
UnitsAddUp ==
    \A u \in Units :
        LET counted == results.test_count * Target[u]
        IN  /\ m_state # "error" => results.total_units[u] = counted
            /\ results.total_units[u] \in {counted, counted + Target[u]}

(* A program whose tests report no error always has results to print: only *)
(* an error in the first iterations makes print_reptest_results divide by  *)
(* zero (248).                                                             *)
CrashNeedsError == pc = "crashed" => m_state = "error"

(* An error is final: no later ReStart or iteration clears it or adds to   *)
(* the results, though the program keeps calling both (138-141, 160-163).  *)
ErrorIsFinal ==
    [][m_state = "error" => m_state' = "error" /\ results' = results]_vars

(* A run ends, and after a time that depends on the tested function alone: *)
(* each minimum, lower than the one before, buys it TryRenewFor more ticks *)
(* (186-189, 205), and a block of LongestBlock ticks can only be beaten so *)
(* many times.                                                             *)
LongestRun == (LongestBlock + 2) * (TryRenewFor + LongestBlock + LongestRest)
RunIsBounded == m_state # "error" => clock <= LongestRun

===========================================================================
