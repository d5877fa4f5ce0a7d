-------------------------- MODULE ReptestSeriesProofs --------------------------
(***************************************************************************)
(* Theorems about RepetitionTester by itself, for every number of tests,   *)
(* threshold, target and duration of the tested code, and about the tests  *)
(* that fill a table: what holds of the tester by itself holds for them,   *)
(* and the table that is dumped has every result in its place, for every   *)
(* number of rows and columns.                                             *)
(***************************************************************************)
EXTENDS ReptestSeries, TLAPS

(***************************************************************************)
(* Types.  TypeOK alone is not inductive.  An error does not let the       *)
(* counts of blocks run away because each test then runs one iteration;    *)
(* and the ticks of a block are a natural number once it is closed because *)
(* the timer was subtracted when it was opened, and nothing in between     *)
(* changed them.                                                           *)
(***************************************************************************)
BlocksInv ==
    /\ pc \in {"restart", "begin"} => m_open_blocks < test
    /\ pc \in {"restart", "begin", "end"} => m_closed_blocks < test

StatesInv ==
    /\ pc \in {"restart", "print", "done"} => m_state # "active"
    /\ pc \in {"begin", "end", "report", "tick"} => m_state # "pending"
    /\ pc = "crashed" => m_state = "error"

Running == {"report", "tick"}
MeasureInv ==
    m_state = "active" =>
        /\ m_open_blocks = IF pc = "begin" THEN 0 ELSE 1
        /\ m_closed_blocks = IF pc \in {"begin", "end"} THEN 0 ELSE 1
        /\ pc = "begin" => m_ticks = 0 /\ m_page_faults = 0
        /\ pc = "end" => m_ticks = 0 - clock /\ m_page_faults = 0 - faults
        /\ pc \in Running => m_ticks \in 0 .. LongestBlock /\ m_page_faults \in Nat

CountedInv == m_state = "pending" /\ pc = "print" => results.test_count > 0

TypeInv == TypeOK /\ BlocksInv /\ StatesInv /\ MeasureInv /\ CountedInv

LEMMA UnitsAddedType ==
    ASSUME TypeOK
    PROVE  UnitsAdded \in [Units -> Nat]
BY DEF TypeOK, ResultsType, UnitsAdded

LEMMA TypeInit == Init => TypeInv
BY CountAssumption DEF Init, TypeInv, TypeOK, BlocksInv, StatesInv, MeasureInv,
   CountedInv, ResultsType, NoResults, NoUnits

(* What a step of each action does to the types and to the rest.           *)
LEMMA ReportType ==
    ASSUME TypeInv, Report
    PROVE  m_units' \in [Units -> Nat] /\ m_state' \in {m_state, "error"}
<1> USE TargetAssumption DEF TypeInv, TypeOK
<1>1. PICK done \in [Units -> UNION {0 .. Target[u] : u \in Units}] :
          m_units' = [u \in Units |-> m_units[u] + done[u]]
    BY DEF Report
<1>2. \A u \in Units : done[u] \in Nat
    OBVIOUS
<1>3. m_state' \in {m_state, "error"}
    BY DEF Report
<1> QED
    BY <1>1, <1>2, <1>3

LEMMA TickCountsType ==
    ASSUME TypeInv, TickCounts
    PROVE  /\ results' = ResultsCounted
           /\ results' \in ResultsType
           /\ results'.test_count > 0
           /\ m_ticks \in 0 .. LongestBlock
           /\ m_page_faults \in Nat
<1>1. m_ticks \in 0 .. LongestBlock /\ m_page_faults \in Nat
    BY DEF TypeInv, MeasureInv, TickCounts, Running
<1>2. ResultsCounted \in ResultsType /\ ResultsCounted.test_count > 0
    BY <1>1, UnitsAddedType, ClockAssumption
    DEF ResultsCounted, ResultsType, FaultsKept, IsNewMin, TypeInv, TypeOK
<1> QED
    BY <1>1, <1>2 DEF TickCounts

LEMMA TypeNext == TypeInv /\ [Next]_vars => TypeInv'
<1> SUFFICES ASSUME TypeInv, [Next]_vars PROVE TypeInv'
    OBVIOUS
<1> USE CountAssumption, ClockAssumption
    DEF TypeInv, TypeOK, BlocksInv, StatesInv, MeasureInv, CountedInv, Running
<1>1. CASE ReStart
    BY <1>1 DEF ReStart, Goto, ClearsResults, ResetBlocks, NoResults, NoUnits,
       ResultsType
<1>2. CASE ReStartRefused
    BY <1>2 DEF ReStartRefused, Goto, counters
<1>3. CASE BeginTimeBlock
    BY <1>3 DEF BeginTimeBlock, Goto, counters
<1>4. CASE EndTimeBlock
    BY <1>4 DEF EndTimeBlock, Goto
<1>5. CASE Report
    BY <1>5, ReportType DEF Report, Goto
<1>6. CASE TickCounts
    BY <1>6, TickCountsType DEF TickCounts, ResetBlocks, NoUnits, counters
<1>7. CASE TickOffTarget
  <2>1. results' \in ResultsType
      BY <1>7, UnitsAddedType DEF TickOffTarget, ResultsType
  <2> QED
      BY <1>7, <2>1 DEF TickOffTarget, Goto, counters
<1>8. CASE TickInError
    BY <1>8 DEF TickInError, Goto, tester, counters
<1>9. CASE PrintResults
    BY <1>9 DEF PrintResults, NextTest, tester, counters
<1>10. CASE DivideByZero
    BY <1>10 DEF DivideByZero, Goto, tester, counters, ResultsType
<1>11. CASE UNCHANGED vars
    BY <1>11 DEF vars, tester, counters, program
<1> QED
    BY <1>1, <1>2, <1>3, <1>4, <1>5, <1>6, <1>7, <1>8, <1>9, <1>10, <1>11
    DEF Next, Terminating

LEMMA TypeInvariant == Spec => []TypeInv
BY TypeInit, TypeNext, PTL DEF Spec

(* The variables stay in their types, the counts of blocks opened after an *)
(* error included (repetition.hpp 57-238).                                 *)
THEOREM TypeCorrect == Spec => []TypeOK
<1>1. TypeInv => TypeOK
    BY DEF TypeInv
<1> QED
    BY TypeInvariant, <1>1, PTL

(* Without an error there is a counted test to divide by: a run that Tick  *)
(* ends has counted at least the iteration it ends with.                   *)
THEOREM NoCrashWithoutError == Spec => []CrashNeedsError
<1>1. TypeInv => CrashNeedsError
    BY DEF TypeInv, StatesInv, CrashNeedsError
<1> QED
    BY TypeInvariant, <1>1, PTL

(***************************************************************************)
(* What is printed.  TicksAddUp becomes inductive with the ticks of the    *)
(* block in progress: the clock is ahead of the total by at least those.   *)
(***************************************************************************)
LEMMA ProductStep ==
    ASSUME NEW a \in Nat, NEW b \in Nat, NEW c \in Nat, NEW t \in Nat,
           NEW m \in Nat
    PROVE  /\ a * c <= t /\ b <= a /\ b <= m => b * (c + 1) <= t + m
           /\ t <= a * c /\ a <= b /\ m <= b => t + m <= b * (c + 1)
<1>1. /\ b * (c + 1) = b * c + b
      /\ a * c \in Nat /\ b * c \in Nat
    OBVIOUS
<1>2. b <= a => b * c <= a * c
    OBVIOUS
<1>3. a <= b => a * c <= b * c
    OBVIOUS
<1> QED
    BY <1>1, <1>2, <1>3

AheadInv ==
    /\ results.total_ticks <= clock
    /\ results.total_page_faults <= faults
    /\ m_state = "active" /\ pc \in Running =>
        /\ results.total_ticks + m_ticks <= clock
        /\ results.total_page_faults + m_page_faults <= faults

TimesInv == AheadInv /\ TicksAddUp /\ FaultsArePartOfTotal

LEMMA TimesInit == Init => TimesInv
BY CountAssumption
DEF Init, NoResults, TimesInv, AheadInv, TicksAddUp, FaultsArePartOfTotal, Running

\* No step but Tick's counting and ReStart's clearing touches these fields.
TimesKept ==
    \A f \in {"test_count", "min_ticks", "max_ticks", "total_ticks",
              "min_test_page_faults", "max_test_page_faults",
              "total_page_faults"} : results'[f] = results[f]

LEMMA TimesNext == TypeInv /\ TimesInv /\ [Next]_vars => TimesInv'
<1> SUFFICES ASSUME TypeInv, TimesInv, [Next]_vars PROVE TimesInv'
    OBVIOUS
<1> USE DEF TypeInv, TypeOK, ResultsType
<1>1. CASE ReStart
    BY <1>1, CountAssumption DEF ReStart, Goto, ClearsResults, NoResults, TimesInv,
       AheadInv, TicksAddUp, FaultsArePartOfTotal, Running
<1>2. ASSUME TimesKept, clock <= clock', faults <= faults', AheadInv'
      PROVE  TimesInv'
    BY <1>2, TypeNext
    DEF TimesKept, TimesInv, TicksAddUp, FaultsArePartOfTotal
<1>3. CASE ReStartRefused
    BY <1>3, <1>2 DEF ReStartRefused, Goto, counters, TimesKept, TimesInv, AheadInv,
       Running
<1>4. CASE BeginTimeBlock
    BY <1>4, <1>2 DEF BeginTimeBlock, Goto, counters, TimesKept, TimesInv, AheadInv,
       Running
<1>5. CASE EndTimeBlock
  <2>1. PICK d \in BlockTicks, p \in BlockFaults :
            clock' = clock + d /\ faults' = faults + p
      BY <1>5 DEF EndTimeBlock
  <2>2. d \in Nat /\ p \in Nat
      BY ClockAssumption
  <2>3. AheadInv'
      BY <1>5, <2>1, <2>2 DEF EndTimeBlock, Goto, TimesInv, AheadInv, MeasureInv,
         Running
  <2> QED
      BY <1>5, <1>2, <2>1, <2>2, <2>3 DEF EndTimeBlock, TimesKept
<1>6. CASE Report
  <2>1. PICK d \in OtherTicks, p \in BlockFaults :
            clock' = clock + d /\ faults' = faults + p
      BY <1>6 DEF Report
  <2>2. d \in Nat /\ p \in Nat
      BY ClockAssumption
  <2>3. AheadInv'
      BY <1>6, <2>1, <2>2, ReportType DEF Report, Goto, TimesInv, AheadInv, Running
  <2> QED
      BY <1>6, <1>2, <2>1, <2>2, <2>3 DEF Report, TimesKept
<1>7. CASE TickCounts
  <2>1. results' = ResultsCounted /\ m_ticks \in Nat /\ m_page_faults \in Nat
      BY <1>7, TickCountsType, ClockAssumption
  <2>2. AheadInv'
      BY <1>7, <2>1 DEF TickCounts, ResultsCounted, TimesInv, AheadInv, counters,
         Running
  <2>3. /\ results'.min_ticks <= results.min_ticks
        /\ results'.min_ticks <= m_ticks
        /\ results'.max_ticks >= results.max_ticks
        /\ results'.max_ticks >= m_ticks
        /\ results'.test_count = results.test_count + 1
        /\ results'.total_ticks = results.total_ticks + m_ticks
        /\ results'.min_ticks \in Nat /\ results'.max_ticks \in Nat
      BY <2>1 DEF ResultsCounted, IsNewMin
  <2>4. TicksAddUp'
      BY <1>7, <2>2, <2>3, <2>1, ProductStep DEF TimesInv, TicksAddUp, AheadInv
  <2>5. FaultsArePartOfTotal'
      BY <2>1 DEF ResultsCounted, FaultsKept, TimesInv, FaultsArePartOfTotal
  <2> QED
      BY <2>2, <2>4, <2>5 DEF TimesInv
<1>8. CASE TickOffTarget
    BY <1>8, <1>2 DEF TickOffTarget, Goto, counters, TimesKept, TimesInv, AheadInv,
       Running
<1>9. CASE TickInError
    BY <1>9, <1>2 DEF TickInError, Goto, tester, counters, TimesKept, TimesInv,
       AheadInv, Running
<1>10. CASE PrintResults
    BY <1>10, <1>2 DEF PrintResults, NextTest, tester, counters, TimesKept, TimesInv,
       AheadInv, Running, StatesInv
<1>11. CASE DivideByZero
    BY <1>11, <1>2 DEF DivideByZero, Goto, tester, counters, TimesKept, TimesInv,
       AheadInv, Running
<1>12. CASE UNCHANGED vars
    BY <1>12, <1>2 DEF vars, tester, counters, program, TimesKept, TimesInv, AheadInv,
       Running
<1> QED
    BY <1>1, <1>3, <1>4, <1>5, <1>6, <1>7, <1>8, <1>9, <1>10, <1>11, <1>12
    DEF Next, Terminating

(* The minimum, average and maximum that are printed are in that order,    *)
(* the blocks took no more time than the run, and the page faults printed  *)
(* with the extremes belong to counted tests (repetition.hpp 142-203).     *)
THEOREM Times == Spec => []TimesAddUp
<1>1. TimesInv => TimesAddUp
    BY DEF TimesInv, TimesAddUp
<1> QED
    BY TypeInvariant, TimesInit, TimesNext, <1>1, PTL DEF Spec

(***************************************************************************)
(* How long a run lasts.  The start of the wait for a new minimum can only *)
(* be as late as the minimum is low.                                       *)
(***************************************************************************)
Iteration == LongestBlock + LongestRest
Patience == TryRenewFor + Iteration

WaitInv ==
    m_state # "error" =>
        /\ m_test_start_ticks <= clock
        /\ clock - m_test_start_ticks <=
              IF pc \in {"begin", "end"} THEN TryRenewFor
              ELSE IF pc = "report" THEN TryRenewFor + LongestBlock
              ELSE Patience

StartInv ==
    \/ m_test_start_ticks = 0
    \/ /\ results.min_ticks <= LongestBlock
       /\ m_test_start_ticks <= (LongestBlock - results.min_ticks + 1) * Patience

BoundInv == m_state # "error" => WaitInv /\ StartInv

LEMMA PatienceNat == Patience \in Nat /\ Iteration \in Nat
BY CountAssumption, ClockAssumption DEF Patience, Iteration

(* Multiplying by Patience, for a natural number of steps.                 *)
LEMMA Steps ==
    ASSUME NEW a \in Nat, NEW b \in Nat
    PROVE  /\ a < b => a * Patience + Patience <= b * Patience
           /\ a <= b => a * Patience <= b * Patience
           /\ 1 * Patience = Patience
           /\ (a + 2) * Patience = (a + 1) * Patience + Patience
           /\ a * Patience \in Nat
<1>1. \A x \in Nat : /\ a < b => a * x + x <= b * x
                     /\ a <= b => a * x <= b * x
                     /\ 1 * x = x
                     /\ (a + 2) * x = (a + 1) * x + x
                     /\ a * x \in Nat
  <2> TAKE x \in Nat
  <2>1. a < b => (b - a) * x >= x /\ (b - a) * x = b * x - a * x
      OBVIOUS
  <2>2. a <= b => (b - a) * x >= 0 /\ (b - a) * x = b * x - a * x
      OBVIOUS
  <2>3. (a + 2) * x = (a + 1) * x + x /\ 1 * x = x /\ a * x \in Nat /\ b * x \in Nat
      OBVIOUS
  <2> QED
      BY <2>1, <2>2, <2>3
<1> QED
    BY <1>1, PatienceNat

(* A new minimum moves the start by Patience at most and is lower by one   *)
(* at least.                                                               *)
LEMMA RenewalIsPaidFor ==
    ASSUME TypeInv, WaitInv, StartInv, m_state = "active", TickCounts
    PROVE  StartInv'
<1>1. /\ m_ticks \in 0 .. LongestBlock
      /\ results' = ResultsCounted
    BY TickCountsType
<1>2. LongestBlock \in Nat /\ Patience \in Nat
    BY ClockAssumption, PatienceNat
<1>3. CASE ~IsNewMin(m_ticks, results.min_ticks)
  <2>1. m_test_start_ticks' = m_test_start_ticks
      BY <1>3 DEF TickCounts
  <2>2. results'.min_ticks = results.min_ticks
      BY <1>1, <1>3 DEF ResultsCounted
  <2> QED
      BY <2>1, <2>2 DEF StartInv, Patience, Iteration
<1>4. CASE IsNewMin(m_ticks, results.min_ticks)
  <2>1. /\ m_test_start_ticks' = clock
        /\ results'.min_ticks = m_ticks
        /\ m_ticks < results.min_ticks
      BY <1>1, <1>4 DEF TickCounts, ResultsCounted, IsNewMin
  <2>2. clock <= m_test_start_ticks + Patience
      BY <1>2 DEF WaitInv, TypeInv, TypeOK, TickCounts
  <2> DEFINE paid == LongestBlock - m_ticks + 1
  <2>3. paid \in Nat /\ paid >= 1
      BY <1>1, <1>2
  <2>4. CASE m_test_start_ticks = 0
    <3>1. 1 * Patience <= paid * Patience /\ 1 * Patience = Patience
        BY <2>3, Steps
    <3>2. clock <= paid * Patience
        BY <3>1, <2>2, <2>4, <2>3, <1>2 DEF TypeInv, TypeOK
    <3> QED
        BY <3>2, <2>1, <1>1, <1>2 DEF StartInv, Patience, Iteration
  <2>5. CASE m_test_start_ticks # 0
    <3> DEFINE before == LongestBlock - results.min_ticks + 1
    <3>1. before \in Nat /\ before < paid
          /\ m_test_start_ticks <= before * Patience
        BY <2>1, <2>5, <1>1, <1>2 DEF StartInv, TypeInv, TypeOK, ResultsType
    <3>2. before * Patience + Patience <= paid * Patience
          /\ before * Patience \in Nat /\ paid * Patience \in Nat
        BY <3>1, <2>3, Steps
    <3> HIDE DEF before, paid
    <3>3. clock <= paid * Patience
        BY <3>1, <3>2, <2>2, <1>2 DEF TypeInv, TypeOK
    <3> QED
        BY <3>3, <2>1, <1>1, <1>2 DEF paid, StartInv, Patience, Iteration
  <2> QED
      BY <2>4, <2>5
<1> QED
    BY <1>3, <1>4

LEMMA BoundInit == Init => BoundInv
BY PatienceNat, CountAssumption, ClockAssumption
DEF Init, BoundInv, WaitInv, StartInv, Patience, Iteration

LEMMA BoundNext == TypeInv /\ BoundInv /\ [Next]_vars => BoundInv'
<1> SUFFICES ASSUME TypeInv, BoundInv, [Next]_vars, m_state' # "error"
             PROVE  WaitInv' /\ StartInv'
    BY DEF BoundInv
<1>0. /\ TypeInv' /\ Patience \in Nat
      /\ TryRenewFor \in Nat /\ LongestBlock \in Nat /\ LongestRest \in Nat
    BY TypeNext, PatienceNat, CountAssumption, ClockAssumption
<1> USE <1>0 DEF TypeInv, TypeOK, Patience, Iteration
<1>1. CASE ReStart
    BY <1>1 DEF ReStart, Goto, WaitInv, StartInv
<1>2. ASSUME m_state # "error", UNCHANGED <<m_test_start_ticks, results>>
      PROVE  StartInv'
    BY <1>2 DEF BoundInv, StartInv
<1>3. CASE ReStartRefused
    BY <1>3 DEF ReStartRefused
<1>4. CASE BeginTimeBlock
    BY <1>4, <1>2 DEF BeginTimeBlock, Goto, counters, BoundInv, WaitInv
<1>5. CASE EndTimeBlock
  <2>1. clock <= clock' /\ clock' <= clock + LongestBlock
      BY <1>5, ClockAssumption DEF EndTimeBlock
  <2> QED
      BY <1>5, <2>1, <1>2 DEF EndTimeBlock, Goto, BoundInv, WaitInv
<1>6. CASE Report
  <2>1. clock <= clock' /\ clock' <= clock + LongestRest
      BY <1>6, ClockAssumption DEF Report
  <2>2. m_state # "error"
      BY <1>6 DEF Report
  <2> QED
      BY <1>6, <2>1, <2>2, <1>2 DEF Report, Goto, BoundInv, WaitInv
<1>7. CASE TickCounts
  <2>1. m_state = "active" /\ WaitInv /\ StartInv
      BY <1>7 DEF TickCounts, BoundInv
  <2>2. StartInv'
      BY <1>7, <2>1, RenewalIsPaidFor
  <2>3. WaitInv'
      BY <1>7, <2>1 DEF TickCounts, WaitInv, counters
  <2> QED
      BY <2>2, <2>3
<1>8. CASE TickOffTarget
    BY <1>8 DEF TickOffTarget
<1>9. CASE TickInError
    BY <1>9 DEF TickInError, tester
<1>10. CASE PrintResults
    BY <1>10, <1>2 DEF PrintResults, NextTest, tester, counters, BoundInv, WaitInv
<1>11. CASE DivideByZero
    BY <1>11, <1>2 DEF DivideByZero, Goto, tester, counters, BoundInv, WaitInv
<1>12. CASE UNCHANGED vars
    BY <1>12, <1>2 DEF vars, tester, counters, program, BoundInv, WaitInv
<1> QED
    BY <1>1, <1>3, <1>4, <1>5, <1>6, <1>7, <1>8, <1>9, <1>10, <1>11, <1>12
    DEF Next, Terminating

LEMMA BoundSuffices == TypeInv /\ BoundInv => RunIsBounded
<1> SUFFICES ASSUME TypeInv, BoundInv, m_state # "error"
             PROVE  clock <= LongestRun
    BY DEF RunIsBounded
<1>1. LongestBlock \in Nat /\ Patience \in Nat /\ TryRenewFor \in Nat
      /\ LongestRest \in Nat
    BY CountAssumption, ClockAssumption, PatienceNat
<1>2. clock <= m_test_start_ticks + Patience
    BY <1>1 DEF BoundInv, WaitInv, TypeInv, TypeOK, Patience, Iteration
<1>3. m_test_start_ticks <= (LongestBlock + 1) * Patience
  <2>1. CASE m_test_start_ticks = 0
      BY <2>1, <1>1, Steps
  <2>2. CASE m_test_start_ticks # 0
    <3> DEFINE left == LongestBlock - results.min_ticks + 1
    <3>1. left \in Nat /\ left <= LongestBlock + 1
          /\ m_test_start_ticks <= left * Patience
        BY <2>2, <1>1 DEF BoundInv, StartInv, TypeInv, TypeOK, ResultsType
    <3>2. left * Patience <= (LongestBlock + 1) * Patience
          /\ left * Patience \in Nat /\ (LongestBlock + 1) * Patience \in Nat
        BY <3>1, <1>1, Steps
    <3> HIDE DEF left
    <3> QED
        BY <3>1, <3>2 DEF TypeInv, TypeOK
  <2> QED
      BY <2>1, <2>2
<1>4. LongestRun = (LongestBlock + 1) * Patience + Patience
  <2>1. LongestRun = (LongestBlock + 2) * Patience
      BY <1>1 DEF LongestRun, Patience, Iteration
  <2> QED
      BY <2>1, <1>1, Steps
<1> QED
    BY <1>1, <1>2, <1>3, <1>4, Steps DEF TypeInv, TypeOK

(* A run is over after a time bounded by the threshold and by how long the *)
(* tested function and the rest of the loop take (repetition.hpp 186-213). *)
THEOREM Bounded == Spec => []RunIsBounded
BY TypeInvariant, BoundInit, BoundNext, BoundSuffices, PTL DEF Spec

(***************************************************************************)
(* The units of work behind the throughput.                                *)
(***************************************************************************)
LEMMA UnitsInit == Init => UnitsAddUp
BY TargetAssumption DEF Init, NoResults, NoUnits, UnitsAddUp

LEMMA NextCount ==
    ASSUME NEW n \in Nat, NEW t \in Nat
    PROVE  (n + 1) * t = n * t + t /\ n * t \in Nat
OBVIOUS

LEMMA UnitsNext == TypeInv /\ UnitsAddUp /\ [Next]_vars => UnitsAddUp'
<1> SUFFICES ASSUME TypeInv, UnitsAddUp, [Next]_vars PROVE UnitsAddUp'
    OBVIOUS
<1>0. ASSUME UNCHANGED results, m_state = "error" => m_state' = "error"
      PROVE  UnitsAddUp'
    BY <1>0 DEF UnitsAddUp
<1>1. CASE ReStart
    BY <1>1, TargetAssumption
    DEF ReStart, ClearsResults, NoResults, NoUnits, UnitsAddUp
<1>2. CASE ReStartRefused \/ BeginTimeBlock \/ EndTimeBlock \/ Report
    BY <1>2, <1>0 DEF ReStartRefused, BeginTimeBlock, EndTimeBlock, Report
<1>3. CASE TickCounts
  <2> SUFFICES ASSUME NEW u \in Units
               PROVE  results'.total_units[u] = results'.test_count * Target[u]
      BY <1>3, TypeNext, TargetAssumption
      DEF UnitsAddUp, TypeInv, TypeOK, ResultsType
  <2>1. results' = ResultsCounted
      BY <1>3 DEF TickCounts
  <2>2. \A v \in CheckedBefore(u) \cup {u} : OnTarget(v)
      BY <1>3 DEF TickCounts, CheckedBefore, Units
  <2>3. /\ results'.total_units[u] = results.total_units[u] + Target[u]
        /\ results'.test_count = results.test_count + 1
      BY <2>1, <2>2 DEF ResultsCounted, UnitsAdded, OnTarget
  <2>4. results.total_units[u] = results.test_count * Target[u]
      BY <1>3 DEF TickCounts, UnitsAddUp
  <2>5. results.test_count \in Nat /\ Target[u] \in Nat
      BY TargetAssumption DEF TypeInv, TypeOK, ResultsType
  <2> QED
      BY <2>3, <2>4, <2>5, NextCount
<1>4. CASE TickOffTarget
  <2> SUFFICES ASSUME NEW u \in Units
               PROVE  results'.total_units[u] \in
                        {results'.test_count * Target[u],
                         results'.test_count * Target[u] + Target[u]}
      BY <1>4 DEF TickOffTarget, UnitsAddUp
  <2>1. /\ results'.test_count = results.test_count
        /\ results'.total_units[u] \in
              {results.total_units[u], results.total_units[u] + Target[u]}
      BY <1>4 DEF TickOffTarget, UnitsAdded, OnTarget, TypeInv, TypeOK, ResultsType
  <2>2. results.total_units[u] = results.test_count * Target[u]
      BY <1>4 DEF TickOffTarget, UnitsAddUp
  <2> QED
      BY <2>1, <2>2
<1>5. CASE TickInError \/ PrintResults \/ DivideByZero \/ UNCHANGED vars
    BY <1>5, <1>0 DEF TickInError, PrintResults, DivideByZero, vars, tester
<1> QED
    BY <1>1, <1>2, <1>3, <1>4, <1>5 DEF Next, Terminating

(* The units behind the printed throughput are those of the counted tests, *)
(* also when the block that ended the run was off target in one unit only. *)
THEOREM UnitsAccounted == Spec => []UnitsAddUp
BY TypeInvariant, UnitsInit, UnitsNext, PTL DEF Spec

(* Once in error the tester stays in error and the results stay as they    *)
(* are, whatever the program still calls.                                  *)
THEOREM ErrorStays == Spec => ErrorIsFinal
<1>1. ASSUME TypeInv, [Next]_vars
      PROVE  [m_state = "error" => m_state' = "error" /\ results' = results]_vars
  <2> SUFFICES ASSUME m_state = "error", Next
               PROVE  m_state' = "error" /\ results' = results
      BY <1>1
  <2> QED
      BY DEF Next, ReStart, ReStartRefused, BeginTimeBlock, EndTimeBlock, Report,
         TickCounts, TickOffTarget, TickInError, PrintResults, DivideByZero, Terminating,
         vars, tester
<1> QED
    BY TypeInvariant, <1>1, PTL DEF Spec, ErrorIsFinal

(***************************************************************************)
(* The tests that fill a table.                                            *)
(***************************************************************************)

\* A step of the loops is a step of the test or leaves the tester alone.
LEMMA TesterStep == [SeriesNext]_seriesVars => [Next]_vars
<1> SUFFICES ASSUME SeriesNext \/ UNCHANGED seriesVars PROVE Next \/ UNCHANGED vars
    OBVIOUS
<1> QED
    BY DEF SeriesNext, seriesVars, Allocate, set_reptest_series_row_label,
       set_reptest_series_col_label, TestStep, add_reptest_result_to_series,
       DumpAndFree, SeriesTerminating

LEMMA TesterPart == SeriesSpec => Spec
<1>1. SeriesInit => Init
    BY DEF SeriesInit
<1> QED
    BY <1>1, TesterStep, PTL DEF SeriesSpec, Spec

\* The tests of a table print consistent times (repetition.hpp 240-325).
THEOREM TimesInSeries == SeriesSpec => []TimesAddUp
BY TesterPart, Times, PTL

\* ... and consistent units (169-177).
THEOREM UnitsInSeries == SeriesSpec => []UnitsAddUp
BY TesterPart, UnitsAccounted, PTL

\* ... divide by zero only after an error (248),
THEOREM NoCrashInSeries == SeriesSpec => []CrashNeedsError
BY TesterPart, NoCrashWithoutError, PTL

\* ... and are each over after a bounded time (186-209).
THEOREM BoundedInSeries == SeriesSpec => []RunIsBounded
BY TesterPart, Bounded, PTL

---------------------------------------------------------------------------
(* Rows and columns.                                                       *)

\* A product grows with its factor.
LEMMA ProductGrows ==
    ASSUME NEW a \in Int, NEW b \in Int, a <= b, NEW n \in Nat
    PROVE  a * n <= b * n
<1>1. (b - a) * n >= 0
    OBVIOUS
<1>2. (b - a) * n = b * n - a * n
    OBVIOUS
<1> QED
    BY <1>1, <1>2

\* A place is left of a row's end.
LEMMA PlaceInside ==
    ASSUME NEW n \in Nat \ {0}, NEW q \in Nat, NEW r \in 0 .. n - 1,
           NEW p \in Nat, NEW s \in 0 .. n - 1, q * n + r = p * n + s
    PROVE  q = p /\ r = s
<1>1. CASE q < p
    <2>1. (q + 1) * n <= p * n
        BY <1>1, ProductGrows
    <2>2. (q + 1) * n = q * n + n
        OBVIOUS
    <2> QED
        BY <2>1, <2>2
<1>2. CASE p < q
    <2>1. (p + 1) * n <= q * n
        BY <1>2, ProductGrows
    <2>2. (p + 1) * n = p * n + n
        OBVIOUS
    <2> QED
        BY <2>1, <2>2
<1>3. CASE p = q
    BY <1>3
<1> QED
    BY <1>1, <1>2, <1>3

LEMMA DivisionOf ==
    ASSUME NEW n \in Nat \ {0}, NEW a \in Nat
    PROVE  /\ a \div n \in Nat /\ a % n \in 0 .. n - 1
           /\ a = (a \div n) * n + (a % n)
OBVIOUS

LEMMA DivisionIs ==
    ASSUME NEW n \in Nat \ {0}, NEW q \in Nat, NEW r \in 0 .. n - 1
    PROVE  (q * n + r) \div n = q /\ (q * n + r) % n = r
<1> DEFINE a == q * n + r
<1>1. a \in Nat
    <2>1. q * n \in Nat
        OBVIOUS
    <2> QED
        BY <2>1
<1>2. a \div n \in Nat /\ a % n \in 0 .. n - 1 /\ a = (a \div n) * n + (a % n)
    BY <1>1, DivisionOf
<1> HIDE DEF a
<1>3. a = q * n + r
    BY DEF a
<1>4. q = a \div n /\ r = a % n
    BY <1>2, <1>3, PlaceInside
<1> QED
    BY <1>4 DEF a

---------------------------------------------------------------------------
(* The table.  Added is how many results it holds; its two cursors, the    *)
(* number of the test and the number of reports all tell the same place.   *)

BestType == [min_ticks : Nat, min_test_page_faults : Nat]
Slots == 0 .. (MaxRows * Cols - 1)
TableType ==
    [membuf : BOOLEAN, current_row : 0 .. Rows, current_col : 0 .. Cols,
     row_labels : [1 .. MaxRows -> Nat], col_labels : [1 .. Cols -> Nat],
     results : [Slots -> BestType]]

Filling == {"row", "column", "test", "add", "dump"}
InCell == {"test", "add"}

Added == Len(reports) - (IF step = "add" THEN 1 ELSE 0)

\* The cell of the table that is about to be filled, counted row by row.
PlaceInv ==
    /\ series.current_row \in 0 .. Rows /\ series.current_col \in 0 .. Cols
    /\ step # "row" => series.current_row > 0
    /\ step \in {"row", "dump"} => series.current_col = Cols
    /\ step = "column" => series.current_col < Cols
    /\ step \in InCell => series.current_col > 0
    /\ step = "dump" => series.current_row = Rows
    /\ Added = (series.current_row - 1) * Cols + series.current_col
                - (IF step \in InCell THEN 1 ELSE 0)

TestInv ==
    /\ step \in {"row", "column"} => pc = "restart"
    /\ step \in {"row", "column", "test"} => test = Added + 1
    /\ step = "test" => pc # "done"
    /\ step = "add" =>
        /\ pc \in {"restart", "done"}
        /\ test = IF pc = "done" THEN Added + 1 ELSE Added + 2
        /\ pc = "done" => test = Tests
        /\ reports[Added + 1] = Best

LabelInv ==
    /\ \A i \in 1 .. series.current_row : series.row_labels[i] = i
    /\ \A j \in 1 .. Cols :
          (series.current_row > 0 /\ (series.current_row = 1 => j <= series.current_col))
          => series.col_labels[j] = j

ContentInv ==
    \A k \in 0 .. Added - 1 : series.results[k] = reports[k + 1]

TableInv ==
    /\ step \in Filling \cup {"allocate", "done", "aborted"}
    /\ reports \in Seq(BestType)
    /\ step = "allocate" => pc = "restart" /\ test = 1 /\ reports = <<>> /\ series = NoSeries
    /\ step \in Filling =>
        series \in TableType /\ PlaceInv /\ TestInv /\ LabelInv /\ ContentInv
    /\ TableIsAsReported

(* The fields of a table, and of one that has been written to.             *)
LEMMA RowWritten ==
    ASSUME NEW s \in TableType, NEW n \in 1 .. Rows
    PROVE  LET t == [s EXCEPT !.row_labels[n] = n, !.current_row = n, !.current_col = 0]
           IN  /\ t \in TableType
               /\ t.current_row = n /\ t.current_col = 0
               /\ t.row_labels = [s.row_labels EXCEPT ![n] = n]
               /\ t.col_labels = s.col_labels /\ t.results = s.results
<1>1. [s.row_labels EXCEPT ![n] = n] \in [1 .. MaxRows -> Nat]
    BY TableAssumption DEF TableType
<1>2. n \in 0 .. Rows /\ 0 \in 0 .. Cols
    BY TableAssumption
<1> QED
    BY <1>1, <1>2 DEF TableType

LEMMA ColWritten ==
    ASSUME NEW s \in TableType, NEW n \in 1 .. Cols
    PROVE  LET t == [s EXCEPT !.col_labels[n] = n, !.current_col = n]
           IN  /\ t \in TableType
               /\ t.current_row = s.current_row /\ t.current_col = n
               /\ t.row_labels = s.row_labels
               /\ t.col_labels = [s.col_labels EXCEPT ![n] = n]
               /\ t.results = s.results
<1>1. [s.col_labels EXCEPT ![n] = n] \in [1 .. Cols -> Nat]
    BY TableAssumption DEF TableType
<1>2. n \in 0 .. Cols
    BY TableAssumption
<1> QED
    BY <1>1, <1>2 DEF TableType

LEMMA ResultWritten ==
    ASSUME NEW s \in TableType, NEW n \in Slots, NEW b \in BestType
    PROVE  LET t == [s EXCEPT !.results[n] = b]
           IN  /\ t \in TableType
               /\ t.current_row = s.current_row /\ t.current_col = s.current_col
               /\ t.row_labels = s.row_labels /\ t.col_labels = s.col_labels
               /\ t.results = [s.results EXCEPT ![n] = b]
<1>1. [s.results EXCEPT ![n] = b] \in [Slots -> BestType]
    BY DEF TableType
<1> QED
    BY <1>1 DEF TableType

LEMMA BestTyped == TypeOK => Best \in BestType
BY DEF TypeOK, ResultsType, Best, BestType

LEMMA TableInit == SeriesInit => TableInv
BY DEF SeriesInit, Init, TableInv, TableIsAsReported, Filling

\* The number of a cell, and the row and column that are computed from it.
LEMMA CellNumber ==
    ASSUME NEW q \in Nat, NEW r \in 0 .. Cols - 1, test = q * Cols + r + 1
    PROVE  Row = q + 1 /\ Col = r + 1
<1>1. q * Cols + r = test - 1
    <2>1. q * Cols \in Nat
        BY TableAssumption
    <2> QED
        BY <2>1
<1>2. (q * Cols + r) \div Cols = q /\ (q * Cols + r) % Cols = r
    BY DivisionIs, TableAssumption
<1> QED
    BY <1>1, <1>2 DEF Row, Col

LEMMA RowLeft ==
    ASSUME NEW q \in Nat, q * Cols < Rows * Cols
    PROVE  q < Rows
<1>1. Rows <= q => Rows * Cols <= q * Cols
    BY ProductGrows, TableAssumption
<1> QED
    BY <1>1, TableAssumption

LEMMA AllocateKeeps ==
    ASSUME TableInv, Allocate
    PROVE  TableInv'
<1> USE TableAssumption
<1>1. CASE step' = "aborted"
    BY <1>1 DEF Allocate, TableInv, TableIsAsReported, Filling
<1>2. CASE step' = "row" /\ series' = [allocate_reptest_series EXCEPT !.current_col = Cols]
    <2> DEFINE s == series'
    <2>1. reports' = <<>> /\ test' = 1 /\ pc' = "restart"
        BY <1>2 DEF Allocate, TableInv, vars, program
    <2>2. s \in TableType
        <3>1. [k \in Slots |-> NoBest] \in [Slots -> BestType]
            BY DEF NoBest, BestType
        <3>2. [i \in 1 .. MaxRows |-> 0] \in [1 .. MaxRows -> Nat]
            OBVIOUS
        <3>3. [j \in 1 .. Cols |-> 0] \in [1 .. Cols -> Nat]
            OBVIOUS
        <3>4. s = [membuf |-> TRUE, current_row |-> 0, current_col |-> Cols,
                   row_labels |-> [i \in 1 .. MaxRows |-> 0],
                   col_labels |-> [j \in 1 .. Cols |-> 0],
                   results |-> [k \in Slots |-> NoBest]]
            BY <1>2 DEF allocate_reptest_series, Slots
        <3>5. 0 \in 0 .. Rows /\ Cols \in 0 .. Cols
            OBVIOUS
        <3> QED
            BY <3>1, <3>2, <3>3, <3>4, <3>5 DEF TableType
    <2>3. s.current_row = 0 /\ s.current_col = Cols
        BY <1>2 DEF allocate_reptest_series
    <2>4. Added' = 0
        BY <2>1, <1>2 DEF Added
    <2>5. PlaceInv'
        BY <2>3, <2>4, <1>2 DEF PlaceInv, InCell
    <2>6. TestInv' /\ LabelInv' /\ ContentInv'
        BY <2>1, <2>3, <2>4, <1>2 DEF TestInv, LabelInv, ContentInv
    <2> QED
        BY <1>2, <2>1, <2>2, <2>5, <2>6 DEF TableInv, TableIsAsReported, Filling
<1> QED
    BY <1>1, <1>2 DEF Allocate

LEMMA RowKeeps ==
    ASSUME TableInv, TypeOK, set_reptest_series_row_label
    PROVE  TableInv'
<1> USE TableAssumption
<1> DEFINE r == series.current_row
<1>1. /\ series \in TableType /\ PlaceInv /\ TestInv /\ LabelInv /\ ContentInv
      /\ reports \in Seq(BestType) /\ step = "row"
    BY DEF TableInv, Filling, set_reptest_series_row_label
<1>2. r \in 0 .. Rows /\ series.current_col = Cols /\ Added = r * Cols
    <2>1. r \in 0 .. Rows /\ series.current_col = Cols /\ Added = (r - 1) * Cols + Cols
        BY <1>1 DEF PlaceInv, InCell
    <2>2. (r - 1) * Cols + Cols = r * Cols
        BY <2>1
    <2> QED
        BY <2>1, <2>2
<1>3. test = r * Cols + 0 + 1
    BY <1>1, <1>2 DEF TestInv
<1>4. r < Rows
    <2>1. r * Cols < Rows * Cols
        BY <1>2, <1>3 DEF TypeOK
    <2> QED
        BY <2>1, <1>2, RowLeft
<1>5. Row = r + 1
    <2>1. \A x \in 0 .. Cols - 1 : test = r * Cols + x + 1 => Row = r + 1
        <3>1. r \in Nat
            BY <1>2
        <3> HIDE DEF r
        <3> QED
            BY <3>1, CellNumber
    <2> QED
        BY <1>2, <1>3, <2>1
<1>6. RowFits
    BY <1>2, <1>4 DEF RowFits
<1>7. /\ series' = [series EXCEPT !.row_labels[r + 1] = r + 1,
                                  !.current_row = r + 1, !.current_col = 0]
      /\ step' = "column" /\ reports' = reports /\ test' = test /\ pc' = pc
    BY <1>1, <1>5, <1>6 DEF set_reptest_series_row_label, Asserted, GoesOn, vars, program, TableType
<1>8. r + 1 \in 1 .. Rows
    BY <1>2, <1>4
<1>9. /\ series' \in TableType
      /\ series'.current_row = r + 1 /\ series'.current_col = 0
      /\ series'.row_labels = [series.row_labels EXCEPT ![r + 1] = r + 1]
      /\ series'.col_labels = series.col_labels
      /\ series'.results = series.results
    <2> HIDE DEF r
    <2>1. \A n \in 1 .. Rows :
            n = r + 1 =>
              series' = [series EXCEPT !.row_labels[n] = n, !.current_row = n, !.current_col = 0]
        BY <1>7
    <2>2. PICK n \in 1 .. Rows : n = r + 1
        BY <1>8
    <2>3. series' = [series EXCEPT !.row_labels[n] = n, !.current_row = n, !.current_col = 0]
        BY <2>1, <2>2
    <2>4. series \in TableType
        BY <1>1
    <2>5. /\ series' \in TableType
          /\ series'.current_row = n /\ series'.current_col = 0
          /\ series'.row_labels = [series.row_labels EXCEPT ![n] = n]
          /\ series'.col_labels = series.col_labels
          /\ series'.results = series.results
        BY <2>3, <2>4, RowWritten
    <2> QED
        BY <2>2, <2>5
<1>10. Added' = Added
    BY <1>1, <1>7 DEF Added
<1>11. PlaceInv'
    BY <1>2, <1>4, <1>7, <1>9, <1>10 DEF PlaceInv, InCell
<1>12. TestInv'
    BY <1>1, <1>7, <1>10 DEF TestInv
<1>13. LabelInv'
    <2>1. ASSUME NEW i \in 1 .. r + 1
          PROVE  series'.row_labels[i] = i
        <3>1. CASE i = r + 1
            BY <1>1, <1>2, <1>4, <1>9, <3>1 DEF TableType
        <3>2. CASE i # r + 1
            <4>1. series.row_labels[i] = i
                BY <1>1, <1>2, <3>2 DEF LabelInv
            <4> QED
                BY <1>1, <1>9, <3>2, <4>1 DEF TableType
        <3> QED
            BY <3>1, <3>2
    <2>2. ASSUME NEW j \in 1 .. Cols, r + 1 = 1 => j <= 0
          PROVE  series.col_labels[j] = j
        BY <1>1, <1>2, <2>2 DEF LabelInv
    <2> QED
        BY <1>2, <1>9, <2>1, <2>2 DEF LabelInv
<1>14. ContentInv'
    BY <1>1, <1>7, <1>9, <1>10 DEF ContentInv
<1> QED
    BY <1>1, <1>7, <1>9, <1>11, <1>12, <1>13, <1>14 DEF TableInv, TableIsAsReported, Filling

LEMMA ColKeeps ==
    ASSUME TableInv, TypeOK, set_reptest_series_col_label
    PROVE  TableInv'
<1> USE TableAssumption
<1> DEFINE r == series.current_row
           c == series.current_col
<1>1. /\ series \in TableType /\ PlaceInv /\ TestInv /\ LabelInv /\ ContentInv
      /\ reports \in Seq(BestType) /\ step = "column"
    BY DEF TableInv, Filling, set_reptest_series_col_label
<1>2. r \in 1 .. Rows /\ c \in 0 .. Cols - 1 /\ Added = (r - 1) * Cols + c
    BY <1>1 DEF PlaceInv, InCell
<1>3. test = (r - 1) * Cols + c + 1 /\ r - 1 \in Nat
    BY <1>1, <1>2 DEF TestInv
<1>4. Col = c + 1
    BY <1>2, <1>3, CellNumber
<1>5. ColFits
    BY <1>2 DEF ColFits
<1>6. /\ series' = [series EXCEPT !.col_labels[c + 1] = c + 1, !.current_col = c + 1]
      /\ step' = "test" /\ reports' = reports /\ test' = test /\ pc' = pc
    BY <1>1, <1>4, <1>5 DEF set_reptest_series_col_label, Asserted, GoesOn, vars, program, TableType
<1>7. c + 1 \in 1 .. Cols
    BY <1>2
<1>8. /\ series' \in TableType
      /\ series'.current_row = r /\ series'.current_col = c + 1
      /\ series'.row_labels = series.row_labels
      /\ series'.col_labels = [series.col_labels EXCEPT ![c + 1] = c + 1]
      /\ series'.results = series.results
    BY <1>1, <1>6, <1>7, ColWritten
<1>9. Added' = Added
    BY <1>1, <1>6 DEF Added
<1>10. PlaceInv'
    BY <1>2, <1>6, <1>8, <1>9 DEF PlaceInv, InCell
<1>11. TestInv'
    BY <1>1, <1>6, <1>9 DEF TestInv
<1>12. LabelInv'
    <2>1. ASSUME NEW j \in 1 .. Cols, r = 1 => j <= c + 1
          PROVE  series'.col_labels[j] = j
        <3>1. CASE j = c + 1
            BY <1>1, <1>2, <1>8, <3>1 DEF TableType
        <3>2. CASE j # c + 1
            <4>1. series.col_labels[j] = j
                <5>1. j <= c \/ r > 1
                    <6> HIDE DEF r, c
                    <6> QED
                        BY <1>2, <2>1, <3>2
                <5> QED
                    BY <1>1, <1>2, <5>1 DEF LabelInv
            <4> QED
                BY <1>1, <1>8, <3>2, <4>1 DEF TableType
        <3> QED
            BY <3>1, <3>2
    <2> QED
        BY <1>1, <1>2, <1>8, <2>1 DEF LabelInv
<1>13. ContentInv'
    BY <1>1, <1>6, <1>8, <1>9 DEF ContentInv
<1> QED
    BY <1>1, <1>6, <1>8, <1>10, <1>11, <1>12, <1>13 DEF TableInv, TableIsAsReported, Filling

\* A step of a test; when it prints, the table waits for its result.
LEMMA TestKeeps ==
    ASSUME TableInv, TypeOK, TypeOK', TestStep
    PROVE  TableInv'
<1> USE TableAssumption
<1> DEFINE r == series.current_row
           c == series.current_col
<1>1. /\ series \in TableType /\ PlaceInv /\ TestInv /\ LabelInv /\ ContentInv
      /\ reports \in Seq(BestType) /\ step = "test" /\ series' = series
    BY DEF TableInv, Filling, TestStep
<1>2. r \in 1 .. Rows /\ c \in 1 .. Cols /\ Added = (r - 1) * Cols + c - 1
    BY <1>1 DEF PlaceInv, InCell
<1>3. CASE pc = "print" /\ pc' # "crashed"
    <2>1. step' = "add" /\ reports' = Append(reports, Best)
        BY <1>3 DEF TestStep
    <2>2. PrintResults
        BY <1>3 DEF TestStep, Next, ReStart, ReStartRefused, BeginTimeBlock,
           EndTimeBlock, Report, TickCounts, TickOffTarget, TickInError,
           DivideByZero, Terminating, Goto
    <2>3. Best' = Best
        BY <2>2 DEF PrintResults, Best
    <2>4. /\ reports' \in Seq(BestType) /\ Len(reports') = Len(reports) + 1
          /\ reports'[Len(reports) + 1] = Best
          /\ \A k \in 1 .. Len(reports) : reports'[k] = reports[k]
        BY <1>1, <2>1, BestTyped
    <2>5. Added' = Added /\ Added = Len(reports)
        BY <1>1, <2>1, <2>4 DEF Added
    <2>6. PlaceInv'
        BY <1>1, <1>2, <2>1, <2>5 DEF PlaceInv, InCell
    <2>7. TestInv'
        <3>1. test = Added + 1
            BY <1>1 DEF TestInv
        <3>2. /\ pc' \in {"restart", "done"}
              /\ test' = IF pc' = "done" THEN test ELSE test + 1
              /\ pc' = "done" => test' = Tests
            BY <2>2 DEF PrintResults, NextTest, TypeOK
        <3>3. test \in Nat
            BY DEF TypeOK
        <3> QED
            BY <2>1, <2>3, <2>4, <2>5, <3>1, <3>2, <3>3 DEF TestInv
    <2>8. LabelInv'
        BY <1>1 DEF LabelInv
    <2>9. ContentInv'
        BY <1>1, <2>4, <2>5 DEF ContentInv
    <2> QED
        BY <1>1, <2>1, <2>4, <2>6, <2>7, <2>8, <2>9 DEF TableInv, TableIsAsReported, Filling
<1>4. CASE ~(pc = "print" /\ pc' # "crashed")
    <2>1. step' = step /\ reports' = reports
        BY <1>4 DEF TestStep
    <2>2. pc' # "done" /\ test' = test
        <3>1. pc # "done"
            BY <1>1 DEF TestInv
        <3> QED
            BY <3>1, <1>4 DEF TestStep, Next, ReStart, ReStartRefused, BeginTimeBlock,
               EndTimeBlock, Report, TickCounts, TickOffTarget, TickInError,
               PrintResults, NextTest, DivideByZero, Terminating, Goto, vars, program
    <2>3. Added' = Added
        BY <2>1 DEF Added
    <2>4. PlaceInv' /\ LabelInv' /\ ContentInv'
        BY <1>1, <2>1, <2>3 DEF PlaceInv, LabelInv, ContentInv
    <2>5. TestInv'
        BY <1>1, <2>1, <2>2, <2>3 DEF TestInv
    <2> QED
        BY <1>1, <2>1, <2>4, <2>5 DEF TableInv, TableIsAsReported, Filling
<1> QED
    BY <1>3, <1>4

\* Where a result goes is the cell it was counted to.
LEMMA SlotIsNext ==
    ASSUME TableInv, step = "add"
    PROVE  Slot = Added /\ Slot \in Slots
<1> USE TableAssumption
<1> DEFINE r == series.current_row
           c == series.current_col
<1>1. PlaceInv
    BY DEF TableInv, Filling
<1>2. r \in 1 .. Rows /\ c \in 1 .. Cols /\ Added = (r - 1) * Cols + c - 1
    BY <1>1 DEF PlaceInv, InCell
<1>3. 0 <= (r - 1) * Cols
    BY <1>2
<1>4. (r - 1) * Cols <= (MaxRows - 1) * Cols
    BY <1>2, ProductGrows
<1>5. (MaxRows - 1) * Cols = MaxRows * Cols - Cols
    OBVIOUS
<1> HIDE DEF r, c
<1>6. Slot = (r - 1) * Cols + c - 1
    BY DEF Slot, r, c
<1> DEFINE p == (r - 1) * Cols
           m == MaxRows * Cols
<1>7. p \in Int /\ m \in Int
    BY <1>2
<1> HIDE DEF p, m
<1>8. 0 <= p /\ p <= m - Cols /\ Slot = p + c - 1 /\ Added = p + c - 1
    BY <1>2, <1>3, <1>4, <1>5, <1>6 DEF p, m
<1>9. p + c - 1 \in 0 .. m - 1
    BY <1>2, <1>7, <1>8
<1> QED
    BY <1>8, <1>9 DEF Slots, m

LEMMA AddKeeps ==
    ASSUME TableInv, TypeOK, add_reptest_result_to_series
    PROVE  TableInv'
<1> USE TableAssumption
<1> DEFINE r == series.current_row
           c == series.current_col
<1>1. /\ series \in TableType /\ PlaceInv /\ TestInv /\ LabelInv /\ ContentInv
      /\ reports \in Seq(BestType) /\ step = "add"
    BY DEF TableInv, Filling, add_reptest_result_to_series
<1>2. r \in 1 .. Rows /\ c \in 1 .. Cols /\ Added = (r - 1) * Cols + c - 1
    BY <1>1 DEF PlaceInv, InCell
<1>3. SlotFits
    BY <1>2 DEF SlotFits
<1>4. /\ series' = [series EXCEPT !.results[Slot] = Best]
      /\ step' = NextStep /\ reports' = reports /\ test' = test /\ pc' = pc
    BY <1>3 DEF add_reptest_result_to_series, Asserted, GoesOn, vars, program
<1>5. /\ series' \in TableType
      /\ series'.current_row = r /\ series'.current_col = c
      /\ series'.row_labels = series.row_labels
      /\ series'.col_labels = series.col_labels
      /\ series'.results = [series.results EXCEPT ![Slot] = Best]
    <2>1. PICK n \in Slots : n = Slot
        BY <1>1, SlotIsNext
    <2>2. series' = [series EXCEPT !.results[n] = Best]
        BY <1>4, <2>1
    <2>3. series \in TableType /\ Best \in BestType
        BY <1>1, BestTyped
    <2>4. /\ series' \in TableType
          /\ series'.current_row = r /\ series'.current_col = c
          /\ series'.row_labels = series.row_labels
          /\ series'.col_labels = series.col_labels
          /\ series'.results = [series.results EXCEPT ![n] = Best]
        BY <2>2, <2>3, ResultWritten
    <2> QED
        BY <2>1, <2>4
<1>6. /\ Slot = Added /\ Slot \in Slots
      /\ Added = Len(reports) - 1 /\ Added \in Nat
    BY <1>1, SlotIsNext DEF Added, Slots
\* Which cell is next.
<1>7. ASSUME pc = "done"
      PROVE  step' = "dump" /\ r = Rows /\ c = Cols
    <2>1. Tests = (r - 1) * Cols + c
        <3>1. Tests = Added + 1
            BY <1>1, <1>7 DEF TestInv
        <3> DEFINE p == (r - 1) * Cols
        <3>2. p \in Int /\ c \in Int /\ Added = p + c - 1
            BY <1>2
        <3> HIDE DEF p, r, c
        <3>3. Tests = p + c
            BY <3>1, <3>2
        <3> QED
            BY <3>3 DEF p
    <2>2. (r - 1) * Cols + (c - 1) = (Rows - 1) * Cols + (Cols - 1)
        BY <1>2, <2>1
    <2>3. /\ r - 1 \in Nat /\ c - 1 \in 0 .. Cols - 1
          /\ Rows - 1 \in Nat /\ Cols - 1 \in 0 .. Cols - 1
        BY <1>2
    <2>4. r - 1 = Rows - 1 /\ c - 1 = Cols - 1
        <3> HIDE DEF r, c
        <3> QED
            BY <2>2, <2>3, PlaceInside
    <2>5. step' = "dump"
        BY <1>4, <1>7 DEF NextStep
    <2> HIDE DEF r, c
    <2> QED
        BY <1>2, <2>4, <2>5
<1>8. ASSUME pc = "restart"
      PROVE  \/ step' = "row" /\ c = Cols
             \/ step' = "column" /\ c < Cols
    <2>1. test = (r - 1) * Cols + c + 1
        <3>1. test = Added + 2
            BY <1>1, <1>8 DEF TestInv
        <3> DEFINE p == (r - 1) * Cols
        <3>2. p \in Int /\ c \in Int /\ Added = p + c - 1
            BY <1>2
        <3> HIDE DEF p, r, c
        <3>3. test = p + c + 1
            BY <3>1, <3>2
        <3> QED
            BY <3>3 DEF p
    <2>2. CASE c = Cols
        <3>1. test = r * Cols + 0 + 1
            BY <1>2, <2>1, <2>2
        <3>2. \A x \in 0 .. Cols - 1 : test = r * Cols + x + 1 => Col = x + 1
            <4>1. r \in Nat
                BY <1>2
            <4> HIDE DEF r
            <4> QED
                BY <4>1, CellNumber
        <3>3. Col = 1
            BY <1>2, <3>1, <3>2
        <3> QED
            BY <1>4, <1>8, <2>2, <3>3 DEF NextStep
    <2>3. CASE c # Cols
        <3>1. r - 1 \in Nat /\ c \in 0 .. Cols - 1
            <4> HIDE DEF r, c
            <4> QED
                BY <1>2, <2>3
        <3>2. Col = c + 1
            <4> HIDE DEF r, c
            <4> QED
                BY <2>1, <3>1, CellNumber
        <3> QED
            BY <1>2, <1>4, <1>8, <2>3, <3>2 DEF NextStep
    <2> QED
        BY <2>2, <2>3
<1>9. pc \in {"restart", "done"}
    BY <1>1 DEF TestInv
<1>10. step' \in {"dump", "row", "column"}
    BY <1>7, <1>8, <1>9
<1>11. Added' = Added + 1
    BY <1>1, <1>4, <1>6, <1>10 DEF Added
<1>12. PlaceInv'
    BY <1>2, <1>5, <1>7, <1>8, <1>9, <1>11 DEF PlaceInv, InCell
<1>13. TestInv'
    BY <1>1, <1>4, <1>6, <1>7, <1>8, <1>9, <1>11 DEF TestInv
<1>14. LabelInv'
    BY <1>1, <1>5 DEF LabelInv
<1>15. ContentInv'
    <2>1. ASSUME NEW k \in 0 .. Added
          PROVE  series'.results[k] = reports[k + 1]
        <3>1. CASE k = Added
            BY <1>1, <1>5, <1>6, <3>1 DEF TestInv, TableType
        <3>2. CASE k # Added
            <4>1. series.results[k] = reports[k + 1]
                BY <1>1, <1>6, <3>2 DEF ContentInv
            <4> QED
                BY <1>1, <1>5, <1>6, <3>2, <4>1 DEF TableType
        <3> QED
            BY <3>1, <3>2
    <2> QED
        BY <1>4, <1>6, <1>11, <2>1 DEF ContentInv
<1> QED
    BY <1>1, <1>4, <1>5, <1>10, <1>12, <1>13, <1>14, <1>15
    DEF TableInv, TableIsAsReported, Filling

\* The lines of the dump.
LEMMA DumpKeeps ==
    ASSUME TableInv, DumpAndFree
    PROVE  TableInv'
<1> USE TableAssumption
<1>1. /\ series \in TableType /\ PlaceInv /\ TestInv /\ LabelInv /\ ContentInv
      /\ reports \in Seq(BestType) /\ step = "dump"
    BY DEF TableInv, Filling, DumpAndFree
<1>2. /\ series.current_row = Rows /\ series.current_col = Cols
      /\ Added = (Rows - 1) * Cols + Cols
    BY <1>1 DEF PlaceInv, InCell
<1>3. /\ step' = "done" /\ reports' = reports
      /\ dumped' = <<series.col_labels>> \o DumpedLines
    BY <1>2 DEF DumpAndFree, Asserted, GoesOn
<1>4. series.col_labels = [j \in 1 .. Cols |-> j]
    <2>1. series.col_labels \in [1 .. Cols -> Nat]
        BY <1>1 DEF TableType
    <2>2. \A j \in 1 .. Cols : series.col_labels[j] = j
        BY <1>1, <1>2 DEF LabelInv
    <2> QED
        BY <2>1, <2>2
<1>5. DumpedLines =
        [i \in 1 .. Rows |->
            [label |-> series.row_labels[i],
             values |-> [j \in 1 .. Cols |-> series.results[(i - 1) * Cols + j - 1]]]]
    BY <1>2 DEF DumpedLines
<1>6. /\ Len(dumped') = Rows + 1 /\ dumped'[1] = series.col_labels
      /\ \A i \in 1 .. Rows : dumped'[i + 1] = DumpedLines[i]
    <2> DEFINE Line(i) ==
            [label |-> series.row_labels[i],
             values |-> [j \in 1 .. Cols |-> series.results[(i - 1) * Cols + j - 1]]]
    <2>1. DumpedLines = [i \in 1 .. Rows |-> Line(i)]
        BY <1>5
    <2> HIDE DEF Line
    <2>2. DumpedLines \in Seq({Line(i) : i \in 1 .. Rows}) /\ Len(DumpedLines) = Rows
        BY <2>1
    <2> QED
        BY <1>3, <2>2
<1>7. ASSUME NEW i \in 1 .. Rows
      PROVE  /\ dumped'[i + 1].label = i
             /\ \A j \in 1 .. Cols :
                   dumped'[i + 1].values[j] = reports[(i - 1) * Cols + j]
    <2>1. dumped'[i + 1].label = i
        <3>1. DumpedLines[i].label = series.row_labels[i]
            BY <1>5
        <3>2. dumped'[i + 1].label = series.row_labels[i]
            BY <1>6, <3>1
        <3> QED
            BY <1>1, <1>2, <3>2 DEF LabelInv
    <2>2. ASSUME NEW j \in 1 .. Cols
          PROVE  dumped'[i + 1].values[j] = reports[(i - 1) * Cols + j]
        <3> DEFINE k == (i - 1) * Cols + j - 1
        <3>1. k \in 0 .. Added - 1
            <4> DEFINE p == (i - 1) * Cols
                       q == (Rows - 1) * Cols
            <4>1. p \in Int /\ q \in Int /\ 0 <= p
                OBVIOUS
            <4>2. p <= q
                BY ProductGrows
            <4> HIDE DEF p, q
            <4>3. k = p + j - 1 /\ Added = q + Cols
                BY <1>2 DEF p, q
            <4> HIDE DEF k
            <4> QED
                BY <4>1, <4>2, <4>3
        <3>2. k + 1 = (i - 1) * Cols + j
            OBVIOUS
        <3>3. dumped'[i + 1].values[j] = series.results[k]
            <4>1. dumped'[i + 1] = DumpedLines[i]
                BY <1>6
            <4>2. DumpedLines[i].values =
                    [m \in 1 .. Cols |-> series.results[(i - 1) * Cols + m - 1]]
                BY <1>5
            <4> QED
                BY <4>1, <4>2
        <3> HIDE DEF k
        <3>4. series.results[k] = reports[k + 1]
            BY <1>1, <3>1 DEF ContentInv
        <3> QED
            BY <3>2, <3>3, <3>4
    <2> QED
        BY <2>1, <2>2
<1>8. TableIsAsReported'
    BY <1>3, <1>4, <1>6, <1>7 DEF TableIsAsReported
<1> QED
    BY <1>1, <1>3, <1>8 DEF TableInv, Filling

LEMMA TableNext ==
    ASSUME TableInv, TypeOK, TypeOK', [SeriesNext]_seriesVars
    PROVE  TableInv'
<1>1. CASE UNCHANGED seriesVars
    BY <1>1 DEF seriesVars, table, vars, program, TableInv, TableIsAsReported, PlaceInv,
       TestInv, LabelInv, ContentInv, Added, Best
<1> QED
    BY <1>1, AllocateKeeps, RowKeeps, ColKeeps, TestKeeps, AddKeeps, DumpKeeps
    DEF SeriesNext, SeriesTerminating

(* The table that is dumped has every result in its place, under its       *)
(* labels, and no assertion but the first can fail, for every number of    *)
(* rows and columns (repetition.hpp 420, 434-436, 449-450, 462-499).       *)
THEOREM TableCorrect == SeriesSpec => []TableIsAsReported
<1>1. TableInv => TableIsAsReported
    BY DEF TableInv
<1> QED
    BY TableInit, TableNext, TesterPart, TypeCorrect, <1>1, PTL DEF SeriesSpec
===========================================================================
