--------------------------- MODULE ReptestSeries ---------------------------
(***************************************************************************)
(* The table that a series of repetition tests fills                       *)
(* (Common/repetition.hpp 356-516), and the loop over rows and columns     *)
(* around it (HaversineMathTests/dependency_chains.cpp 361-383):           *)
(*                                                                         *)
(*   allocate; label the table                                             *)
(*   for each row                                                          *)
(*     label the row                                                       *)
(*     for each column                                                     *)
(*       label the column; run the test; add its results to the table      *)
(*   dump the table; free it                                               *)
(*                                                                         *)
(* The tests are those of RepetitionTester, numbered row by row: one       *)
(* tester and one results record serve them all, and the table keeps       *)
(* copies.  Of a copy, the dump looks at the fastest test only.            *)
(***************************************************************************)
EXTENDS RepetitionTester, Sequences

CONSTANTS
    Rows, Cols,     \* what the loops go over
    MaxRows         \* max_row_count

ASSUME TableAssumption ==
    /\ Rows \in Nat \ {0} /\ Cols \in Nat \ {0}
    /\ MaxRows \in Nat /\ Rows <= MaxRows
    /\ Tests = Rows * Cols

VARIABLES
    series,     \* repetition_test_series_t
    step,       \* where the loop around the table is
    dumped,     \* the lines of the dump, of a label and values
    reports     \* what was printed at the end of each test

table == <<series, step, dumped, reports>>
seriesVars == <<vars, table>>

Row == ((test - 1) \div Cols) + 1
Col == ((test - 1) % Cols) + 1

\* What is computed from a result: its minimum, and the page faults of that.
Best == [min_ticks |-> results.min_ticks,
         min_test_page_faults |-> results.min_test_page_faults]
NoBest == [min_ticks |-> 0, min_test_page_faults |-> 0]

NoSeries == [membuf |-> FALSE]
allocate_reptest_series ==
    [membuf |-> TRUE, current_row |-> 0, current_col |-> 0,
     row_labels |-> [i \in 1..MaxRows |-> 0],
     col_labels |-> [j \in 1..Cols |-> 0],
     results |-> [k \in 0..(MaxRows * Cols - 1) |-> NoBest]]

SeriesInit ==
    /\ Init
    /\ series = NoSeries
    /\ step = "allocate"
    /\ dumped = <<>>
    /\ reports = <<>>

\* An assertion of the table, and what is done if it holds.
Asserted(condition, table_) ==
    series' = IF condition THEN table_ ELSE series
GoesOn(condition, to) == step' = IF condition THEN to ELSE "aborted"

\* The label of the table asserts that the allocation worked, and makes the
\* row before the first look complete.
Allocate ==
    /\ step = "allocate"
    /\ \/ /\ series' = [allocate_reptest_series EXCEPT !.current_col = Cols]
          /\ step' = "row"
       \/ /\ step' = "aborted"
          /\ UNCHANGED series
    /\ UNCHANGED <<vars, dumped, reports>>

RowFits == series.current_row < MaxRows /\ series.current_col = Cols

set_reptest_series_row_label ==
    /\ step = "row"
    /\ Asserted(RowFits, [series EXCEPT !.row_labels[series.current_row + 1] = Row,
                                       !.current_row = @ + 1,
                                       !.current_col = 0])
    /\ GoesOn(RowFits, "column")
    /\ UNCHANGED <<vars, dumped, reports>>

ColFits == series.current_col < Cols

set_reptest_series_col_label ==
    /\ step = "column"
    /\ Asserted(ColFits, [series EXCEPT !.col_labels[series.current_col + 1] = Col,
                                       !.current_col = @ + 1])
    /\ GoesOn(ColFits, "test")
    /\ UNCHANGED <<vars, dumped, reports>>

\* A step of the test, which ends by printing its results.
TestStep ==
    /\ step = "test"
    /\ Next
    /\ IF pc = "print" /\ pc' # "crashed"
       THEN step' = "add" /\ reports' = Append(reports, Best)
       ELSE UNCHANGED <<step, reports>>
    /\ UNCHANGED <<series, dumped>>

\* FAULTY: the place of a result in a table of columns.
SlotByColumn == (series.current_col - 1) * MaxRows + series.current_row - 1
Slot == (series.current_row - 1) * Cols + series.current_col - 1

SlotFits == series.current_col \in 1..Cols /\ series.current_row \in 1..MaxRows

\* test is the number of the next one by now, if there is one.
NextStep ==
    IF pc = "done" THEN "dump" ELSE IF Col = 1 THEN "row" ELSE "column"

add_reptest_result_to_series ==
    /\ step = "add"
    /\ Asserted(SlotFits, [series EXCEPT !.results[Slot] = Best])
    /\ GoesOn(SlotFits, NextStep)
    /\ UNCHANGED <<vars, dumped, reports>>

DumpedLines ==
    [i \in 1..series.current_row |->
        [label |-> series.row_labels[i],
         values |-> [j \in 1..Cols |-> series.results[(i - 1) * Cols + j - 1]]]]

\* The dump asserts that the last row is complete; then the table is freed.
DumpAndFree ==
    /\ step = "dump"
    /\ Asserted(series.current_col = Cols, NoSeries)
    /\ GoesOn(series.current_col = Cols, "done")
    /\ dumped' = IF series.current_col = Cols
                 THEN <<series.col_labels>> \o DumpedLines ELSE dumped
    /\ UNCHANGED <<vars, reports>>

SeriesTerminating == step \in {"done", "aborted"} /\ UNCHANGED seriesVars

SeriesNext ==
    \/ Allocate
    \/ set_reptest_series_row_label \/ set_reptest_series_col_label
    \/ TestStep
    \/ add_reptest_result_to_series
    \/ DumpAndFree
    \/ SeriesTerminating

SeriesSpec == SeriesInit /\ [][SeriesNext]_seriesVars

---------------------------------------------------------------------------
(* The table that is dumped has in each place what was reported for the    *)
(* test of its row and column, under their labels; and no assertion of the *)
(* table fails but the one on its allocation (repetition.hpp 420, 434-436, *)
(* 449-450, 462-471, 490-499).                                             *)
TableIsAsReported ==
    /\ step = "done" =>
        /\ Len(dumped) = Rows + 1
        /\ dumped[1] = [j \in 1..Cols |-> j]
        /\ \A i \in 1..Rows :
              /\ dumped[i + 1].label = i
              /\ \A j \in 1..Cols : dumped[i + 1].values[j] = reports[(i - 1) * Cols + j]
    /\ step = "aborted" => series = NoSeries

===========================================================================
