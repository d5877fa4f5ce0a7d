----------------------------- MODULE Profiler -----------------------------
(***************************************************************************)
(* The profiler of Common/profiling.hpp: slots, ScopedProfile and the dump *)
(* at the end of the program.                                              *)
(*                                                                         *)
(* A ScopedProfile is a local of the block it profiles, so the live ones   *)
(* form a stack.  It keeps the counters at its construction, a pointer to  *)
(* the slot that was current, and a snapshot of its slot's inclusive       *)
(* count.  Its destructor moves the difference from the exclusive count of *)
(* the parent to its own and sets the inclusive count from the snapshot.   *)
(*                                                                         *)
(* Counts of the code are u64 and differences wrap: an open parent's       *)
(* exclusive count, and slot 0's, go below zero.  Int stands for the value *)
(* modulo 2^64, which the later additions bring back.  bytes_processed is  *)
(* handled like hit_count and left out.                                    *)
(***************************************************************************)
EXTENDS Integers, Sequences, SequencesExt, FiniteSetsExt

CONSTANTS
    NBlocks,        \* the PROFILED_ macros of the program, their slots 1 .. NBlocks
    PfBlocks,       \* those that also count page faults (PROFILED_..._PF)
    Calls,          \* <<a, b>>: block b is opened in block a; a = Root at top level
    MaxDepth,       \* bound: scopes open at a time
    MaxHits,        \* bound: scopes opened in all
    MaxCounter      \* bound: advance of a counter in all

Root == 0                   \* the slot without a name, for what is in no block
Blocks == 1 .. NBlocks
Slots == {Root} \cup Blocks
Counters == {"ticks", "faults"}
Watched == [b \in Blocks |-> {"ticks"} \cup IF b \in PfBlocks THEN {"faults"} ELSE {}]

ASSUME BoundAssumption == /\ NBlocks \in Nat \ {0}
                          /\ MaxDepth \in Nat /\ MaxHits \in Nat /\ MaxCounter \in Nat
ASSUME CallAssumption == PfBlocks \subseteq Blocks /\ Calls \subseteq Slots \X Blocks

VARIABLES
    slots,          \* g_profiler.slots
    current_slot,   \* g_profiler.current_slot
    scopes,         \* the live ScopedProfile objects, outermost first
    counter,        \* READ_TIMER and READ_PAGE_FAULT_COUNTER, from init_profiler on
    dump            \* the lines printed, or <<>>

vars == <<slots, current_slot, scopes, counter, dump>>

NoCount == [k \in Counters |-> 0]
EmptySlot == [inclusive |-> NoCount, exclusive |-> NoCount, hit_count |-> 0]

\* init_profiler at the start of main
Init ==
    /\ slots = [s \in Slots |-> EmptySlot]
    /\ current_slot = Root
    /\ scopes = <<>>
    /\ counter = NoCount
    /\ dump = <<>>

\* The scopes opened so far.
Opened == SumFunction([b \in Blocks |-> slots[b].hit_count])

---------------------------------------------------------------------------
\* The counters a scope reads: t_pagefaults says whether page faults are.
Measured(scope) == Watched[scope.slot]

Delta(scope) ==
    [k \in Counters |->
        IF k \in Measured(scope) THEN counter[k] - scope.ref[k] ELSE 0]

Plus(f, g) == [k \in Counters |-> f[k] + g[k]]
\* A parent keeps what its children took, or does not.
Kept(f, g) == f
Minus(f, g) == [k \in Counters |-> f[k] - g[k]]

\* The constructor.  The xchg leaves the slot of this scope the current one.
OpenScope(b) ==
    /\ dump = <<>>
    /\ <<current_slot, b>> \in Calls
    /\ Len(scopes) < MaxDepth /\ Opened < MaxHits
    /\ slots' = [slots EXCEPT ![b].hit_count = @ + 1]
    /\ current_slot' = b
    /\ scopes' = Append(scopes, [slot |-> b, m_parent |-> current_slot,
                                 ref |-> counter, snapshot |-> slots[b].inclusive])
    /\ UNCHANGED <<counter, dump>>

\* What the destructor stores in the inclusive count: from the snapshot, so
\* that of the scopes of a block that is open in itself the outermost, which
\* is closed last, decides; adding to the count would count the inner ones too.
AddedInclusive(scope) == Plus(slots[scope.slot].inclusive, Delta(scope))
NewInclusive(scope) == Plus(scope.snapshot, Delta(scope))

\* g_profiler.current_slot is restored.
SlotRestored(scope) == scope.m_parent

\* The destructor of the innermost scope.  Slot and parent may be the same.
CloseScope ==
    /\ dump = <<>>
    /\ scopes # <<>>
    /\ LET scope == Last(scopes)
           slot == scope.slot
           moved == [slots EXCEPT ![slot].exclusive = Plus(@, Delta(scope))]
       IN  /\ slots' = [[moved EXCEPT ![scope.m_parent].exclusive = Minus(@, Delta(scope))]
                          EXCEPT ![slot].inclusive =
                              [k \in Counters |->
                                  IF k \in Measured(scope) THEN NewInclusive(scope)[k]
                                                           ELSE @[k]]]
           /\ current_slot' = SlotRestored(scope)
    /\ scopes' = Front(scopes)
    /\ UNCHANGED <<counter, dump>>

\* The program runs.
Run(k) ==
    /\ dump = <<>>
    /\ counter[k] < MaxCounter
    /\ counter' = [counter EXCEPT ![k] = @ + 1]
    /\ UNCHANGED <<slots, current_slot, scopes, dump>>

---------------------------------------------------------------------------
(* The dump.  A slot has a name once a scope of it was opened.  Nothing is  *)
(* printed of a counter whose inclusive count is zero.                     *)
Line(s) ==
    [name |-> IF slots[s].hit_count > 0 THEN s ELSE Root,
     hit_count |-> slots[s].hit_count,
     inclusive |-> slots[s].inclusive,
     exclusive |-> [k \in Counters |->
        IF slots[s].inclusive[k] = 0 THEN 0 ELSE slots[s].exclusive[k]]]

Named(line) == line.name # Root

\* The comparison of the sort: decreasing order, empty slots pushed to end.
Before(l1, l2) ==
    Named(l1) /\ (~Named(l2) \/ l1.inclusive["ticks"] > l2.inclusive["ticks"])

\* insertion_sort (algo.hpp): an element moves down past those that are not
\* before it, to stand behind the last that is.
Insert(sorted, line) ==
    LET at == Max({0} \cup {i \in DOMAIN sorted : Before(sorted[i], line)})
    IN  InsertAt(sorted, at + 1, line)
insertion_sort(lines) == FoldLeft(Insert, <<>>, lines)

\* The loop over the sorted slots skips those without a name.
Printed(lines, line) == IF Named(line) THEN Append(lines, line) ELSE lines

\* The deferred call at the end of main, when all scopes are closed.
FinishAndDump ==
    /\ dump = <<>>
    /\ scopes = <<>>
    /\ Opened > 0
    /\ dump' = FoldLeft(Printed, <<>>,
                        insertion_sort([i \in 1 .. NBlocks + 1 |-> Line(i - 1)]))
    /\ UNCHANGED <<slots, current_slot, scopes, counter>>

Terminating == dump # <<>> /\ UNCHANGED vars

Next ==
    \/ \E b \in Blocks : OpenScope(b)
    \/ CloseScope
    \/ \E k \in Counters : Run(k)
    \/ FinishAndDump
    \/ Terminating

Spec == Init /\ [][Next]_vars

---------------------------------------------------------------------------
Watching(k) == {b \in Blocks : k \in Watched[b]}

\* A scope that counts page faults takes them from its parent, even if that
\* does not count them: they stay with the next block around that does.
CountedTwice(k) ==
    0 - SumFunction([b \in Blocks \ Watching(k) |-> slots[b].exclusive[k]])

(* What a reader of the dump takes for granted: the exclusive shares are   *)
(* not negative, none exceeds the inclusive one of its block, and together *)
(* they make no more than the whole, although while scopes are open counts *)
(* below zero and stale ones are the rule (profiling.hpp 260-287); where a *)
(* page fault block was open in one that does not count them, they are too *)
(* high by what that one is below zero, and no more.                       *)
SharesAddUp ==
    scopes = <<>> =>
        \A k \in Counters :
            /\ CountedTwice(k) >= 0
            /\ \A b \in Watching(k) :
                  0 <= slots[b].exclusive[k]
                  /\ slots[b].exclusive[k] <= slots[b].inclusive[k] + CountedTwice(k)
            /\ SumFunction([b \in Watching(k) |-> slots[b].exclusive[k]])
                    <= counter[k] + CountedTwice(k)

---------------------------------------------------------------------------
(* The abstraction.  What an open scope has measured and not yet booked is *)
(* owed to its block and by its parent.                                    *)
Owed(k, b) ==
    SumFunction([i \in DOMAIN scopes |->
        (IF scopes[i].slot = b THEN Delta(scopes[i])[k] ELSE 0)
      - (IF scopes[i].m_parent = b THEN Delta(scopes[i])[k] ELSE 0)])

OpenIn(b) == {i \in DOMAIN scopes : scopes[i].slot = b}

SoFar(k, b) ==
    IF OpenIn(b) # {} /\ k \in Watched[b]
    THEN NewInclusive(scopes[Min(OpenIn(b))])[k]
    ELSE slots[b].inclusive[k]

Abstract == INSTANCE Stopwatch WITH
    open <- [i \in DOMAIN scopes |-> scopes[i].slot],
    self <- [k \in Counters |->
                [b \in Blocks |-> IF b \in Watching(k)
                    THEN slots[b].exclusive[k] + Owed(k, b) ELSE 0]],
    total <- [k \in Counters |-> [b \in Blocks |-> SoFar(k, b)]],
    hits <- [b \in Blocks |-> slots[b].hit_count],
    listed <- dump

(* Every tick is charged to exactly one block and to each block around it  *)
(* once, also when a block is open in itself, directly or through others;  *)
(* so is every page fault, but that a block which does not count them      *)
(* hides those inside it from the ones outside; and the dump lists the     *)
(* blocks accordingly, the slowest first (profiling.hpp 169-178, 243-287). *)
ImplementsStopwatch == Abstract!Spec

===========================================================================
