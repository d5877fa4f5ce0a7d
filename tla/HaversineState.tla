--------------------------- MODULE HaversineState ---------------------------
(***************************************************************************)
(* One file of haversine_perf_test: setup_haversine_state with what it     *)
(* acquires (an open file, mapped memory, the tree of the parser), the     *)
(* calculation and validation that use it, cleanup_haversine_state; for    *)
(* the failures of open, mmap and read.                                    *)
(*                                                                         *)
(* The parser runs in the step "parse".  Lengths are counted in doubles; a *)
(* JSON file has the length 0 or 1.  Mappings are numbered like blocks.    *)
(* On Linux allocate() returns MAP_FAILED for memory it did not get, which *)
(* is_valid takes for memory; so does any buffer of length 0.              *)
(***************************************************************************)
EXTENDS JsonParser

Coordinates == {"x0", "y0", "x1", "y1"}

ASSUME NamesAssumption == Coordinates \cup {"points"} \subseteq Strings

VARIABLES
  pages,     \* pages[m]: the pages of mapping m, "large" or "regular"
  maps,      \* how many mappings were made
  file,      \* the file last opened: its name, its length, whether it is open
  b,         \* the buffer of load_entire_file
  s,         \* haversine_state_t; its parsed_json_root is ret
  step,      \* where setup or its client is
  denied,    \* what the system did not give, of what it was asked for
  outcome    \* how the program ended

hvars == <<pages, maps, file, b, s, step, denied, outcome>>
allvars == <<vars, hvars>>

NullData == 0
MapFailed == -1
Buffer(data, len, large) == [data |-> data, len |-> len, is_large_pages |-> large]
NoBuffer == Buffer(NullData, 0, FALSE)

is_valid(buf) == buf.data # NullData

Fresh == [json |-> NoBuffer, checksum |-> NoBuffer, pairs |-> NoBuffer, answers |-> NoBuffer,
          points |-> <<>>, pair_cnt |-> 0, validation |-> FALSE]

StateInit ==
  /\ Init
  /\ pages = [m \in {} |-> "regular"] /\ maps = 0
  /\ file = [name |-> "json", len |-> 0, open |-> FALSE]
  /\ b = NoBuffer /\ s = Fresh
  /\ step = "start" /\ denied = {} /\ outcome = "none"

----------------------------------------------------------------------------
(* Memory *)

\* allocate_best: large pages, regular ones, or neither.
Allocated(len) ==
  IF len = 0 THEN {Buffer(MapFailed, 0, FALSE)}
  ELSE {Buffer(maps + 1, len, TRUE), Buffer(maps + 1, len, FALSE), Buffer(MapFailed, len, FALSE)}

PagesOf(buf) == IF buf.is_large_pages THEN "large" ELSE "regular"

Map(buf) ==
  /\ pages' = IF buf.data = MapFailed THEN pages ELSE With(pages, buf.data, PagesOf(buf))
  /\ maps' = IF buf.data = MapFailed THEN maps ELSE maps + 1

\* deallocate(buf): munmap with the length rounded to the wrong pages, or at
\* MAP_FAILED, frees nothing.
Freed(mapped, buf) ==
  IF buf.data \in DOMAIN mapped /\ mapped[buf.data] = PagesOf(buf)
  THEN Without(mapped, {buf.data}) ELSE mapped

cleanup_haversine_state ==
  /\ pages' = Freed(Freed(Freed(Freed(pages, s.json), s.checksum), s.pairs), s.answers)
  /\ heap' = Without(heap, Tree(heap, ret))
  /\ ret' = Null
  /\ pc' = IF pc = "parsed" THEN "done" ELSE pc
  /\ s' = Fresh
  /\ UNCHANGED <<source, read, stack, allocs, superseded, maps>>

----------------------------------------------------------------------------
(* load_entire_file *)

\* setup_haversine_state: it cleans up what s may hold and loads the file.
Start ==
  /\ step = "start"
  /\ cleanup_haversine_state
  /\ step' = "open"
  /\ UNCHANGED <<file, b, denied, outcome>>

\* What is done with the buffer that load_entire_file returns.  A missing JSON
\* file ends setup, a missing checksum does not.
Loaded(buf) ==
  /\ s' = [s EXCEPT ![file.name] = buf]
  /\ \/ file.name = "json" /\ is_valid(buf) /\ step' \in {"parse", "loaded"} /\ UNCHANGED outcome
     \/ file.name = "json" /\ ~is_valid(buf) /\ step' = "exit" /\ outcome' = "rejected"
     \/ file.name = "checksum" /\ step' = "prepare" /\ UNCHANGED outcome

OpenFile ==
  /\ step = "open"
  /\ \/ \E len \in IF file.name = "json" THEN 0 .. 1 ELSE 0 .. s.pair_cnt + 2 :
          /\ file' = [file EXCEPT !.len = len, !.open = TRUE]
          /\ step' = "allocate"
          /\ UNCHANGED <<s, denied, outcome>>
     \/ /\ denied' = denied \cup {file.name}
        /\ Loaded(NoBuffer)
        /\ UNCHANGED file
  /\ UNCHANGED <<vars, pages, maps, b>>

AllocateForFile ==
  /\ step = "allocate"
  /\ b' \in Allocated(file.len)
  /\ Map(b')
  /\ step' = "read"
  /\ UNCHANGED <<vars, file, s, denied, outcome>>

\* FAULTY: a short read returns without deallocating the buffer.
KeepOnShortRead(mapped, buf) == mapped

FreeOnShortRead(mapped, buf) == Freed(mapped, buf)

\* The read delivers the file or not (into MAP_FAILED never); the file is closed.
ReadFile ==
  /\ step = "read"
  /\ \/ /\ b.data # MapFailed \/ b.len = 0
        /\ Loaded(b)
        /\ UNCHANGED <<pages, denied>>
     \/ /\ pages' = FreeOnShortRead(pages, b)
        /\ denied' = denied \cup {file.name}
        /\ Loaded(NoBuffer)
  /\ file' = [file EXCEPT !.open = FALSE]
  /\ b' = NoBuffer
  /\ UNCHANGED <<vars, maps>>

----------------------------------------------------------------------------
(* setup_haversine_state, from the parse on *)

\* parse_json_input: an empty file has no token but its end.
ParseFile ==
  /\ step = "parse"
  /\ Parse
  /\ s.json.len = 0 => read' = <<"eof">>
  /\ UNCHANGED hvars

Reject ==
  /\ cleanup_haversine_state
  /\ step' = "exit" /\ outcome' = "rejected"
  /\ UNCHANGED <<file, b, denied>>

\* The array of points.
points_arr == heap[heap[ret].kids[1]]

\* There is a root, which has one field, "points", an array.
HasPoints ==
  /\ ret # Null
  /\ Len(heap[ret].kids) = 1
  /\ heap[heap[ret].names[1]].val = "points"
  /\ points_arr.kind = "array"

CheckRoot ==
  /\ step = "parse" /\ pc = "parsed"
  /\ \/ ~HasPoints /\ Reject
     \/ /\ HasPoints
        /\ s' = [s EXCEPT !.pair_cnt = Len(points_arr.kids)]
        /\ file' = [name |-> "checksum", len |-> 0, open |-> FALSE]
        /\ step' = "open"
        /\ UNCHANGED <<vars, pages, maps, b, denied, outcome>>

\* The buffer of a field of s, from allocate_best, which is not looked at.
AllocateField(field, len, next) ==
  /\ \E buf \in Allocated(len) :
       /\ Map(buf)
       /\ s' = [s EXCEPT ![field] = buf]
       /\ denied' = IF buf.data = MapFailed /\ len > 0 THEN denied \cup {field} ELSE denied
  /\ step' = next
  /\ UNCHANGED <<vars, file, b, outcome>>

AllocatePairs == step = "prepare" /\ AllocateField("pairs", 4 * s.pair_cnt, "answers")
AllocateAnswers == step = "answers" /\ AllocateField("answers", s.pair_cnt, "checksum")

\* FAULTY: the sum after the answers is not counted.
AnswersOnly(cnt) == cnt

ChecksumLength(cnt) == cnt + 1

CheckChecksum ==
  /\ step = "checksum"
  /\ \/ is_valid(s.checksum) /\ s.checksum.len # ChecksumLength(s.pair_cnt) /\ Reject
     \/ /\ is_valid(s.checksum) => s.checksum.len = ChecksumLength(s.pair_cnt)
        /\ s' = [s EXCEPT !.validation = is_valid(s.checksum)]
        /\ step' = "elements"
        /\ UNCHANGED <<vars, pages, maps, file, b, denied, outcome>>

\* read_f64.
HasNumber(elem, name) ==
  LET d == json_object_query(elem, name)
  IN  d # Null /\ heap[d].kind = "number"

\* FAULTY: the number of fields is not looked at.
HasCoordinates(elem) == heap[elem].kind = "object" /\ \A n \in Coordinates : HasNumber(elem, n)

IsPoint(elem) ==
  /\ heap[elem].kind = "object" /\ Len(heap[elem].kids) = 4
  /\ \A n \in Coordinates : HasNumber(elem, n)

\* The program ends on the spot: on a store to MAP_FAILED, or in an assert.
Die(how) ==
  /\ step' = "exit" /\ outcome' = how
  /\ UNCHANGED <<vars, pages, maps, file, b, s, denied>>

ReadPoint ==
  /\ step = "elements" /\ Len(s.points) < s.pair_cnt
  /\ LET elem == points_arr.kids[Len(s.points) + 1]
     IN  \/ ~IsPoint(elem) /\ Reject
         \/ IsPoint(elem) /\ s.pairs.data = MapFailed /\ Die("crashed")
         \/ /\ IsPoint(elem) /\ s.pairs.data # MapFailed
            /\ s' = [s EXCEPT !.points =
                       Append(@, [n \in Coordinates |-> heap[json_object_query(elem, n)].val])]
            /\ UNCHANGED <<vars, pages, maps, file, b, step, denied, outcome>>

SetupReturns ==
  /\ step = "elements" /\ Len(s.points) = s.pair_cnt
  /\ step' = "ready"
  /\ UNCHANGED <<vars, pages, maps, file, b, s, denied, outcome>>

----------------------------------------------------------------------------
(* The client *)

\* calculate_haversine_distances stores an answer for each pair.
Calculate ==
  /\ step = "ready"
  /\ \/ s.pair_cnt > 0 /\ s.answers.data = MapFailed /\ Die("crashed")
     \/ /\ s.pair_cnt = 0 \/ s.answers.data # MapFailed
        /\ step' = "validate"
        /\ UNCHANGED <<vars, pages, maps, file, b, s, denied, outcome>>

\* validate_haversine_distances asserts that there are validation_answers.  Its
\* repetitions, and those of Calculate, change nothing.
Validate ==
  /\ step = "validate"
  /\ \/ ~s.validation /\ Die("aborted")
     \/ s.validation /\ step' = "finish"
        /\ UNCHANGED <<vars, pages, maps, file, b, s, denied, outcome>>

\* The deferred cleanup, after the tests, or in the solver after -tokenize,
\* for which setup only loads the file.
Finish ==
  /\ step \in {"finish", "loaded"}
  /\ cleanup_haversine_state
  /\ step' = "exit"
  /\ outcome' = IF step = "finish" THEN "validated" ELSE "tokenized"
  /\ UNCHANGED <<file, b, denied>>

Run ==
  \/ Start \/ OpenFile \/ AllocateForFile \/ ReadFile
  \/ ParseFile \/ CheckRoot \/ AllocatePairs \/ AllocateAnswers \/ CheckChecksum
  \/ ReadPoint \/ SetupReturns \/ Calculate \/ Validate \/ Finish

Terminating == step = "exit" /\ UNCHANGED allvars

Next == Run \/ Terminating

\* A sequential program that is never suspended for ever.
Spec == StateInit /\ [][Next]_allvars /\ WF_allvars(Run)

----------------------------------------------------------------------------
(* Properties *)

Held == {"json", "checksum", "pairs", "answers"}

\* Every mapping belongs to exactly one buffer, which knows its pages; and where
\* the program ends by itself, on whichever of its error paths
\* (haversine_state.hpp:60-151), nothing it acquired is left: no mapping, no
\* descriptor, and of the heap only the arrays that growing leaves behind.
ReleasedOnce ==
  LET holders == [h \in Held \cup {"b"} |-> IF h = "b" THEN b ELSE s[h]]
  IN  /\ \A m \in DOMAIN pages :
           Cardinality({h \in DOMAIN holders : holders[h].data = m /\ PagesOf(holders[h]) = pages[m]}) = 1
      /\ \A h \in DOMAIN holders : holders[h].data > 0 => holders[h].data \in DOMAIN pages
      /\ step = "exit" /\ outcome \notin {"crashed", "aborted"} =>
           pages = <<>> /\ ~file.open /\ DOMAIN heap = superseded /\ s = Fresh

\* The k-th name and value of the i-th point, and the number of points, of a
\* file of points: tokens without commas.
Name(c, i, k) == c[14 * i + 3 * k - 11]
Value(c, i, k) == c[14 * i + 3 * k - 9]
PointCount(c) == (Len(c) - 6) \div 14

\* { "points": [ point, ... ] }, each an object of the four coordinates in any
\* order, each a number.
IsPointsFile(tokens) ==
  LET c == WithoutCommas(tokens)
  IN  /\ IsDocument(tokens)
      /\ Len(c) >= 6 /\ Len(c) = 6 + 14 * PointCount(c)
      /\ SubSeq(c, 1, 4) = <<"lbrace", "points", "colon", "lsqbracket">>
      /\ c[Len(c) - 1] = "rsqbracket"
      /\ \A i \in 1 .. PointCount(c) :
           /\ c[14 * i - 9] = "lbrace" /\ c[14 * i + 4] = "rbrace"
           /\ {Name(c, i, k) : k \in 1 .. 4} = Coordinates
           /\ \A k \in 1 .. 4 : Value(c, i, k) = "number"

\* Its points: which number of the file is which coordinate.
PointsOf(tokens) ==
  LET c == WithoutCommas(tokens)
  IN  [i \in 1 .. PointCount(c) |->
        [n \in Coordinates |-> 4 * (i - 1) + CHOOSE k \in 1 .. 4 : Name(c, i, k) = n]]

\* When setup succeeds, the file is one of points, the pairs are its points, in
\* order and each number under its name, whatever the order of the fields
\* (haversine_state.hpp:118-151); and if there are answers to validate against,
\* there is one for each, and their sum.
PairsAreTheFiles ==
  step \in {"ready", "validate", "finish"} =>
    /\ IsPointsFile(read)
    /\ s.points = PointsOf(read)
    /\ s.validation => s.checksum.len = Len(s.points) + 1

\* The program ends as what it was given deserves: it rejects no file of points
\* with a checksum of the right length or none, accepts no other, and dies only
\* without memory or, in the validation, without a checksum
\* (haversine_validation.hpp:19), which setup promises to do without.
OutcomeIsDeserved ==
  LET goodChecksum == file.len = PointCount(WithoutCommas(read)) + 1
  IN  /\ outcome = "rejected" =>
           \/ "json" \in denied
           \/ ~IsPointsFile(read)
           \/ "checksum" \notin denied /\ ~goodChecksum
      /\ outcome = "validated" => IsPointsFile(read) /\ "checksum" \notin denied /\ goodChecksum
      /\ outcome = "aborted" => IsPointsFile(read) /\ "checksum" \in denied
      /\ outcome = "crashed" => denied \cap {"pairs", "answers"} # {}

\* Every run ends.
RunEnds == <>(step = "exit")
=============================================================================
