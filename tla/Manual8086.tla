----------------------------- MODULE Manual8086 -----------------------------
(***************************************************************************)
(* The arithmetic instructions as the 8086 Family User's Manual that is    *)
(* kept beside the simulator has them: values are integers, and a flag is  *)
(* told from the numbers, not from bits of a sum; and where Alu8086        *)
(* departs from them.  i is as there.                                      *)
(***************************************************************************)
EXTENDS Alu8086
LOCAL INSTANCE FiniteSetsExt

Carries(o, i) == IF o \in {"adc", "sbb"} /\ i.flags.c THEN 1 ELSE 0
Source(o, i) == IF o \in {"inc", "dec"} THEN 1 ELSE i.src

\* The exact result, before it is cut to the size of the destination.
Sum(o, i) == i.dest + Source(o, i) + Carries(o, i)
Difference(o, i) == i.dest - Source(o, i) - Carries(o, i)
SignedSum(o, i) ==
    Signed(i.dest, i.wide) + Signed(Source(o, i), i.wide) + Carries(o, i)
SignedDifference(o, i) ==
    Signed(i.dest, i.wide) - Signed(Source(o, i), i.wide) - Carries(o, i)

OutOfRange(n, wide) == n < -(Size(wide) \div 2) \/ n >= Size(wide) \div 2

\* The flags that tell of a result.
Sign(f, n, wide) ==
    [f EXCEPT !.z = (n = 0), !.s = (n >= Size(wide) \div 2),
              !.p = Cardinality({k \in 0..7 : BitOf(n, k)}) \in {0, 2, 4, 6, 8}]

AddFlags(o, i) ==
    [Sign(i.flags, Sum(o, i) % Size(i.wide), i.wide) EXCEPT
        !.c = IF o = "inc" THEN @ ELSE Sum(o, i) >= Size(i.wide),
        !.o = OutOfRange(SignedSum(o, i), i.wide),
        !.a = (i.dest % 16) + (Source(o, i) % 16) + Carries(o, i) > 15]

SubFlags(o, i) ==
    [Sign(i.flags, Difference(o, i) % Size(i.wide), i.wide) EXCEPT
        !.c = IF o = "dec" THEN @ ELSE Difference(o, i) < 0,
        !.o = OutOfRange(SignedDifference(o, i), i.wide),
        !.a = i.dest % 16 < (Source(o, i) % 16) + Carries(o, i)]

\* neg subtracts its operand from 0.
NegFlags(i) == SubFlags("sub", [i EXCEPT !.src = i.dest, !.dest = 0])

\* The logic operations as those of sets, of the bits that are 1.
LogicResult(o, i) ==
    LET ones(n) == {k \in 0..(bits(i.wide) - 1) : BitOf(n, k)}
        a == ones(i.dest)
        b == ones(i.src)
    IN  MapThenSumSet(LAMBDA k : 2 ^ k,
            CASE o \in {"and", "test"} -> a \cap b
              [] o = "or" -> a \cup b
              [] o = "xor" -> (a \ b) \cup (b \ a))

\* One step of a shift or rotation: the bit that leaves, and what is left.
Leaves(o, x, wide) ==
    IF o \in {"shl", "rol", "rcl"} THEN BitOf(x, bits(wide) - 1) ELSE BitOf(x, 0)
Enters(o, x, c, wide) ==
    CASE o \in {"shl", "shr"} -> FALSE
      [] o = "sar" -> BitOf(x, bits(wide) - 1)
      [] o \in {"rol", "ror"} -> Leaves(o, x, wide)
      [] o \in {"rcl", "rcr"} -> c
OneStep(o, xc, wide) ==
    LET x == xc[1]
        bit == IF Enters(o, x, xc[2], wide) THEN 1 ELSE 0
    IN  <<IF o \in {"shl", "rol", "rcl"} THEN ((2 * x) % Size(wide)) + bit
          ELSE (x \div 2) + bit * (Size(wide) \div 2),
          Leaves(o, x, wide)>>

\* The operand and the carry after the steps that CL counts.
Moved(o, i) ==
    LET after[n \in 0..i.src] ==
            IF n = 0 THEN <<i.dest, i.flags.c>>
            ELSE OneStep(o, after[n - 1], i.wide)
    IN  after[i.src]

MovedFlags(o, i) ==
    LET x == Moved(o, i)[1]
        f == IF o \in Shifts THEN Sign(i.flags, x, i.wide) ELSE i.flags
    IN  IF i.src = 0 THEN i.flags
        ELSE [f EXCEPT !.c = Moved(o, i)[2],
                       !.o = is_neg(x, i.wide) # is_neg(i.dest, i.wide)]

Product(o, i) ==
    LET base == IF i.wide THEN i.ax ELSE Al(i.ax)
    IN  IF o = "mul" THEN base * i.src
        ELSE Signed(base, i.wide) * Signed(i.src, i.wide)

\* Whether the upper half of the product says more than the lower.
Spills(o, i) ==
    IF o = "mul" THEN Product(o, i) >= Size(i.wide)
    ELSE OutOfRange(Product(o, i), i.wide)

Dividend(o, i) ==
    IF i.wide THEN (IF o = "idiv" THEN Signed(i.dx, TRUE) ELSE i.dx) * 65536 + i.ax
    ELSE IF o = "idiv" THEN Signed(i.ax, TRUE) ELSE i.ax
Divisor(o, i) == IF o = "idiv" THEN Signed(i.src, i.wide) ELSE i.src

\* The adjustments correct the digits of AL if they are none, or if the carry
\* says that more was computed than they hold.
LowAdjusted(i) == Al(i.ax) % 16 > 9 \/ i.flags.a
HighAdjusted(i) == Al(i.ax) > 153 \/ i.flags.c
Towards(o) == IF o \in {"aaa", "daa"} THEN 1 ELSE -1

AsciiAdjusted(o, i) ==
    LET ones == IF LowAdjusted(i) THEN Towards(o) ELSE 0
    IN  256 * ((Ah(i.ax) + ones) % 256) + ((Al(i.ax) + 6 * ones) % 16)
DecimalAdjusted(o, i) ==
    LET ones == IF LowAdjusted(i) THEN Towards(o) ELSE 0
        tens == IF HighAdjusted(i) THEN Towards(o) ELSE 0
    IN  (Al(i.ax) + 6 * ones + 96 * tens) % 256

\* What the manual has in the destination, in AX and in DX.
ManualResult(o, i) ==
    CASE o \in {"cmp", "test"} -> i
      [] o \in Adds -> [i EXCEPT !.dest = Sum(o, i) % Size(i.wide)]
      [] o \in Subs \ {"cmp"} -> [i EXCEPT !.dest = Difference(o, i) % Size(i.wide)]
      [] o = "neg" -> [i EXCEPT !.dest = (0 - @) % Size(i.wide)]
      [] o = "not" -> [i EXCEPT !.dest = Size(i.wide) - 1 - @]
      [] o \in Logic \ {"test"} -> [i EXCEPT !.dest = LogicResult(o, i)]
      [] o \in Shifts \cup Rotates -> [i EXCEPT !.dest = Moved(o, i)[1]]
      [] o \in Multiplications ->
            [i EXCEPT !.ax = Product(o, i) % 65536,
                      !.dx = IF i.wide THEN (Product(o, i) \div 65536) % 65536
                             ELSE @]
      [] o = "cbw" -> [i EXCEPT !.ax = IF Al(@) < 128 THEN Al(@) ELSE 65280 + Al(@)]
      [] o = "cwd" -> [i EXCEPT !.dx = IF i.ax < 32768 THEN 0 ELSE 65535]
      [] o \in {"aaa", "aas"} -> [i EXCEPT !.ax = AsciiAdjusted(o, i)]
      [] o \in {"daa", "das"} -> [i EXCEPT !.ax = 256 * Ah(@) + DecimalAdjusted(o, i)]
      [] o = "aam" -> [i EXCEPT !.ax = 256 * (Al(@) \div 10) + (Al(@) % 10)]
      [] o = "aad" -> [i EXCEPT !.ax = (10 * Ah(@) + Al(@)) % 256]

\* The flags it sets or leaves alone, and those it says nothing of.
ManualFlags(o, i) ==
    CASE o \in Adds -> AddFlags(o, i)
      [] o \in Subs -> SubFlags(o, i)
      [] o = "neg" -> NegFlags(i)
      [] o \in Logic ->
            [Sign(i.flags, LogicResult(o, i), i.wide) EXCEPT !.c = FALSE, !.o = FALSE]
      [] o \in Shifts \cup Rotates -> MovedFlags(o, i)
      [] o \in Multiplications ->
            [i.flags EXCEPT !.c = Spills(o, i), !.o = Spills(o, i)]
      [] o \in {"not", "cbw", "cwd"} -> i.flags
      [] o \in {"aaa", "aas"} -> [i.flags EXCEPT !.a = LowAdjusted(i), !.c = LowAdjusted(i)]
      [] o \in {"daa", "das"} ->
            [Sign(i.flags, DecimalAdjusted(o, i), FALSE) EXCEPT
                !.a = LowAdjusted(i), !.c = HighAdjusted(i)]
      [] o \in {"aam", "aad"} -> Sign(i.flags, Al(ManualResult(o, i).ax), FALSE)

\* No difference of packed digits leaves a low digit below 6 and borrows for it:
\* the carry after such a das is left open.
Undefined(o, i) ==
    (IF o \in Logic \/ (o \in Shifts /\ i.src > 0) THEN {"a"} ELSE {})
    \cup (IF o \in Shifts \cup Rotates /\ i.src > 1 THEN {"o"} ELSE {})
    \cup (IF o \in Multiplications THEN {"s", "z", "a", "p"} ELSE {})
    \cup (IF o \in {"aaa", "aas"} THEN {"o", "s", "z", "p"} ELSE {})
    \cup (IF o \in {"daa", "das"} THEN {"o"} ELSE {})
    \cup (IF o = "das" /\ i.flags.a /\ Al(i.ax) < 6 /\ ~i.flags.c THEN {"c"} ELSE {})
    \cup (IF o \in {"aam", "aad"} THEN {"o", "a", "c"} ELSE {})

---------------------------------------------------------------------------
(* Where the code departs from the manual.                                 *)

\* All but the divisions, which may be interrupts.
Compared == Ops \ Divisions

\* A shift's count as the host takes it: 1 to 32, for 0 and above 32 too.
HostCount(o, i) ==
    IF o \in Shifts THEN [i EXCEPT !.src = ((@ - 1) % 32) + 1] ELSE i

\* aaa and aas look at all of AL, and not at the auxiliary carry.
AsciiDeparts(i) == (Al(i.ax) > 9) # LowAdjusted(i)

\* The decimal adjustments do not look at the carry.
DecimalDeparts(i) == i.flags.c /\ Al(i.ax) <= 153

\* sbb subtracts the source less the carry, where the manual subtracts both;
\* cwd leaves 1 in DX for a positive number; shifts by a count of 0 or above
\* 32 are those by the count of the host.
ResultDeparts(o, i) ==
    \/ o = "sbb" /\ i.flags.c
    \/ o = "cwd" /\ i.ax \in 1..32767
    \/ o \in Shifts /\ Moved(o, HostCount(o, i))[1] # Moved(o, i)[1]
    \/ o \in {"aaa", "aas"} /\ AsciiDeparts(i)
    \/ o \in {"daa", "das"} /\ DecimalDeparts(i)

Differing(f, g) == {n \in DOMAIN f : f[n] # g[n]}

\* The flags left wrong.  adc and sub add the carry to the source, or change
\* its sign, before the signs and the low digits are looked at; inc and dec
\* set the carry; neg sets nothing; mul and imul set the carry when the upper
\* half is 0; a rotation by 0 sets the carry, and rcl and rcr take it from
\* the result; the adjustments are those of ResultDeparts.
FlagsDepart(o, i) ==
    LET when(c, names) == IF c THEN names ELSE {}
        shown == CASE o \in {"rol", "rcl"} -> BitOf(Moved(o, i)[1], 0)
                   [] o \in {"ror", "rcr"} -> is_neg(Moved(o, i)[1], i.wide)
                   [] OTHER -> FALSE
    IN  CASE o = "adc" ->
                when(i.flags.c /\ i.src = (Size(i.wide) \div 2) - 1, {"o"})
                \cup when(i.flags.c /\ i.src % 16 = 15, {"a"})
          [] o \in {"sub", "sbb", "cmp"} -> when(i.src = Size(i.wide) \div 2, {"o"})
          [] o = "inc" -> when(i.flags.c # (i.dest = Size(i.wide) - 1), {"c"})
          [] o = "dec" -> when(i.flags.c # (i.dest = 0), {"c"})
          [] o = "neg" -> Differing(i.flags, NegFlags(i))
          [] o \in Shifts ->
                Differing(MovedFlags(o, HostCount(o, i)), MovedFlags(o, i))
                    \ Undefined(o, i)
          [] o \in Rotates ->
                when(shown # MovedFlags(o, i).c, {"c"})
                \cup when(i.src = 0 /\ i.flags.o, {"o"})
          [] o \in Multiplications ->
                when((Product(o, i) \in 0..(Size(i.wide) - 1)) = ~Spills(o, i),
                     {"c", "o"})
          [] o \in {"aaa", "aas"} -> when(AsciiDeparts(i), {"a", "c"})
          [] o \in {"daa", "das"} ->
                Differing(ManualFlags(o, [i EXCEPT !.flags.c = FALSE]), ManualFlags(o, i))
          [] OTHER -> {}

=============================================================================
