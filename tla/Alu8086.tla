------------------------------ MODULE Alu8086 ------------------------------
(***************************************************************************)
(* What the arithmetic instructions of the 8086 simulator compute, as      *)
(* functions of i: the values of the operands (dest, src), AX and DX, the  *)
(* size and the flags (simulator.cpp 452-581, 876-1036).  Which operands   *)
(* these are, and where results go, is in Operands8086.                    *)
(*                                                                         *)
(* Operands have 8 or 16 bits, values computed on the way are integers:    *)
(* bit k of a negative one is that of its two's complement, as in the u32  *)
(* and i32 of the code.                                                    *)
(***************************************************************************)
EXTENDS Integers, Sequences, FiniteSets, Bitwise

Adds == {"add", "adc", "inc"}
Subs == {"sub", "sbb", "cmp", "dec"}
Negations == {"neg", "not"}
Logic == {"and", "test", "or", "xor"}
Shifts == {"shl", "shr", "sar"}
Rotates == {"rol", "ror", "rcl", "rcr"}
Multiplications == {"mul", "imul"}
Divisions == {"div", "idiv"}
Adjusts == {"aaa", "aas", "daa", "das", "aam", "aad", "cbw", "cwd"}
Ops == Adds \cup Subs \cup Negations \cup Logic \cup Shifts \cup Rotates
       \cup Multiplications \cup Divisions \cup Adjusts

---------------------------------------------------------------------------
bits(wide) == IF wide THEN 16 ELSE 8
Size(wide) == 2 ^ bits(wide)

BitOf(n, k) == (n \div (2 ^ k)) % 2 = 1
Signed(n, wide) == IF BitOf(n, bits(wide) - 1) THEN n - Size(wide) ELSE n

Al(ax) == ax % 256
Ah(ax) == ax \div 256
Ax(ah, al) == 256 * (ah % 256) + (al % 256)

\* The value handed to write_operand, which may be wider than the operand.
Store(i, val) == [i EXCEPT !.dest = val % 65536]

is_zero(n, wide) == n % Size(wide) = 0
is_neg(n, wide) == BitOf(n, bits(wide) - 1)
is_parity(n) == Cardinality({k \in 0..7 : BitOf(n, k)}) % 2 = 0
\* FAULTY: the carry of a byte, whatever the size.
is_arifm_carry_byte(n, wide) == BitOf(n, 8)
is_arifm_carry(n, wide) == BitOf(n, bits(wide))

update_common_flags(f, res, wide) ==
    [f EXCEPT !.z = is_zero(res, wide), !.s = is_neg(res, wide),
              !.p = is_parity(res)]

\* The sum of the low digits, the second with the sign of b.
LowDigits(a, b) == (a % 16) + (IF b < 0 THEN -((-b) % 16) ELSE b % 16)

\* FAULTY: overflow told from the sign of the result alone.
update_arifm_flags_sign(f, a, b, wide) ==
    LET res == a + b
    IN  [update_common_flags(f, res, wide) EXCEPT
            !.c = is_arifm_carry(res, wide),
            !.o = is_neg(a, wide) # is_neg(res, wide),
            !.a = BitOf(LowDigits(a, b), 4)]

update_arifm_flags(f, a, b, wide) ==
    LET res == a + b
    IN  [update_common_flags(f, res, wide) EXCEPT
            !.c = is_arifm_carry(res, wide),
            !.o = /\ is_neg(a, wide) = is_neg(b, wide)
                  /\ is_neg(a, wide) # is_neg(res, wide),
            !.a = BitOf(LowDigits(a, b), 4)]

update_logic_flags(f, res, wide) ==
    [update_common_flags(f, res, wide) EXCEPT
        !.c = FALSE, !.o = FALSE, !.a = FALSE]

update_shift_flags(f, pushed_bit, res, orig, wide) ==
    [f EXCEPT !.c = pushed_bit, !.o = is_neg(res, wide) # is_neg(orig, wide)]

Cleared(f, names) == [n \in DOMAIN f |-> n \notin names /\ f[n]]

---------------------------------------------------------------------------
(* The instructions, as functions of the state.                            *)

Carry(i) == IF i.flags.c THEN 1 ELSE 0

\* What is added to the first operand.
Addend(o, i) ==
    CASE o = "add" -> i.src
      [] o = "adc" -> i.src + Carry(i)
      [] o = "inc" -> 1
      [] o \in {"sub", "cmp"} -> -i.src
      [] o = "sbb" -> -(i.src - Carry(i))
      [] o = "dec" -> -1

AddSub(o, i) ==
    LET a == i.dest
        b == Addend(o, i)
        new == [i EXCEPT !.flags = update_arifm_flags(@, a, b, i.wide)]
    IN  IF o = "cmp" THEN new ELSE Store(new, a + b)

Negate(o, i) == Store(i, IF o = "neg" THEN -i.dest ELSE -i.dest - 1)

Logical(o, i) ==
    LET res == CASE o \in {"and", "test"} -> i.dest & i.src
                 [] o = "or" -> i.dest | i.src
                 [] o = "xor" -> i.dest ^^ i.src
        new == [i EXCEPT !.flags = update_logic_flags(@, res, i.wide)]
    IN  IF o = "test" THEN new ELSE Store(new, res)

\* x << k and x >> k, as far as they are kept.
Left(x, k) == IF k >= 16 THEN 0 ELSE (x % (2 ^ (16 - k))) * (2 ^ k)
Right(x, k) ==
    IF k >= 17 THEN (IF x < 0 THEN -1 ELSE 0) ELSE x \div (2 ^ k)

\* The host takes the count modulo 32: a count of 0, less 1, becomes 31.
Shift(o, i) ==
    LET k == (i.src - 1) % 32
        x == IF o = "sar" THEN Signed(i.dest, i.wide) ELSE i.dest
        pre_res == IF o = "shl" THEN Left(x, k) ELSE Right(x, k)
        res == IF o = "shl" THEN Left(pre_res, 1) ELSE Right(pre_res, 1)
        pushed == IF o = "shl" THEN is_neg(pre_res, i.wide) ELSE BitOf(pre_res, 0)
        f == update_shift_flags(i.flags, pushed, res, i.dest, i.wide)
    IN  Store([i EXCEPT !.flags = update_common_flags(f, res, i.wide)], res)

\* The n low bits of x, rotated left by r.
Rotated(x, n, r) == (x % (2 ^ (n - r))) * (2 ^ r) + (x \div (2 ^ (n - r)))

Rotate(o, i) ==
    LET through == o \in {"rcl", "rcr"}
        left == o \in {"rol", "rcl"}
        op_bits == bits(i.wide) + (IF through THEN 1 ELSE 0)
        x == i.dest + (IF through THEN Carry(i) * Size(i.wide) ELSE 0)
        rot_bits == i.src % op_bits
        res == Rotated(x, op_bits, IF left THEN rot_bits ELSE op_bits - rot_bits)
        kept == res % Size(i.wide)
        pushed == IF left THEN BitOf(res, 0) ELSE is_neg(res, i.wide)
    IN  Store([i EXCEPT !.flags =
                update_shift_flags(@, pushed, kept, i.dest, i.wide)], kept)

do_multiplication(o, i) ==
    LET num(x, wide) == IF o = "imul" THEN Signed(x, wide) ELSE x
        base == IF i.wide THEN i.ax ELSE Al(i.ax)
        res == num(base, i.wide) * num(i.src, i.wide)
        carry_overflow == res = res % Size(i.wide)
    IN  [i EXCEPT !.ax = res % 65536,
                  !.dx = IF i.wide THEN (res \div 65536) % 65536 ELSE @,
                  !.flags = [Cleared(@, {"s", "z", "a", "p"}) EXCEPT
                                !.c = carry_overflow, !.o = carry_overflow]]

\* Division towards zero, as in C.
Truncated(n, d) ==
    LET abs == IF d < 0 THEN -d ELSE d
        q == (n \div abs) + (IF n < 0 /\ n % abs # 0 THEN 1 ELSE 0)
    IN  IF d < 0 THEN -q ELSE q

\* The quotient checks, which for idiv leave out the least number.
Fits(o, quot, wide) ==
    IF o = "div" THEN quot < Size(wide)
    ELSE quot \in (1 - (Size(wide) \div 2))..((Size(wide) \div 2) - 1)

do_division(o, i) ==
    LET num(x, wide) == IF o = "idiv" THEN Signed(x, wide) ELSE x
        base == IF i.wide THEN num(i.dx, TRUE) * 65536 + i.ax
                ELSE num(i.ax, TRUE)
        div == num(i.src, i.wide)
        quot == Truncated(base, div)
        rem == base - quot * div
    IN  CASE div = 0 -> [i EXCEPT !.status = "thrown"]
          [] o = "idiv" /\ i.wide /\ i.dx = 32768 /\ i.ax = 0 /\ div = -1 ->
                [i EXCEPT !.status = "died"]
          [] OTHER ->
                IF ~Fits(o, quot, i.wide) THEN [i EXCEPT !.status = "thrown"]
                ELSE [i EXCEPT
                        !.ax = IF i.wide THEN quot % 65536 ELSE Ax(rem, quot),
                        !.dx = IF i.wide THEN rem % 65536 ELSE @,
                        !.flags = Cleared(@, {"o", "s", "z", "a", "p", "c"})]

\* FAULTY: the low digit is not cut off.
ascii_adjust_uncut(i, sign) ==
    LET adjust == Al(i.ax) > 9
        al == Al(i.ax) + (IF adjust THEN sign * 6 ELSE 0)
        ah == Ah(i.ax) + (IF adjust THEN sign ELSE 0)
    IN  [i EXCEPT !.ax = Ax(ah, al),
                  !.flags = [Cleared(@, {"o", "s", "z", "p"}) EXCEPT
                                !.c = adjust, !.a = adjust]]

ascii_adjust_addsub(i, sign) ==
    LET adjust == Al(i.ax) > 9
        al == Al(i.ax) + (IF adjust THEN sign * 6 ELSE 0)
        ah == Ah(i.ax) + (IF adjust THEN sign ELSE 0)
    IN  [i EXCEPT !.ax = Ax(ah, al % 16),
                  !.flags = [Cleared(@, {"o", "s", "z", "p"}) EXCEPT
                                !.c = adjust, !.a = adjust]]

decimal_adjust_addsub(i, sign) ==
    LET low == Al(i.ax) % 16 > 9 \/ i.flags.a
        hi == Al(i.ax) > 153
        al == (Al(i.ax) + sign * ((IF low THEN 6 ELSE 0) + (IF hi THEN 96 ELSE 0)))
              % 256
    IN  [i EXCEPT !.ax = Ax(Ah(@), al),
                  !.flags = Cleared(update_common_flags(
                                [@ EXCEPT !.a = low, !.c = hi], al, FALSE), {"o"})]

aam(i) ==
    LET al == Al(i.ax) % 10
    IN  [i EXCEPT !.ax = Ax(Al(@) \div 10, al),
                  !.flags = Cleared(update_common_flags(@, al, FALSE), {"o", "a", "c"})]

aad(i) ==
    LET al == (Ah(i.ax) * 10 + Al(i.ax)) % 256
    IN  [i EXCEPT !.ax = al,
                  !.flags = Cleared(update_common_flags(@, al, FALSE), {"o", "a", "c"})]

\* cwd keeps the sign only: 1 for a positive number.
Adjust(o, i) ==
    CASE o = "aaa" -> ascii_adjust_addsub(i, 1)
      [] o = "aas" -> ascii_adjust_addsub(i, -1)
      [] o = "daa" -> decimal_adjust_addsub(i, 1)
      [] o = "das" -> decimal_adjust_addsub(i, -1)
      [] o = "aam" -> aam(i)
      [] o = "aad" -> aad(i)
      [] o = "cbw" -> [i EXCEPT !.ax = Signed(Al(@), FALSE) % 65536]
      [] o = "cwd" -> [i EXCEPT !.dx = IF is_neg(i.ax, TRUE) THEN 65535
                                       ELSE IF i.ax = 0 THEN 0 ELSE 1]

\* All of them, for the instructions that have a result in dest, or in AX and DX.
Computed(o, i) ==
    CASE o \in Adds \cup Subs -> AddSub(o, i)
      [] o \in Negations -> Negate(o, i)
      [] o \in Logic -> Logical(o, i)
      [] o \in Shifts -> Shift(o, i)
      [] o \in Rotates -> Rotate(o, i)
      [] o \in Multiplications -> do_multiplication(o, i)
      [] o \in Divisions -> do_division(o, i)
      [] o \in Adjusts -> Adjust(o, i)

\* The conditions of the jumps (simulator.cpp 1085-1132).
JumpTaken(jump, f) ==
    CASE jump = "je" -> f.z
      [] jump = "jne" -> ~f.z
      [] jump = "jb" -> f.c /\ ~f.z
      [] jump = "jbe" -> f.c \/ f.z
      [] jump = "jae" -> ~f.c \/ f.z
      [] jump = "ja" -> ~f.c /\ ~f.z
      [] jump = "jl" -> f.s /\ ~f.z
      [] jump = "jle" -> f.s \/ f.z
      [] jump = "jge" -> ~f.s \/ f.z
      [] jump = "jg" -> ~f.s /\ ~f.z
=============================================================================
