----------------------------- MODULE JsonLexemes -----------------------------
(***************************************************************************)
(* What the tokens of a file are, without scanning it: a byte is inside a  *)
(* string when an odd number of quotes precedes it; the separators outside *)
(* strings cut the file into runs; every run is a token and so is every    *)
(* punctuation mark that cuts.                                             *)
(***************************************************************************)
EXTENDS JsonChars, FiniteSets, SequencesExt

\* The file ends at the first 0xFF.
Visible(src) == 
  LET ends == {i \in DOMAIN src : IsEof(src[i])}
  IN  IF ends = {} THEN src ELSE SubSeq(src, 1, (CHOOSE i \in ends : \A j \in ends : i <= j) - 1)

InString(s, i) == Cardinality({q \in 1 .. i - 1 : s[q] = Quote}) % 2 = 1

Cuts(s) == {i \in DOMAIN s : ~InString(s, i) /\ IsSeparator(s[i])}

\* The maximal stretches without a cut, as pairs of positions.
Runs(s) ==
  {r \in (DOMAIN s) \X (DOMAIN s) :
     /\ r[1] <= r[2]
     /\ \A i \in r[1] .. r[2] : i \notin Cuts(s)
     /\ r[1] = 1 \/ r[1] - 1 \in Cuts(s)
     /\ r[2] = Len(s) \/ r[2] + 1 \in Cuts(s)}

AllDigits(t) == t # <<>> /\ \A i \in DOMAIN t : IsDigit(t[i])
Unsigned(t) == IF t # <<>> /\ t[1] = Minus THEN Tail(t) ELSE t
HasFraction(t) == \E i \in DOMAIN t : t[i] = Dot

\* digits, or digits.digits
IsDecimal(t) ==
  \/ AllDigits(t)
  \/ \E i \in DOMAIN t : /\ t[i] = Dot
                         /\ AllDigits(SubSeq(t, 1, i - 1))
                         /\ AllDigits(SubSeq(t, i + 1, Len(t)))

\* A decimal, then e with an optional sign, then a digit, then anything.
HasExponent(t) ==
  \E i \in DOMAIN t :
    /\ t[i] = Exponent
    /\ IsDecimal(SubSeq(t, 1, i - 1))
    /\ LET e == SubSeq(t, i + 1, Len(t))
           u == IF e # <<>> /\ e[1] \in {"+", Minus} THEN Tail(e) ELSE e
       IN  u # <<>> /\ IsDigit(u[1])

RunKind(s, r) ==
  LET t == SubSeq(s, r[1], r[2])
      names == {n \in DOMAIN Literals : IsPrefix(t, Literals[n])}
  IN  CASE Contains(t, Quote) -> IF InString(s, r[2] + 1) THEN "error" ELSE "string"
        [] ~Contains(t, Quote) /\ names # {} -> CHOOSE n \in names : TRUE
        [] ~Contains(t, Quote) /\ names = {} ->
             CASE IsDecimal(Unsigned(t)) -> "numeric"
               [] HasExponent(Unsigned(t)) -> "loops"
               [] OTHER -> "error"

Lexemes(s) ==
  {[first |-> r[1], last |-> r[2], kind |-> RunKind(s, r)] : r \in Runs(s)}
    \cup {[first |-> i, last |-> i, kind |-> s[i]] : i \in {j \in Cuts(s) : s[j] \in Punctuation}}

\* The k-th lexeme of the file.
Nth(lexemes, k) ==
  CHOOSE l \in lexemes : Cardinality({m \in lexemes : m.first <= l.first}) = k
=============================================================================
