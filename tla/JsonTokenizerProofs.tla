------------------------- MODULE JsonTokenizerProofs -------------------------
(***************************************************************************)
(* For every file: the position stays inside it although every identifier  *)
(* puts a byte back, and the view of an identifier stays inside what has   *)
(* been read although it skips over quotes.  And the tokens are the        *)
(* lexemes of the file: what parse_double makes of a text is what it is    *)
(* (ParsedAsIs), lexemes follow each other (RunEnds, CutPassed, NthIs),    *)
(* and while it scans, the tokenizer knows how many lie behind it and what *)
(* the identifier it has begun is (LexInv).                                *)
(***************************************************************************)
EXTENDS JsonTokenizer, FiniteSetTheorems, SequenceTheorems, WellFoundedInduction, TLAPS

\* ViewInside is not inductive: a byte is put back only when one was read,
\* which the flags have to say.
ScanInv ==
  /\ TypeOK
  /\ ViewInside
  /\ pc = "scan" => (token_had_string => pos > 0)
  /\ pc = "scan" => (is_in_string => token_had_string)

LEMMA LenNat == ASSUME source \in Seq(STRING) PROVE Len(source) \in Nat
OBVIOUS

\* Reading moves by one byte, or not at all at the end of the file.
LEMMA NextPosition ==
  ASSUME TypeOK
  PROVE  /\ Len(source) \in Nat /\ pos \in Nat /\ pos <= Len(source)
         /\ next \in 0 .. Len(source)
         /\ next = pos \/ next = pos + 1
         /\ ~IsEof(c) => next = pos + 1 /\ pos < Len(source)
<1>1. Len(source) \in Nat /\ pos \in Nat /\ pos <= Len(source)
  BY LenNat DEF TypeOK
<1>2. CASE pos >= Len(source)
  BY <1>1, <1>2 DEF next, c, IsEof
<1>3. CASE ~(pos >= Len(source))
  BY <1>1, <1>3 DEF next
<1> QED BY <1>1, <1>2, <1>3

\* Whatever a literal is turned into, it is no view into the file.
LEMMA NumbersHaveNoText ==
  ASSUME NEW t, NEW n \in parse_double(t)
  PROVE  n.from = 0 /\ n.len = 0
<1>1. \A b : Number(b).from = 0 /\ Number(b).len = 0
  BY DEF Number, Token
<1>2. \A y : Token(y).from = 0 /\ Token(y).len = 0
  BY DEF Token
<1> HIDE DEF Number, Token
<1>3. (\E b : n = Number(b)) \/ (\E y : n = Token(y))
  BY DEF parse_double
<1> QED BY <1>1, <1>2, <1>3

\* The text of an identifier's token is the view, or there is none.
LEMMA IdentifierText ==
  ASSUME NEW t \in IdentifierTokens
  PROVE  (t.from = view_s /\ t.len = view_len) \/ (t.from = 0 /\ t.len = 0)
<1>1. CASE token_had_string
  BY <1>1 DEF IdentifierTokens, Token
<1>2. CASE ~token_had_string
  <2>1. (\E y : t = Token(y)) \/ t \in parse_double(identifier)
    BY <1>2 DEF IdentifierTokens
  <2>2. \A y : Token(y).from = 0 /\ Token(y).len = 0
    BY DEF Token
  <2> QED BY <2>1, <2>2, NumbersHaveNoText
<1> QED BY <1>1, <1>2

\* Returning a token keeps the invariant if the token's text is in the file.
LEMMA YieldKeeps ==
  ASSUME ScanInv, NEW t, NEW p \in 0 .. Len(source), Yield(t, p),
         t.from \in 0 .. Len(source), t.len \in 0 .. Len(source),
         t.from + t.len <= Len(source)
  PROVE  ScanInv'
<1>1. /\ pos' = p /\ tok' = t /\ pc' \in {"hung", "yield"}
      /\ count' = IF count <= Len(source) THEN count + 1 ELSE count
      /\ UNCHANGED <<source, view_s, view_len, is_in_string, token_had_string>>
  BY DEF Yield, locals
<1>2. count' \in 0 .. Len(source) + 1
  BY <1>1, LenNat DEF ScanInv, TypeOK
<1>3. TypeOK'
  BY <1>1, <1>2 DEF ScanInv, TypeOK
<1>4. ViewInside'
  BY <1>1 DEF ViewInside
<1> QED BY <1>1, <1>3, <1>4 DEF ScanInv

LEMMA ScanInit == Init => ScanInv
<1> SUFFICES ASSUME Init PROVE ScanInv
  OBVIOUS
<1>1. source \in Seq(STRING)
  BY SourcesAssumption DEF Init
<1>2. TypeOK
  <2>1. Len(source) \in Nat
    BY <1>1, LenNat
  <2>2. tok.from = 0 /\ tok.len = 0
    BY DEF Init, Token
  <2>3. is_in_string \in BOOLEAN /\ token_had_string \in BOOLEAN
    BY DEF Init
  <2>4. pos = 0 /\ view_s = 0 /\ view_len = 0 /\ count = 0 /\ pc = "scan"
    BY DEF Init
  <2> QED BY <1>1, <2>1, <2>2, <2>3, <2>4 DEF TypeOK
<1> QED BY <1>2 DEF Init, ScanInv, ViewInside

LEMMA ScanNext == ScanInv /\ [Next]_vars => ScanInv'
<1> SUFFICES ASSUME ScanInv, [Next]_vars PROVE ScanInv'
  OBVIOUS
<1> USE NextPosition DEF ScanInv
<1>0. \A y : Token(y).from = 0 /\ Token(y).len = 0
  BY DEF Token
<1>1. CASE UnterminatedString
  BY <1>0, <1>1, YieldKeeps DEF UnterminatedString
<1>2. CASE ReadQuote
  <2>1. pc = "scan" /\ pc' = "scan" /\ pos' = pos + 1 /\ pos' \in 0 .. Len(source)
    BY <1>2 DEF ReadQuote, IsEof, Quote, EOF
  <2>2. /\ is_in_string' \in BOOLEAN /\ token_had_string'
        /\ UNCHANGED <<source, view_s, view_len, tok, count>>
    BY <1>2 DEF ReadQuote
  <2>3. TypeOK'
    BY <2>1, <2>2 DEF TypeOK
  <2>4. ViewInside'
    BY <2>1, <2>2 DEF ViewInside, TypeOK
  <2> QED BY <2>1, <2>2, <2>3, <2>4
<1>3. CASE EndIdentifier
  <2>1. PICK t \in IdentifierTokens : Yield(t, PutBack)
    BY <1>3 DEF EndIdentifier
  <2>2. pc = "scan" /\ HasIdentifier
    BY <1>3, <2>1 DEF EndIdentifier, Yield
  <2>3. view_s + view_len <= pos
    BY <2>2 DEF ViewInside
  <2>4. pos > 0
    BY <2>2, <2>3 DEF HasIdentifier, TypeOK
  <2>5. PutBack \in 0 .. Len(source)
    BY <2>4 DEF PutBack
  <2>6. /\ t.from \in 0 .. Len(source) /\ t.len \in 0 .. Len(source)
        /\ t.from + t.len <= Len(source)
    BY <2>3, IdentifierText DEF TypeOK
  <2> QED BY <2>1, <2>5, <2>6, YieldKeeps
<1>4. CASE YieldPunctuation
  BY <1>0, <1>4, YieldKeeps DEF YieldPunctuation
<1>5. CASE YieldEof
  BY <1>0, <1>5, YieldKeeps DEF YieldEof
<1>6. CASE SkipWhitespace
  <2>1. /\ pc = "scan" /\ pc' = "scan" /\ pos' = next
        /\ UNCHANGED <<source, view_s, view_len, is_in_string, token_had_string, tok, count>>
    BY <1>6 DEF SkipWhitespace, locals
  <2>2. TypeOK'
    BY <2>1 DEF TypeOK
  <2>3. ViewInside'
    BY <2>1 DEF ViewInside, TypeOK
  <2> QED BY <2>1, <2>2, <2>3
<1>7. CASE AddToIdentifier
  <2>1. ~IsEof(c)
    BY <1>7 DEF AddToIdentifier, IsSeparator
  <2>2. /\ pc = "scan" /\ pc' = "scan" /\ pos' = pos + 1 /\ pos < Len(source)
        /\ UNCHANGED <<source, is_in_string, token_had_string, tok, count>>
    BY <1>7, <2>1 DEF AddToIdentifier
  <2>3. view_s' \in Nat /\ view_len' \in Nat /\ view_s' + view_len' <= pos + 1
    <3>1. CASE view_len > 0
      BY <1>7, <2>2, <3>1 DEF AddToIdentifier, ViewInside, TypeOK
    <3>2. CASE ~(view_len > 0)
      BY <1>7, <2>1, <2>2, <3>2 DEF AddToIdentifier, ViewStart
    <3> QED BY <3>1, <3>2
  <2>4. TypeOK'
    <3>1. view_s' \in 0 .. Len(source) /\ view_len' \in 0 .. Len(source) /\ pos' \in 0 .. Len(source)
      BY <2>2, <2>3
    <3> QED BY <2>2, <3>1 DEF TypeOK
  <2>5. ViewInside'
    BY <2>2, <2>3 DEF ViewInside
  <2> QED BY <2>2, <2>4, <2>5
<1>8. CASE PrintToken
  <2>1. pc = "yield" /\ UNCHANGED <<source, pos, tok, count>>
    BY <1>8 DEF PrintToken
  <2>2. CASE tok.type \in Final
    <3>1. pc' = "done" /\ UNCHANGED <<view_s, view_len, is_in_string, token_had_string>>
      BY <1>8, <2>2 DEF PrintToken, locals
    <3>2. TypeOK' /\ ViewInside'
      BY <2>1, <3>1 DEF TypeOK, ViewInside
    <3> QED BY <3>1, <3>2
  <2>3. CASE tok.type \notin Final
    <3>1. pc' = "scan" /\ view_s' = 0 /\ view_len' = 0
      BY <1>8, <2>3 DEF PrintToken
    <3>2. is_in_string' = FALSE /\ token_had_string' = FALSE
      BY <1>8, <2>3 DEF PrintToken
    <3>3. is_in_string' \in BOOLEAN /\ token_had_string' \in BOOLEAN
      BY <3>2
    <3>4. TypeOK' /\ ViewInside'
      BY <2>1, <3>1, <3>3 DEF TypeOK, ViewInside
    <3> QED BY <3>1, <3>2, <3>4
  <2> QED BY <2>2, <2>3
<1>9. CASE UNCHANGED vars
  BY <1>9 DEF vars, locals, TypeOK, ViewInside
<1>10. CASE Terminating
  BY <1>9, <1>10 DEF Terminating
<1> QED
  BY <1>1, <1>2, <1>3, <1>4, <1>5, <1>6, <1>7, <1>8, <1>9, <1>10 DEF Next, GetNextToken

LEMMA Scanning == Spec => []ScanInv
<1> QED BY ScanInit, ScanNext, PTL DEF Spec

\* Type correctness; in particular the position never leaves the file (:146, :163).
THEOREM TypeCorrect == Spec => []TypeOK
<1>1. ScanInv => TypeOK
  BY DEF ScanInv
<1> QED BY <1>1, Scanning, PTL

\* An identifier is always inside the bytes that were read (:167, :235).
THEOREM ViewsStayInside == Spec => []ViewInside
<1>1. ScanInv => ViewInside
  BY DEF ScanInv
<1> QED BY <1>1, Scanning, PTL

----------------------------------------------------------------------------
(* What a literal is *)

\* Every set of naturals has a least element.
LEMMA LeastNatural ==
  ASSUME NEW T \in SUBSET Nat, T # {}
  PROVE  \E x \in T : \A y \in T : x <= y
<1>. DEFINE R == OpToRel(<, Nat)
<1>1. IsWellFoundedOn(R, Nat)
  BY NatLessThanWellFounded
<1>2. \A y, x \in Nat : y < x => <<y, x>> \in R
  BY DEF OpToRel
<1>. HIDE DEF R
<1>3. PICK x \in T : \A y \in T : ~ (<<y, x>> \in R)
  BY <1>1, WFMin
<1>4. ASSUME NEW y \in T PROVE ~ (y < x)
  <2>1. y \in Nat /\ x \in Nat
    OBVIOUS
  <2>. QED
    BY <2>1, <1>2, <1>3, Zenon
<1>. QED
  BY <1>4

\* A part of a text, by its positions.
LEMMA PartIs ==
  ASSUME NEW t \in Seq(STRING), NEW i \in Int, NEW j \in Int, 1 <= i, j <= Len(t)
  PROVE  /\ SubSeq(t, i, j) \in Seq(STRING)
         /\ Len(SubSeq(t, i, j)) = IF i <= j THEN j - i + 1 ELSE 0
         /\ \A k \in 1 .. j - i + 1 : SubSeq(t, i, j)[k] = t[i + k - 1]
<1>1. \A k \in i .. j : t[k] \in STRING
  OBVIOUS
<1>. QED
  BY <1>1, SubSeqProperties

\* DigitsAfter finds all the digits there are.
LEMMA DigitsAre ==
  ASSUME NEW t \in Seq(STRING), NEW i \in 0 .. Len(t)
  PROVE  /\ DigitsAfter(t, i) \in 0 .. Len(t) - i
         /\ \A j \in i + 1 .. i + DigitsAfter(t, i) : IsDigit(t[j])
         /\ i + DigitsAfter(t, i) = Len(t) \/ ~IsDigit(t[i + DigitsAfter(t, i) + 1])
<1>. DEFINE All(n) == /\ \A j \in i + 1 .. i + n : IsDigit(t[j])
                      /\ i + n = Len(t) \/ ~IsDigit(t[i + n + 1])
            T == {n \in 0 .. Len(t) - i : i + n = Len(t) \/ ~IsDigit(t[i + n + 1])}
<1>0. Len(t) \in Nat
  OBVIOUS
<1>1. T \in SUBSET Nat /\ Len(t) - i \in T
  BY <1>0
<1>2. PICK n \in T : \A m \in T : n <= m
  <2>1. T # {}
    BY <1>1
  <2>. HIDE DEF T
  <2>. QED
    BY ONLY <1>1, <2>1, LeastNatural
<1>3. ASSUME NEW j \in i + 1 .. i + n PROVE IsDigit(t[j])
  <2>1. n \in 0 .. Len(t) - i
    OBVIOUS
  <2>2. j - 1 - i \in 0 .. Len(t) - i /\ j - 1 - i < n
    BY <1>0, <2>1
  <2>3. j - 1 - i \notin T
    <3>. SUFFICES ASSUME j - 1 - i \in T PROVE FALSE
      OBVIOUS
    <3>1. n <= j - 1 - i
      BY <1>2
    <3>. QED
      BY <1>0, <2>1, <2>2, <3>1
  <2>4. IsDigit(t[i + (j - 1 - i) + 1])
    BY <2>2, <2>3
  <2>5. i + (j - 1 - i) + 1 = j
    BY <1>0
  <2>. QED
    BY <2>4, <2>5
<1>4. \E m \in 0 .. Len(t) - i : All(m)
  BY <1>2, <1>3
<1>5. DigitsAfter(t, i) = CHOOSE m \in 0 .. Len(t) - i : All(m)
  BY DEF DigitsAfter
<1>. HIDE DEF All
<1>6. DigitsAfter(t, i) \in 0 .. Len(t) - i /\ All(DigitsAfter(t, i))
  BY <1>4, <1>5
<1>. QED
  BY <1>6 DEF All

\* The bytes a + 1 .. e of a text: digits, and digits with a fraction.
Digits(t, a, e) == a < e /\ \A i \in a + 1 .. e : IsDigit(t[i])
Decimal(t, a, e) ==
  \/ Digits(t, a, e)
  \/ \E d \in a + 1 .. e : t[d] = Dot /\ Digits(t, a, d - 1) /\ Digits(t, d, e)

\* u is the part of t after a.
After(t, a, u) ==
  /\ t \in Seq(STRING) /\ u \in Seq(STRING) /\ a \in Nat
  /\ Len(t) = a + Len(u)
  /\ \A i \in 1 .. Len(u) : u[i] = t[a + i]

LEMMA PartDigits ==
  ASSUME NEW t, NEW a, NEW u, After(t, a, u), NEW i \in Nat, NEW j \in Nat, 1 <= i, i <= j + 1, j <= Len(u)
  PROVE  AllDigits(SubSeq(u, i, j)) <=> Digits(t, a + i - 1, a + j)
<1>. DEFINE w == SubSeq(u, i, j)
<1>1. /\ u \in Seq(STRING) /\ a \in Nat /\ Len(u) \in Nat
      /\ \A k \in 1 .. Len(u) : u[k] = t[a + k]
  BY DEF After
<1>2. /\ w \in Seq(STRING) /\ Len(w) = j - i + 1
      /\ \A k \in 1 .. j - i + 1 : w[k] = u[i + k - 1]
  BY <1>1, PartIs
<1>. HIDE DEF w
<1>3. w # <<>> <=> i <= j
  BY <1>2
<1>4. \A k \in 1 .. j - i + 1 : w[k] = t[a + i - 1 + k]
  <2>. TAKE k \in 1 .. j - i + 1
  <2>1. i + k - 1 \in 1 .. Len(u) /\ a + (i + k - 1) = a + i - 1 + k
    BY <1>1
  <2>. QED
    BY <1>1, <1>2, <2>1
<1>5. DOMAIN w = 1 .. j - i + 1
  BY <1>2
<1>6. ASSUME AllDigits(w) PROVE Digits(t, a + i - 1, a + j)
  <2>1. i <= j /\ \A k \in 1 .. j - i + 1 : IsDigit(w[k])
    BY <1>3, <1>5, <1>6 DEF AllDigits
  <2>2. ASSUME NEW k \in a + i - 1 + 1 .. a + j PROVE IsDigit(t[k])
    <3>1. k - (a + i - 1) \in 1 .. j - i + 1 /\ a + i - 1 + (k - (a + i - 1)) = k
      BY <1>1
    <3>. QED
      BY <1>4, <2>1, <3>1
  <2>. QED
    BY <1>1, <2>1, <2>2 DEF Digits
<1>7. ASSUME Digits(t, a + i - 1, a + j) PROVE AllDigits(w)
  <2>1. i <= j /\ \A k \in a + i - 1 + 1 .. a + j : IsDigit(t[k])
    BY <1>1, <1>7 DEF Digits
  <2>2. ASSUME NEW k \in 1 .. j - i + 1 PROVE IsDigit(w[k])
    <3>1. a + i - 1 + k \in a + i - 1 + 1 .. a + j
      BY <1>1
    <3>. QED
      BY <1>4, <2>1, <3>1
  <2>. QED
    BY <1>3, <1>5, <2>1, <2>2 DEF AllDigits
<1>. QED
  BY <1>6, <1>7 DEF w

LEMMA PartDecimal ==
  ASSUME NEW t, NEW a, NEW u, After(t, a, u), NEW k \in 0 .. Len(u)
  PROVE  IsDecimal(SubSeq(u, 1, k)) <=> Decimal(t, a, a + k)
<1>. DEFINE w == SubSeq(u, 1, k)
<1>1. /\ u \in Seq(STRING) /\ a \in Nat /\ Len(u) \in Nat /\ k \in Nat /\ k <= Len(u)
      /\ \A i \in 1 .. Len(u) : u[i] = t[a + i]
  BY DEF After
<1>2. /\ w \in Seq(STRING) /\ Len(w) = k /\ DOMAIN w = 1 .. k
      /\ \A i \in 1 .. k : w[i] = t[a + i]
  <2>1. w \in Seq(STRING) /\ Len(w) = k /\ \A i \in 1 .. k - 1 + 1 : w[i] = u[1 + i - 1]
    BY <1>1, PartIs
  <2>2. \A i \in 1 .. k : i \in 1 .. k - 1 + 1 /\ 1 + i - 1 = i /\ i \in 1 .. Len(u)
    BY <1>1
  <2>. HIDE DEF w
  <2>. QED
    BY <1>1, <2>1, <2>2
<1>3. AllDigits(w) <=> Digits(t, a, a + k)
  <2>1. a + 1 - 1 = a
    BY <1>1
  <2>. QED
    BY <1>1, <2>1, PartDigits
<1>4. \A d \in 1 .. k : /\ SubSeq(w, 1, d - 1) = SubSeq(u, 1, d - 1)
                        /\ SubSeq(w, d + 1, Len(w)) = SubSeq(u, d + 1, k)
  <2>. TAKE d \in 1 .. k
  <2>. DEFINE x == SubSeq(w, 1, d - 1)
              y == SubSeq(u, 1, d - 1)
              x2 == SubSeq(w, d + 1, Len(w))
              y2 == SubSeq(u, d + 1, k)
  <2>0. d - 1 \in Int /\ d + 1 \in Int /\ 1 <= d + 1 /\ d - 1 <= k /\ d - 1 <= Len(u) /\ d - 1 <= Len(w)
    BY <1>1, <1>2
  <2>9. \A i \in 1 .. k : w[i] = u[i]
    BY <1>1, <1>2
  <2>1. x = y
    <3>1. x \in Seq(STRING) /\ Len(x) = (IF 1 <= d - 1 THEN d - 1 - 1 + 1 ELSE 0)
          /\ \A i \in 1 .. d - 1 - 1 + 1 : x[i] = w[1 + i - 1]
      BY <1>2, <2>0, PartIs
    <3>2. y \in Seq(STRING) /\ Len(y) = (IF 1 <= d - 1 THEN d - 1 - 1 + 1 ELSE 0)
          /\ \A i \in 1 .. d - 1 - 1 + 1 : y[i] = u[1 + i - 1]
      BY <1>1, <2>0, PartIs
    <3>3. \A i \in 1 .. d - 1 : i \in 1 .. d - 1 - 1 + 1 /\ 1 + i - 1 = i /\ i \in 1 .. k
      OBVIOUS
    <3>. HIDE DEF x, y, w
    <3>4. \A i \in 1 .. d - 1 : x[i] = y[i]
      BY <2>9, <3>1, <3>2, <3>3
    <3>5. Len(x) = Len(y) /\ \A i \in 1 .. Len(x) : i \in 1 .. d - 1
      BY <3>1, <3>2
    <3>. QED
      BY <3>1, <3>2, <3>4, <3>5
  <2>2. x2 = y2
    <3>1. x2 \in Seq(STRING) /\ Len(x2) = (IF d + 1 <= k THEN k - (d + 1) + 1 ELSE 0)
          /\ \A i \in 1 .. k - (d + 1) + 1 : x2[i] = w[d + 1 + i - 1]
      BY <1>1, <1>2, <2>0, PartIs
    <3>2. y2 \in Seq(STRING) /\ Len(y2) = (IF d + 1 <= k THEN k - (d + 1) + 1 ELSE 0)
          /\ \A i \in 1 .. k - (d + 1) + 1 : y2[i] = u[d + 1 + i - 1]
      BY <1>1, <2>0, PartIs
    <3>3. \A i \in 1 .. k - (d + 1) + 1 : d + 1 + i - 1 \in 1 .. k
      OBVIOUS
    <3>. HIDE DEF x2, y2, w
    <3>4. \A i \in 1 .. k - (d + 1) + 1 : x2[i] = y2[i]
      BY <2>9, <3>1, <3>2, <3>3
    <3>5. Len(x2) = Len(y2) /\ \A i \in 1 .. Len(x2) : i \in 1 .. k - (d + 1) + 1
      BY <3>1, <3>2
    <3>. QED
      BY <3>1, <3>2, <3>4, <3>5
  <2>. QED
    BY <2>1, <2>2
<1>. DEFINE Halves(d) == AllDigits(SubSeq(u, 1, d - 1)) /\ AllDigits(SubSeq(u, d + 1, k))
<1>5. \A d \in 1 .. k : Halves(d) <=> Digits(t, a, a + d - 1) /\ Digits(t, a + d, a + k)
  <2>. TAKE d \in 1 .. k
  <2>1. d - 1 \in Nat /\ d + 1 \in Nat /\ 1 <= d + 1 /\ d - 1 <= Len(u) /\ d + 1 <= k + 1
        /\ a + 1 - 1 = a /\ a + (d - 1) = a + d - 1 /\ a + (d + 1) - 1 = a + d
    BY <1>1
  <2>2. AllDigits(SubSeq(u, 1, d - 1)) <=> Digits(t, a + 1 - 1, a + (d - 1))
    BY <1>1, <2>1, PartDigits
  <2>3. AllDigits(SubSeq(u, d + 1, k)) <=> Digits(t, a + (d + 1) - 1, a + k)
    BY <1>1, <2>1, PartDigits
  <2>. QED
    BY <2>1, <2>2, <2>3
<1>6. IsDecimal(w) <=> AllDigits(w) \/ \E d \in 1 .. k : w[d] = Dot /\ Halves(d)
  BY <1>2, <1>4 DEF IsDecimal
<1>7. Decimal(t, a, a + k) <=> Digits(t, a, a + k) \/ \E d \in 1 .. k : t[a + d] = Dot
      /\ Digits(t, a, a + d - 1) /\ Digits(t, a + d, a + k)
  <2>1. \A d \in a + 1 .. a + k : d - a \in 1 .. k /\ d = a + (d - a)
    BY <1>1
  <2>2. \A m \in 1 .. k : a + m \in a + 1 .. a + k
    BY <1>1
  <2>3. ASSUME NEW d \in a + 1 .. a + k, t[d] = Dot, Digits(t, a, d - 1), Digits(t, d, a + k)
        PROVE  \E m \in 1 .. k : t[a + m] = Dot /\ Digits(t, a, a + m - 1) /\ Digits(t, a + m, a + k)
    <3>. DEFINE m == d - a
    <3>1. m \in 1 .. k /\ d = a + m /\ d - 1 = a + m - 1
      BY <1>1, <2>1
    <3>. HIDE DEF m
    <3>2. t[a + m] = Dot /\ Digits(t, a, a + m - 1) /\ Digits(t, a + m, a + k)
      BY ONLY <2>3, <3>1, Zenon
    <3>. QED
      BY <3>1, <3>2
  <2>4. ASSUME NEW m \in 1 .. k, t[a + m] = Dot, Digits(t, a, a + m - 1), Digits(t, a + m, a + k)
        PROVE  \E d \in a + 1 .. a + k : t[d] = Dot /\ Digits(t, a, d - 1) /\ Digits(t, d, a + k)
    <3>. DEFINE d == a + m
    <3>1. d \in a + 1 .. a + k /\ d - 1 = a + m - 1
      BY <1>1, <2>2
    <3>2. t[d] = Dot /\ Digits(t, d, a + k) /\ Digits(t, a, a + m - 1)
      BY <2>4, Zenon
    <3>. HIDE DEF d
    <3>. QED
      BY <3>1, <3>2
  <2>. QED
    BY <2>3, <2>4, Zenon DEF Decimal
<1>. HIDE DEF Halves, w
<1>. QED
  BY <1>2, <1>3, <1>5, <1>6, <1>7 DEF w

\* After position x a digit follows, perhaps with a sign before it.
DigitFollows(t, x) ==
  LET y == IF x < Len(t) /\ t[x + 1] \in {"+", Minus} THEN x + 1 ELSE x
  IN  y < Len(t) /\ IsDigit(t[y + 1])

ExponentAt(u, i) ==
  LET e == SubSeq(u, i + 1, Len(u))
      w == IF e # <<>> /\ e[1] \in {"+", Minus} THEN Tail(e) ELSE e
  IN  w # <<>> /\ IsDigit(w[1])

LEMMA ExponentFollows ==
  ASSUME NEW t, NEW a, NEW u, After(t, a, u), NEW i \in 1 .. Len(u)
  PROVE  ExponentAt(u, i) <=> DigitFollows(t, a + i)
<1>. DEFINE e == SubSeq(u, i + 1, Len(u))
            w == IF e # <<>> /\ e[1] \in {"+", Minus} THEN Tail(e) ELSE e
            x == a + i
<1>1. /\ u \in Seq(STRING) /\ a \in Nat /\ Len(u) \in Nat /\ i \in Nat /\ i <= Len(u)
      /\ \A k \in 1 .. Len(u) : u[k] = t[a + k]
      /\ Len(t) = a + Len(u) /\ x \in Nat
  <2>1. /\ u \in Seq(STRING) /\ a \in Nat /\ Len(t) = a + Len(u)
        /\ \A k \in 1 .. Len(u) : u[k] = t[a + k]
    BY DEF After
  <2>2. Len(u) \in Nat
    BY <2>1
  <2>. QED
    BY <2>1, <2>2
<1>2. /\ e \in Seq(STRING) /\ Len(e) = Len(u) - i
      /\ \A k \in 1 .. Len(u) - i : e[k] = t[x + k]
  <2>1. /\ e \in Seq(STRING) /\ Len(e) = IF i + 1 <= Len(u) THEN Len(u) - (i + 1) + 1 ELSE 0
        /\ \A k \in 1 .. Len(u) - (i + 1) + 1 : e[k] = u[(i + 1) + k - 1]
    BY <1>1, PartIs
  <2>2. \A k \in 1 .. Len(u) - i : /\ k \in 1 .. Len(u) - (i + 1) + 1
                                   /\ (i + 1) + k - 1 = i + k /\ i + k \in 1 .. Len(u)
                                   /\ a + (i + k) = x + k
    BY <1>1
  <2>. HIDE DEF e, x
  <2>3. ASSUME NEW k \in 1 .. Len(u) - i PROVE e[k] = t[x + k]
    <3>1. e[k] = u[(i + 1) + k - 1]
      BY <2>1, <2>2
    <3>2. u[i + k] = t[a + (i + k)]
      BY <1>1, <2>2
    <3>. QED
      BY <2>2, <3>1, <3>2
  <2>4. Len(e) = Len(u) - i
    BY <1>1, <2>1
  <2>. QED
    BY <2>1, <2>3, <2>4
<1>3. e # <<>> <=> x < Len(t)
  <2>. HIDE DEF e
  <2>. QED
    BY <1>1, <1>2
<1>4. e # <<>> => e[1] = t[x + 1]
  <2>1. e # <<>> => 1 \in 1 .. Len(u) - i
    BY <1>1, <1>3
  <2>. HIDE DEF e, x
  <2>. QED
    BY <1>2, <2>1
<1>. HIDE DEF e, x
<1>5. CASE x < Len(t) /\ t[x + 1] \in {"+", Minus}
  <2>1. w = Tail(e) /\ e # <<>>
    BY <1>3, <1>4, <1>5
  <2>2. /\ Tail(e) \in Seq(STRING) /\ Len(Tail(e)) = Len(e) - 1
        /\ \A k \in 1 .. Len(Tail(e)) : Tail(e)[k] = e[k + 1]
    BY <1>2, <2>1, HeadTailProperties
  <2>. HIDE DEF w
  <2>3. w # <<>> <=> x + 1 < Len(t)
    <3>1. Len(w) = Len(u) - i - 1 /\ w \in Seq(STRING)
      BY <1>2, <2>1, <2>2
    <3>2. w # <<>> <=> Len(w) > 0
      BY <3>1
    <3>. QED
      BY <1>1, <3>1, <3>2 DEF x
  <2>4. w # <<>> => w[1] = t[x + 1 + 1]
    <3>. SUFFICES ASSUME w # <<>> PROVE w[1] = t[x + 1 + 1]
      OBVIOUS
    <3>1. 1 \in 1 .. Len(Tail(e)) /\ 2 \in 1 .. Len(u) - i /\ x + 2 = x + 1 + 1
      BY <1>1, <1>2, <2>2, <2>3 DEF x
    <3>. QED
      BY <1>2, <2>1, <2>2, <3>1
  <2>5. DigitFollows(t, x) <=> x + 1 < Len(t) /\ IsDigit(t[x + 1 + 1])
    BY <1>5 DEF DigitFollows
  <2>6. ExponentAt(u, i) <=> w # <<>> /\ IsDigit(w[1])
    BY DEF ExponentAt, w, e
  <2>. QED
    BY <2>3, <2>4, <2>5, <2>6 DEF x
<1>6. CASE ~(x < Len(t) /\ t[x + 1] \in {"+", Minus})
  <2>1. w = e
    BY <1>3, <1>4, <1>6
  <2>2. DigitFollows(t, x) <=> x < Len(t) /\ IsDigit(t[x + 1])
    BY <1>6 DEF DigitFollows
  <2>3. ExponentAt(u, i) <=> w # <<>> /\ IsDigit(w[1])
    BY DEF ExponentAt, e
  <2>. HIDE DEF w
  <2>. QED
    BY <1>3, <1>4, <2>1, <2>2, <2>3 DEF x
<1>. QED
  BY <1>5, <1>6

\* Where the digits of a text begin.
Start(t) == IF t # <<>> /\ t[1] = Minus THEN 1 ELSE 0

LEMMA UnsignedIs ==
  ASSUME NEW t \in Seq(STRING)
  PROVE  /\ After(t, Start(t), Unsigned(t))
         /\ Start(t) \in 0 .. Len(t) /\ (At(t, 0, {Minus}) <=> Start(t) = 1)
<1>0. Len(t) \in Nat /\ (t # <<>> <=> Len(t) > 0)
  OBVIOUS
<1>1. CASE t # <<>> /\ t[1] = Minus
  <2>1. Start(t) = 1 /\ Unsigned(t) = Tail(t)
    BY <1>1 DEF Start, Unsigned
  <2>2. /\ Tail(t) \in Seq(STRING) /\ Len(Tail(t)) = Len(t) - 1
        /\ \A k \in 1 .. Len(Tail(t)) : Tail(t)[k] = t[k + 1]
    BY <1>1, HeadTailProperties
  <2>3. At(t, 0, {Minus})
    BY <1>0, <1>1 DEF At
  <2>. HIDE DEF Start
  <2>4. \A k \in 1 .. Len(Tail(t)) : k + 1 = 1 + k
    BY <1>0, <2>2
  <2>5. After(t, 1, Tail(t))
    BY <1>0, <2>2, <2>4 DEF After
  <2>. QED
    BY <1>0, <1>1, <2>1, <2>3, <2>5
<1>2. CASE ~(t # <<>> /\ t[1] = Minus)
  <2>1. Start(t) = 0 /\ Unsigned(t) = t
    BY <1>2 DEF Start, Unsigned
  <2>2. ~At(t, 0, {Minus})
    BY <1>0, <1>2 DEF At
  <2>3. \A k \in 1 .. Len(t) : 0 + k = k
    BY <1>0
  <2>4. After(t, 0, t)
    BY <1>0, <2>3 DEF After
  <2>. QED
    BY <1>0, <2>1, <2>2, <2>4
<1>. QED
  BY <1>1, <1>2

LEMMA NumberTexts ==
  ASSUME NEW t \in Seq(STRING)
  PROVE  /\ IsDecimal(Unsigned(t)) <=> Decimal(t, Start(t), Len(t))
         /\ HasExponent(Unsigned(t)) <=>
              \E x \in Start(t) + 1 .. Len(t) :
                 t[x] = Exponent /\ Decimal(t, Start(t), x - 1) /\ DigitFollows(t, x)
<1>. DEFINE u == Unsigned(t)
            a == Start(t)
<1>1. After(t, a, u)
  BY UnsignedIs
<1>. HIDE DEF u, a
<1>2. /\ u \in Seq(STRING) /\ a \in Nat /\ Len(u) \in Nat /\ Len(t) = a + Len(u)
      /\ \A k \in 1 .. Len(u) : u[k] = t[a + k]
  BY <1>1 DEF After
<1>3. IsDecimal(u) <=> Decimal(t, a, Len(t))
  <2>1. SubSeq(u, 1, Len(u)) = u
    BY <1>2, SubSeqFull
  <2>2. Len(u) \in 0 .. Len(u)
    BY <1>2
  <2>3. IsDecimal(SubSeq(u, 1, Len(u))) <=> Decimal(t, a, a + Len(u))
    BY <1>1, <2>2, PartDecimal
  <2>. QED
    BY <1>2, <2>1, <2>3
<1>4. \A i \in 1 .. Len(u) : IsDecimal(SubSeq(u, 1, i - 1)) <=> Decimal(t, a, a + i - 1)
  <2>. TAKE i \in 1 .. Len(u)
  <2>1. i - 1 \in 0 .. Len(u) /\ a + (i - 1) = a + i - 1
    BY <1>2
  <2>2. IsDecimal(SubSeq(u, 1, i - 1)) <=> Decimal(t, a, a + (i - 1))
    BY <1>1, <2>1, PartDecimal
  <2>. QED
    BY <2>1, <2>2
<1>5. \A i \in 1 .. Len(u) : ExponentAt(u, i) <=> DigitFollows(t, a + i)
  BY <1>1, ExponentFollows
<1>6. HasExponent(u) <=> \E i \in 1 .. Len(u) : u[i] = Exponent
      /\ IsDecimal(SubSeq(u, 1, i - 1)) /\ ExponentAt(u, i)
  <2>1. DOMAIN u = 1 .. Len(u)
    BY <1>2
  <2>. QED
    BY <2>1 DEF HasExponent, ExponentAt
<1>7. HasExponent(u) <=> \E i \in 1 .. Len(u) : t[a + i] = Exponent /\ Decimal(t, a, a + i - 1)
      /\ DigitFollows(t, a + i)
  BY <1>2, <1>4, <1>5, <1>6
<1>8. ASSUME NEW i \in 1 .. Len(u), t[a + i] = Exponent, Decimal(t, a, a + i - 1), DigitFollows(t, a + i)
      PROVE  \E x \in a + 1 .. Len(t) : t[x] = Exponent /\ Decimal(t, a, x - 1) /\ DigitFollows(t, x)
  <2>. DEFINE x == a + i
  <2>1. x \in a + 1 .. Len(t) /\ x - 1 = a + i - 1
    BY <1>2
  <2>2. t[x] = Exponent /\ Decimal(t, a, a + i - 1) /\ DigitFollows(t, x)
    BY <1>8, Zenon
  <2>. HIDE DEF x
  <2>. QED
    BY <2>1, <2>2
<1>9. ASSUME NEW x \in a + 1 .. Len(t), t[x] = Exponent, Decimal(t, a, x - 1), DigitFollows(t, x)
      PROVE  \E i \in 1 .. Len(u) : t[a + i] = Exponent /\ Decimal(t, a, a + i - 1) /\ DigitFollows(t, a + i)
  <2>. DEFINE i == x - a
  <2>1. i \in 1 .. Len(u) /\ x = a + i /\ x - 1 = a + i - 1
    BY <1>2
  <2>. HIDE DEF i
  <2>2. t[a + i] = Exponent /\ Decimal(t, a, a + i - 1) /\ DigitFollows(t, a + i)
    BY ONLY <1>9, <2>1, Zenon
  <2>. QED
    BY <2>1, <2>2
<1>. QED
  BY <1>3, <1>7, <1>8, <1>9 DEF a, u

LEMMA DigitsUpTo ==
  ASSUME NEW t \in Seq(STRING), NEW a \in 0 .. Len(t), NEW w, w = a + DigitsAfter(t, a)
  PROVE  /\ w \in a .. Len(t)
         /\ \A i \in a + 1 .. w : IsDigit(t[i])
         /\ w = Len(t) \/ ~IsDigit(t[w + 1])
         /\ \A e \in a .. Len(t) : Digits(t, a, e) <=> a < e /\ e <= w
<1>0. Len(t) \in Nat
  OBVIOUS
<1>1. /\ w \in a .. Len(t)
      /\ \A i \in a + 1 .. w : IsDigit(t[i])
      /\ w = Len(t) \/ ~IsDigit(t[w + 1])
  <2>. DEFINE n == DigitsAfter(t, a)
  <2>1. /\ n \in 0 .. Len(t) - a
        /\ \A j \in a + 1 .. a + n : IsDigit(t[j])
        /\ a + n = Len(t) \/ ~IsDigit(t[a + n + 1])
    BY DigitsAre
  <2>. HIDE DEF n
  <2>2. w = a + n
    BY DEF n
  <2>. QED
    BY <1>0, <2>1, <2>2
<1>2. ASSUME NEW e \in a .. Len(t), Digits(t, a, e) PROVE e <= w
  <2>1. \A i \in a + 1 .. e : IsDigit(t[i])
    BY <1>2 DEF Digits
  <2>2. w < e => w + 1 \in a + 1 .. e /\ w # Len(t)
    BY <1>0, <1>1
  <2>. QED
    BY <1>0, <1>1, <2>1, <2>2
<1>3. ASSUME NEW e \in a .. Len(t), a < e, e <= w PROVE Digits(t, a, e)
  BY <1>0, <1>1, <1>3 DEF Digits
<1>. QED
  BY <1>1, <1>2, <1>3 DEF Digits

LEMMA DecimalUpTo ==
  ASSUME NEW t \in Seq(STRING), NEW a \in 0 .. Len(t), NEW w, w = a + DigitsAfter(t, a),
         NEW m, NEW dot \in BOOLEAN, dot <=> w < Len(t) /\ t[w + 1] = Dot,
         m = IF dot THEN w + 1 + DigitsAfter(t, w + 1) ELSE w
  PROVE  /\ m \in w .. Len(t) /\ (dot => w + 1 <= m)
         /\ m = Len(t) \/ ~IsDigit(t[m + 1])
         /\ \A e \in a .. Len(t) :
              Decimal(t, a, e) <=> \/ a < e /\ e <= w
                                   \/ dot /\ a < w /\ w + 1 < e /\ e <= m
<1>0. Len(t) \in Nat
  OBVIOUS
<1>1. /\ w \in a .. Len(t)
      /\ \A i \in a + 1 .. w : IsDigit(t[i])
      /\ w = Len(t) \/ ~IsDigit(t[w + 1])
      /\ \A e \in a .. Len(t) : Digits(t, a, e) <=> a < e /\ e <= w
  BY DigitsUpTo
<1>2. CASE dot
  <2>. DEFINE p == w + 1
  <2>1. p \in 0 .. Len(t) /\ t[p] = Dot /\ m = p + DigitsAfter(t, p)
    BY <1>0, <1>1, <1>2
  <2>2. /\ m \in p .. Len(t)
        /\ m = Len(t) \/ ~IsDigit(t[m + 1])
        /\ \A e \in p .. Len(t) : Digits(t, p, e) <=> p < e /\ e <= m
    <3>. HIDE DEF p
    <3>. QED
      BY <2>1, DigitsUpTo
  <2>3. ASSUME NEW e \in a .. Len(t), NEW d \in a + 1 .. e, t[d] = Dot, Digits(t, a, d - 1), Digits(t, d, e)
        PROVE  a < w /\ p < e /\ e <= m
    <3>1. d - 1 \in a .. Len(t)
      BY <1>0
    <3>2. a < d - 1 /\ d - 1 <= w
      BY <1>1, <2>3, <3>1
    <3>3. ~IsDigit(t[d])
      BY <2>3 DEF IsDigit, Dot
    <3>4. d = p
      BY <1>0, <1>1, <3>2, <3>3
    <3>5. e \in p .. Len(t)
      BY <3>4
    <3>6. Digits(t, p, e)
      BY <2>3, <3>4
    <3>. HIDE DEF p
    <3>7. p < e /\ e <= m
      BY <2>2, <3>5, <3>6
    <3>. QED
      BY <1>0, <1>1, <3>2, <3>7
  <2>4. ASSUME NEW e \in a .. Len(t), a < w, p < e, e <= m
        PROVE  \E d \in a + 1 .. e : t[d] = Dot /\ Digits(t, a, d - 1) /\ Digits(t, d, e)
    <3>1. p \in a + 1 .. e /\ p - 1 = w
      BY <1>0, <1>1, <2>4
    <3>2. w \in a .. Len(t) /\ Digits(t, a, w)
      BY <1>0, <1>1, <2>4
    <3>. HIDE DEF p
    <3>3. Digits(t, p, e)
      BY <1>0, <2>1, <2>2, <2>4, <3>1
    <3>. QED
      BY <2>1, <3>1, <3>2, <3>3
  <2>5. \A e \in a .. Len(t) : Decimal(t, a, e) <=> (a < e /\ e <= w) \/ (a < w /\ p < e /\ e <= m)
    <3>. HIDE DEF p
    <3>. QED
      BY <1>1, <2>3, <2>4 DEF Decimal
  <2>. QED
    BY <1>0, <1>1, <1>2, <2>1, <2>2, <2>5
<1>3. CASE ~dot
  <2>1. m = w
    BY <1>3
  <2>2. ASSUME NEW e \in a .. Len(t), NEW d \in a + 1 .. e, t[d] = Dot, Digits(t, a, d - 1)
        PROVE  FALSE
    <3>1. d - 1 \in a .. Len(t)
      BY <1>0
    <3>2. a < d - 1 /\ d - 1 <= w
      BY <1>1, <2>2, <3>1
    <3>3. ~IsDigit(t[d])
      BY <2>2 DEF IsDigit, Dot
    <3>4. d = w + 1 /\ w < Len(t)
      BY <1>0, <1>1, <3>2, <3>3
    <3>. QED
      BY <1>3, <2>2, <3>4
  <2>3. \A e \in a .. Len(t) : Decimal(t, a, e) <=> (a < e /\ e <= w)
    BY <1>1, <2>2 DEF Decimal
  <2>. QED
    BY <1>0, <1>1, <1>3, <2>1, <2>3
<1>. QED
  BY <1>2, <1>3

\* parse_double takes a text for what it is.
LEMMA ParsedAsIs ==
  ASSUME NEW t \in Seq(STRING), NEW x \in parse_double(t)
  PROVE  /\ \/ IsDecimal(Unsigned(t)) /\ ~HasExponent(Unsigned(t)) /\ x.type = "numeric"
            \/ ~IsDecimal(Unsigned(t)) /\ HasExponent(Unsigned(t)) /\ x.type \in {"hangs", "error"}
            \/ ~IsDecimal(Unsigned(t)) /\ ~HasExponent(Unsigned(t)) /\ x.type = "error"
         /\ x.type = "numeric" /\ HasFraction(t) => x.negative = (t[1] = Minus)
<1>. DEFINE minus == At(t, 0, {Minus})
            start == IF minus THEN 1 ELSE 0
            whole == start + DigitsAfter(t, start)
            dot == At(t, whole, {Dot})
            point == IF dot THEN whole + 1 ELSE whole
            mantissa == IF dot THEN point + DigitsAfter(t, point) ELSE whole
            sign == IF At(t, mantissa + 1, {"+", Minus}) THEN mantissa + 2 ELSE mantissa + 1
            a == Start(t)
            dec == IsDecimal(Unsigned(t))
            exp == HasExponent(Unsigned(t))
<1>0. Len(t) \in Nat
  OBVIOUS
<1>1. start = a /\ a \in 0 .. Len(t) /\ a \in {0, 1}
  <2>1. a \in 0 .. Len(t) /\ (minus <=> a = 1)
    BY UnsignedIs
  <2>2. a \in {0, 1}
    BY DEF Start
  <2>. HIDE DEF a, minus
  <2>. QED
    BY <2>1, <2>2
<1>2. minus <=> t # <<>> /\ t[1] = Minus
  BY <1>0 DEF At
<1>3. dot \in BOOLEAN /\ (dot <=> whole < Len(t) /\ t[whole + 1] = Dot)
  BY DEF At
<1>4. x \in IF whole = start THEN {Token("error")}
            ELSE IF whole = Len(t) THEN {Number(FALSE)}
            ELSE IF dot /\ mantissa = point THEN {Token("error")}
            ELSE IF At(t, mantissa, {Exponent})
                 THEN IF DigitsAfter(t, sign) = 0 THEN {Token("error")}
                      ELSE {Token("hangs"), Token("error")}
            ELSE IF mantissa = Len(t) THEN {Number(minus)}
            ELSE {Token("error")}
  BY DEF parse_double
<1>5. /\ whole \in a .. Len(t)
      /\ \A i \in a + 1 .. whole : IsDigit(t[i])
      /\ whole = Len(t) \/ ~IsDigit(t[whole + 1])
  <2>1. whole = a + DigitsAfter(t, a)
    BY <1>1
  <2>. HIDE DEF a, whole
  <2>. QED
    BY <1>1, <2>1, DigitsUpTo
<1>6. /\ mantissa \in whole .. Len(t) /\ (dot => whole + 1 <= mantissa)
      /\ mantissa = Len(t) \/ ~IsDigit(t[mantissa + 1])
      /\ \A e \in a .. Len(t) :
           Decimal(t, a, e) <=> \/ a < e /\ e <= whole
                                \/ dot /\ a < whole /\ whole + 1 < e /\ e <= mantissa
  <2>1. whole = a + DigitsAfter(t, a)
    BY <1>1
  <2>2. mantissa = IF dot THEN whole + 1 + DigitsAfter(t, whole + 1) ELSE whole
    OBVIOUS
  <2>. HIDE DEF a, whole, dot, mantissa
  <2>. QED
    BY <1>1, <1>3, <2>1, <2>2, DecimalUpTo
<1>7. point = IF dot THEN whole + 1 ELSE whole
  OBVIOUS
<1>8. /\ dec <=> Decimal(t, a, Len(t))
      /\ exp <=> \E i \in a + 1 .. Len(t) :
                   t[i] = Exponent /\ Decimal(t, a, i - 1) /\ DigitFollows(t, i)
  BY NumberTexts
<1>9. At(t, mantissa, {Exponent}) <=> mantissa < Len(t) /\ t[mantissa + 1] = Exponent
  BY DEF At
<1>10. mantissa < Len(t) => (DigitFollows(t, mantissa + 1) <=> DigitsAfter(t, sign) # 0)
  <2>. SUFFICES ASSUME mantissa < Len(t)
                PROVE  DigitFollows(t, mantissa + 1) <=> DigitsAfter(t, sign) # 0
    OBVIOUS
  <2>. DEFINE m == mantissa + 1
  <2>. HIDE DEF mantissa
  <2>1. m \in Nat /\ mantissa + 2 = m + 1
    BY <1>0, <1>1, <1>5, <1>6
  <2>2. sign = IF At(t, m, {"+", Minus}) THEN m + 1 ELSE m
    BY <2>1
  <2>3. At(t, m, {"+", Minus}) <=> m < Len(t) /\ t[m + 1] \in {"+", Minus}
    BY DEF At
  <2>4. DigitFollows(t, m) <=> sign < Len(t) /\ IsDigit(t[sign + 1])
    BY <2>2, <2>3 DEF DigitFollows
  <2>5. sign \in 0 .. Len(t)
    <3>1. m <= Len(t)
      BY <1>0, <1>1, <1>5, <1>6
    <3>. HIDE DEF m, sign
    <3>. QED
      BY <1>0, <2>1, <2>2, <2>3, <3>1
  <2>. HIDE DEF m, sign
  <2>6. /\ DigitsAfter(t, sign) \in 0 .. Len(t) - sign
        /\ \A j \in sign + 1 .. sign + DigitsAfter(t, sign) : IsDigit(t[j])
        /\ sign + DigitsAfter(t, sign) = Len(t) \/ ~IsDigit(t[sign + DigitsAfter(t, sign) + 1])
    BY <2>5, DigitsAre
  <2>7. DigitFollows(t, m) <=> DigitsAfter(t, sign) # 0
    <3>. DEFINE n == DigitsAfter(t, sign)
    <3>. HIDE DEF n
    <3>1. /\ n \in 0 .. Len(t) - sign
          /\ \A j \in sign + 1 .. sign + n : IsDigit(t[j])
          /\ sign + n = Len(t) \/ ~IsDigit(t[sign + n + 1])
      BY <2>6 DEF n
    <3>2. DigitFollows(t, m) <=> n # 0
      BY <1>0, <2>4, <2>5, <3>1
    <3>. QED
      BY <3>2 DEF n
  <2>. QED
    BY <2>7 DEF m
<1>. HIDE DEF minus, start, whole, dot, point, mantissa, sign, a, dec, exp
<1>11. exp <=> /\ mantissa < Len(t) /\ t[mantissa + 1] = Exponent /\ a < whole
               /\ (dot => whole + 1 < mantissa) /\ DigitFollows(t, mantissa + 1)
  <2>1. ASSUME NEW i \in a + 1 .. Len(t), t[i] = Exponent, Decimal(t, a, i - 1)
        PROVE  i = mantissa + 1 /\ a < whole /\ (dot => whole + 1 < mantissa)
    <3>1. i - 1 \in a .. Len(t) /\ ~IsDigit(t[i]) /\ t[i] # Dot
      BY <1>0, <1>1, <2>1 DEF IsDigit, Exponent, Dot
    <3>2. CASE a < i - 1 /\ i - 1 <= whole
      <4>1. i = whole + 1
        BY <1>0, <1>1, <1>5, <3>1, <3>2
      <4>2. ~dot /\ mantissa = whole
        <5>1. ~dot
          BY <1>3, <3>1, <4>1
        <5>. QED
          BY <5>1 DEF mantissa
      <4>. QED
        BY <1>0, <1>1, <1>5, <3>2, <4>1, <4>2
    <3>3. CASE dot /\ a < whole /\ whole + 1 < i - 1 /\ i - 1 <= mantissa
      <4>1. \A j \in whole + 2 .. mantissa : IsDigit(t[j])
        <5>1. whole + 1 \in 0 .. Len(t) /\ mantissa = whole + 1 + DigitsAfter(t, whole + 1)
          BY <1>0, <1>1, <1>3, <1>5, <3>3 DEF mantissa, point
        <5>. DEFINE p == whole + 1
        <5>2. p \in 0 .. Len(t) /\ mantissa = p + DigitsAfter(t, p)
          BY <5>1
        <5>. HIDE DEF p
        <5>3. \A j \in p + 1 .. mantissa : IsDigit(t[j])
          BY <5>2, DigitsUpTo
        <5>4. p + 1 = whole + 2
          BY <1>1, <1>5 DEF p
        <5>. QED
          BY <5>3, <5>4
      <4>. QED
        BY <1>0, <1>1, <1>5, <1>6, <3>1, <3>3, <4>1
    <3>. QED
      BY <1>6, <2>1, <3>1, <3>2, <3>3
  <2>2. ASSUME mantissa < Len(t), t[mantissa + 1] = Exponent, a < whole, dot => whole + 1 < mantissa,
               DigitFollows(t, mantissa + 1)
        PROVE  exp
    <3>. DEFINE i == mantissa + 1
    <3>1. i \in a + 1 .. Len(t) /\ i - 1 = mantissa /\ mantissa \in a .. Len(t)
      BY <1>0, <1>1, <1>5, <1>6, <2>2
    <3>2. Decimal(t, a, mantissa)
      <4>1. ~dot => mantissa = whole
        BY DEF mantissa
      <4>. QED
        BY <1>0, <1>1, <1>5, <1>6, <2>2, <3>1, <4>1
    <3>3. t[i] = Exponent /\ DigitFollows(t, i)
      BY <2>2
    <3>. HIDE DEF i
    <3>. QED
      BY <1>8, <3>1, <3>2, <3>3
  <2>. QED
    BY <1>8, <2>1, <2>2, <1>0, <1>1, <1>5, <1>6
<1>12. dec <=> a < whole /\ (whole = Len(t) \/ (dot /\ whole + 1 < mantissa /\ mantissa = Len(t)))
  <2>1. Len(t) \in a .. Len(t)
    BY <1>0, <1>1
  <2>2. Decimal(t, a, Len(t)) <=> \/ a < Len(t) /\ Len(t) <= whole
                                  \/ dot /\ a < whole /\ whole + 1 < Len(t) /\ Len(t) <= mantissa
    BY <1>6, <2>1
  <2>. QED
    BY <1>0, <1>1, <1>5, <1>6, <1>8, <2>2
<1>13. /\ Token("error").type = "error" /\ Token("hangs").type = "hangs"
       /\ \A b : Number(b).type = "numeric" /\ Number(b).negative = b
  BY DEF Token, Number
<1>14. whole = Len(t) /\ a < whole => ~HasFraction(t)
  <2>. SUFFICES ASSUME whole = Len(t), NEW i \in DOMAIN t, t[i] = Dot PROVE FALSE
    BY DEF HasFraction
  <2>1. i \in 1 .. Len(t)
    OBVIOUS
  <2>2. ~IsDigit(t[i]) /\ t[i] # Minus
    BY DEF IsDigit, Dot, Minus
  <2>3. i = 1 /\ a = 1
    BY <1>0, <1>1, <1>5, <2>1, <2>2
  <2>. QED
    BY <2>2, <2>3 DEF a, Start
<1>15. whole = a <=> ~(a < whole)
  BY <1>0, <1>1, <1>5
<1>16. dot => (mantissa = point <=> ~(whole + 1 < mantissa))
  BY <1>0, <1>1, <1>5, <1>6, <1>7
<1>17. t # <<>> \/ Len(t) = 0
  OBVIOUS
<1>. HIDE DEF Token, Number
<1>18. CASE whole = a
  BY <1>1, <1>4, <1>11, <1>12, <1>13, <1>15, <1>18 DEF dec, exp
<1>19. CASE whole # a /\ whole = Len(t)
  <2>1. x = Number(FALSE) /\ dec /\ ~HasFraction(t)
    BY <1>1, <1>4, <1>12, <1>14, <1>15, <1>19
  <2>2. ~exp
    BY <1>0, <1>1, <1>5, <1>6, <1>11, <1>19
  <2>. QED
    BY <1>13, <2>1, <2>2 DEF dec, exp
<1>20. CASE whole # a /\ whole # Len(t) /\ dot /\ mantissa = point
  <2>1. x = Token("error")
    BY <1>1, <1>4, <1>20
  <2>2. ~dec /\ ~exp
    BY <1>11, <1>12, <1>16, <1>20
  <2>. QED
    BY <1>13, <2>1, <2>2 DEF dec, exp
<1>21. CASE whole # a /\ whole # Len(t) /\ ~(dot /\ mantissa = point) /\ At(t, mantissa, {Exponent})
  <2>1. x \in IF DigitsAfter(t, sign) = 0 THEN {Token("error")} ELSE {Token("hangs"), Token("error")}
    BY <1>1, <1>4, <1>21
  <2>2. ~dec /\ (exp <=> DigitsAfter(t, sign) # 0)
    <3>1. mantissa < Len(t) /\ t[mantissa + 1] = Exponent
      BY <1>9, <1>21
    <3>2. mantissa # Len(t) /\ (dot => whole + 1 < mantissa) /\ a < whole
      BY <1>0, <1>6, <1>5, <1>1, <1>15, <1>16, <1>21, <3>1
    <3>. QED
      BY <1>10, <1>11, <1>12, <1>21, <3>1, <3>2
  <2>. QED
    BY <1>13, <2>1, <2>2 DEF dec, exp
<1>22. CASE whole # a /\ whole # Len(t) /\ ~(dot /\ mantissa = point) /\ ~At(t, mantissa, {Exponent})
  <2>1. x = IF mantissa = Len(t) THEN Number(minus) ELSE Token("error")
    BY <1>1, <1>4, <1>22
  <2>2. ~exp
    BY <1>9, <1>11, <1>22
  <2>3. dec <=> mantissa = Len(t)
    <3>1. ~dot => mantissa = whole
      BY DEF mantissa
    <3>. QED
      BY <1>12, <1>15, <1>16, <1>22, <3>1
  <2>4. Len(t) # 0
    BY <1>0, <1>1, <1>5, <1>22
  <2>5. minus = (t[1] = Minus)
    <3>1. minus \in BOOLEAN
      BY DEF minus, At
    <3>. QED
      BY <1>2, <1>17, <2>4, <3>1
  <2>6. CASE mantissa = Len(t)
    BY <1>13, <2>1, <2>2, <2>3, <2>5, <2>6 DEF dec, exp
  <2>7. CASE mantissa # Len(t)
    BY <1>13, <2>1, <2>2, <2>3, <2>7 DEF dec, exp
  <2>. QED
    BY <2>6, <2>7
<1>. QED
  BY <1>18, <1>19, <1>20, <1>21, <1>22

----------------------------------------------------------------------------
(* What the lexemes of a file are *)

\* The file up to its end.
LEMMA VisibleIs ==
  ASSUME NEW src \in Seq(STRING)
  PROVE  /\ Visible(src) \in Seq(STRING) /\ Len(Visible(src)) \in 0 .. Len(src)
         /\ \A i \in 1 .. Len(Visible(src)) : Visible(src)[i] = src[i] /\ ~IsEof(src[i])
         /\ Len(Visible(src)) < Len(src) => IsEof(src[Len(Visible(src)) + 1])
<1>. DEFINE ends == {i \in DOMAIN src : IsEof(src[i])}
            m == CHOOSE i \in ends : \A j \in ends : i <= j
            s == Visible(src)
<1>0. Len(src) \in Nat /\ DOMAIN src = 1 .. Len(src)
  OBVIOUS
<1>1. CASE ends = {}
  <2>1. s = src
    BY <1>1 DEF Visible
  <2>2. \A i \in 1 .. Len(src) : ~IsEof(src[i])
    BY <1>0, <1>1
  <2>. HIDE DEF s
  <2>. QED
    BY <1>0, <2>1, <2>2 DEF s
<1>2. CASE ends # {}
  <2>1. ends \in SUBSET Nat
    BY <1>0
  <2>2. \E i \in ends : \A j \in ends : i <= j
    <3>. HIDE DEF ends
    <3>. QED
      BY ONLY <1>2, <2>1, LeastNatural
  <2>3. m \in ends /\ \A j \in ends : m <= j
    <3>. HIDE DEF ends
    <3>. QED
      BY <2>2
  <2>4. m \in 1 .. Len(src) /\ IsEof(src[m]) /\ \A j \in 1 .. Len(src) : IsEof(src[j]) => m <= j
    BY <1>0, <2>3
  <2>5. s = SubSeq(src, 1, m - 1)
    BY <1>2 DEF Visible
  <2>. HIDE DEF m, ends
  <2>6. /\ s \in Seq(STRING) /\ Len(s) = (IF 1 <= m - 1 THEN m - 1 - 1 + 1 ELSE 0)
        /\ \A k \in 1 .. m - 1 - 1 + 1 : s[k] = src[1 + k - 1]
    BY <1>0, <2>4, <2>5, PartIs
  <2>. HIDE DEF s
  <2>7. Len(s) = m - 1 /\ \A k \in 1 .. m - 1 : s[k] = src[k]
    <3>1. \A k \in 1 .. m - 1 : k \in 1 .. m - 1 - 1 + 1 /\ 1 + k - 1 = k
      BY <2>4
    <3>. QED
      BY <2>4, <2>6, <3>1
  <2>8. \A k \in 1 .. m - 1 : ~IsEof(src[k])
    BY <1>0, <2>4
  <2>. QED
    BY <1>0, <2>4, <2>6, <2>7, <2>8 DEF s
<1>. QED
  BY <1>1, <1>2

\* Quotes open and close.
LEMMA InStringStep ==
  ASSUME NEW s \in Seq(STRING)
  PROVE  /\ ~InString(s, 1)
         /\ \A i \in 1 .. Len(s) : InString(s, i + 1) <=> (InString(s, i) # (s[i] = Quote))
<1>. DEFINE Q(i) == {q \in 1 .. i - 1 : s[q] = Quote}
<1>0. Len(s) \in Nat
  OBVIOUS
<1>1. \A i \in 1 .. Len(s) + 1 : IsFiniteSet(Q(i)) /\ Cardinality(Q(i)) \in Nat
  <2>. TAKE i \in 1 .. Len(s) + 1
  <2>1. IsFiniteSet(1 .. i - 1)
    BY <1>0, FS_Interval
  <2>2. Q(i) \in SUBSET (1 .. i - 1)
    OBVIOUS
  <2>3. IsFiniteSet(Q(i))
    BY <2>1, <2>2, FS_Subset
  <2>. QED
    BY <2>3, FS_CardinalityType
<1>2. Q(1) = {}
  OBVIOUS
<1>3. ~InString(s, 1)
  BY <1>2, FS_EmptySet DEF InString
<1>4. ASSUME NEW i \in 1 .. Len(s) PROVE InString(s, i + 1) <=> (InString(s, i) # (s[i] = Quote))
  <2>1. Q(i + 1) = IF s[i] = Quote THEN Q(i) \cup {i} ELSE Q(i)
    BY <1>0
  <2>2. i \notin Q(i)
    BY <1>0
  <2>. DEFINE n == Cardinality(Q(i))
              m == Cardinality(Q(i + 1))
  <2>3. n \in Nat /\ IsFiniteSet(Q(i))
    BY <1>0, <1>1
  <2>4. m = IF s[i] = Quote THEN n + 1 ELSE n
    <3>1. Cardinality(Q(i) \cup {i}) = n + 1
      <4>. DEFINE S == Q(i)
      <4>1. IsFiniteSet(S) /\ i \notin S
        BY <2>2, <2>3
      <4>. HIDE DEF S, Q
      <4>2. Cardinality(S \cup {i}) = Cardinality(S) + 1
        BY <4>1, FS_AddElement
      <4>. QED
        BY <4>2 DEF S
    <3>. HIDE DEF Q
    <3>. QED
      BY <2>1, <3>1
  <2>5. InString(s, i) <=> n % 2 = 1
    BY DEF InString
  <2>6. InString(s, i + 1) <=> m % 2 = 1
    BY DEF InString
  <2>7. InString(s, i) \in BOOLEAN /\ InString(s, i + 1) \in BOOLEAN
    BY DEF InString
  <2>. HIDE DEF n, m
  <2>8. (n + 1) % 2 = 1 <=> ~(n % 2 = 1)
    BY <2>3
  <2>. QED
    BY <2>4, <2>5, <2>6, <2>7, <2>8
<1>. QED
  BY <1>3, <1>4

\* The lexeme of a run, and of a punctuation mark.
RunLexeme(s, a, b) == [first |-> a, last |-> b, kind |-> RunKind(s, <<a, b>>)]
MarkLexeme(s, i) == [first |-> i, last |-> i, kind |-> s[i]]

IsRun(s, a, b) ==
  /\ a \in 1 .. Len(s) /\ b \in a .. Len(s)
  /\ \A i \in a .. b : i \notin Cuts(s)
  /\ a = 1 \/ a - 1 \in Cuts(s)
  /\ b = Len(s) \/ b + 1 \in Cuts(s)

IsMark(s, i) == i \in Cuts(s) /\ s[i] \in Punctuation

LEMMA LexemesAre ==
  ASSUME NEW s \in Seq(STRING), NEW l
  PROVE  l \in Lexemes(s) <=> \/ \E a, b \in 1 .. Len(s) : IsRun(s, a, b) /\ l = RunLexeme(s, a, b)
                              \/ \E i \in 1 .. Len(s) : IsMark(s, i) /\ l = MarkLexeme(s, i)
<1>1. DOMAIN s = 1 .. Len(s) /\ Len(s) \in Nat
  OBVIOUS
<1>2. ASSUME NEW r \in Runs(s) PROVE \E a, b \in 1 .. Len(s) : IsRun(s, a, b) /\ r = <<a, b>>
  <2>1. PICK a \in 1 .. Len(s), b \in 1 .. Len(s) : r = <<a, b>>
    BY <1>1 DEF Runs
  <2>2. r[1] = a /\ r[2] = b
    BY <2>1
  <2>3. /\ r[1] <= r[2]
        /\ \A i \in r[1] .. r[2] : i \notin Cuts(s)
        /\ r[1] = 1 \/ r[1] - 1 \in Cuts(s)
        /\ r[2] = Len(s) \/ r[2] + 1 \in Cuts(s)
    BY DEF Runs
  <2>4. a <= b
    BY <2>2, <2>3
  <2>5. a \in 1 .. Len(s) /\ b \in a .. Len(s)
    BY <1>1, <2>4
  <2>6. IsRun(s, a, b)
    BY <2>2, <2>3, <2>5, Zenon DEF IsRun
  <2>. QED
    BY <2>1, <2>6
<1>3. ASSUME NEW a \in 1 .. Len(s), NEW b \in 1 .. Len(s), IsRun(s, a, b) PROVE <<a, b>> \in Runs(s)
  <2>. DEFINE r == <<a, b>>
  <2>1. r[1] = a /\ r[2] = b /\ r \in (DOMAIN s) \X (DOMAIN s)
    BY <1>1
  <2>2. /\ \A i \in a .. b : i \notin Cuts(s)
        /\ a = 1 \/ a - 1 \in Cuts(s)
        /\ b = Len(s) \/ b + 1 \in Cuts(s)
    BY <1>3, Zenon DEF IsRun
  <2>3. a <= b
    <3>1. b \in a .. Len(s)
      BY <1>3, Zenon DEF IsRun
    <3>. QED
      BY <1>1, <3>1
  <2>. HIDE DEF r
  <2>4. r \in Runs(s)
    BY <2>1, <2>2, <2>3, Zenon DEF Runs
  <2>. QED
    BY <2>4 DEF r
<1>4. \A i : i \in {j \in Cuts(s) : s[j] \in Punctuation} <=> i \in 1 .. Len(s) /\ IsMark(s, i)
  BY <1>1 DEF IsMark, Cuts
<1>5. l \in Lexemes(s) <=> \/ \E r \in Runs(s) : l = [first |-> r[1], last |-> r[2], kind |-> RunKind(s, r)]
                           \/ \E i \in {j \in Cuts(s) : s[j] \in Punctuation} : l = MarkLexeme(s, i)
  BY DEF Lexemes, MarkLexeme
<1>6. ASSUME NEW r \in Runs(s), l = [first |-> r[1], last |-> r[2], kind |-> RunKind(s, r)]
      PROVE  \E a, b \in 1 .. Len(s) : IsRun(s, a, b) /\ l = RunLexeme(s, a, b)
  <2>1. PICK a \in 1 .. Len(s), b \in 1 .. Len(s) : IsRun(s, a, b) /\ r = <<a, b>>
    BY <1>2
  <2>2. l = RunLexeme(s, a, b)
    BY <1>6, <2>1 DEF RunLexeme
  <2>. QED
    BY <2>1, <2>2
<1>7. ASSUME NEW a \in 1 .. Len(s), NEW b \in 1 .. Len(s), IsRun(s, a, b), l = RunLexeme(s, a, b)
      PROVE  \E r \in Runs(s) : l = [first |-> r[1], last |-> r[2], kind |-> RunKind(s, r)]
  <2>1. <<a, b>> \in Runs(s)
    BY <1>3, <1>7
  <2>. QED
    BY <1>7, <2>1 DEF RunLexeme
<1>. QED
  BY <1>4, <1>5, <1>6, <1>7

LEMMA LexemeIs ==
  ASSUME NEW s \in Seq(STRING), NEW l \in Lexemes(s)
  PROVE  /\ l.first \in 1 .. Len(s) /\ l.last \in l.first .. Len(s)
         /\ \/ IsRun(s, l.first, l.last) /\ l = RunLexeme(s, l.first, l.last)
            \/ IsMark(s, l.first) /\ l = MarkLexeme(s, l.first)
<1>0. Len(s) \in Nat
  OBVIOUS
<1>1. CASE \E a, b \in 1 .. Len(s) : IsRun(s, a, b) /\ l = RunLexeme(s, a, b)
  <2>1. PICK a \in 1 .. Len(s), b \in 1 .. Len(s) : IsRun(s, a, b) /\ l = RunLexeme(s, a, b)
    BY <1>1
  <2>2. l.first = a /\ l.last = b
    BY <2>1 DEF RunLexeme
  <2>3. b \in a .. Len(s)
    BY <2>1, Zenon DEF IsRun
  <2>. QED
    BY <2>1, <2>2, <2>3
<1>2. CASE \E i \in 1 .. Len(s) : IsMark(s, i) /\ l = MarkLexeme(s, i)
  <2>1. PICK i \in 1 .. Len(s) : IsMark(s, i) /\ l = MarkLexeme(s, i)
    BY <1>2
  <2>2. l.first = i /\ l.last = i
    BY <2>1 DEF MarkLexeme
  <2>. QED
    BY <1>0, <2>1, <2>2
<1>. QED
  BY <1>1, <1>2, LexemesAre

\* Two runs that begin in the same place, or share one, are one.
LEMMA RunsApart ==
  ASSUME NEW s \in Seq(STRING), NEW a, NEW b, NEW x, NEW y, IsRun(s, a, b), IsRun(s, x, y),
         x <= b, a <= y
  PROVE  a = x /\ b = y
<1>0. Len(s) \in Nat
  OBVIOUS
<1>1. /\ a \in 1 .. Len(s) /\ b \in a .. Len(s) /\ x \in 1 .. Len(s) /\ y \in x .. Len(s)
      /\ \A i \in a .. b : i \notin Cuts(s)
      /\ \A i \in x .. y : i \notin Cuts(s)
  BY Zenon DEF IsRun
<1>2. /\ a = 1 \/ a - 1 \in Cuts(s)
      /\ x = 1 \/ x - 1 \in Cuts(s)
  BY Zenon DEF IsRun
<1>3. /\ b = Len(s) \/ b + 1 \in Cuts(s)
      /\ y = Len(s) \/ y + 1 \in Cuts(s)
  BY Zenon DEF IsRun
<1>4. a = x
  <2>1. ~(a < x)
    <3>. SUFFICES ASSUME a < x PROVE FALSE
      OBVIOUS
    <3>1. x - 1 \in a .. b /\ x # 1
      BY <1>0, <1>1
    <3>. QED
      BY <1>1, <1>2, <3>1
  <2>2. ~(x < a)
    <3>. SUFFICES ASSUME x < a PROVE FALSE
      OBVIOUS
    <3>1. a - 1 \in x .. y /\ a # 1
      BY <1>0, <1>1
    <3>. QED
      BY <1>1, <1>2, <3>1
  <2>. QED
    BY <1>0, <1>1, <2>1, <2>2
<1>5. b = y
  <2>1. ~(b < y)
    <3>. SUFFICES ASSUME b < y PROVE FALSE
      OBVIOUS
    <3>1. b + 1 \in x .. y /\ b # Len(s)
      BY <1>0, <1>1, <1>4
    <3>. QED
      BY <1>1, <1>3, <3>1
  <2>2. ~(y < b)
    <3>. SUFFICES ASSUME y < b PROVE FALSE
      OBVIOUS
    <3>1. y + 1 \in a .. b /\ y # Len(s)
      BY <1>0, <1>1, <1>4
    <3>. QED
      BY <1>1, <1>3, <3>1
  <2>. QED
    BY <1>0, <1>1, <2>1, <2>2
<1>. QED
  BY <1>4, <1>5

LEMMA LexemesDiffer ==
  ASSUME NEW s \in Seq(STRING), NEW l \in Lexemes(s), NEW m \in Lexemes(s), l.first = m.first
  PROVE  l = m
<1>0. Len(s) \in Nat
  OBVIOUS
<1>1. /\ l.first \in 1 .. Len(s) /\ l.last \in l.first .. Len(s)
      /\ \/ IsRun(s, l.first, l.last) /\ l = RunLexeme(s, l.first, l.last)
         \/ IsMark(s, l.first) /\ l = MarkLexeme(s, l.first)
  BY LexemeIs
<1>2. /\ m.first \in 1 .. Len(s) /\ m.last \in m.first .. Len(s)
      /\ \/ IsRun(s, m.first, m.last) /\ m = RunLexeme(s, m.first, m.last)
         \/ IsMark(s, m.first) /\ m = MarkLexeme(s, m.first)
  BY LexemeIs
<1>3. \A a, b : IsRun(s, a, b) => a \notin Cuts(s)
  <2>. SUFFICES ASSUME NEW a, NEW b, IsRun(s, a, b) PROVE a \notin Cuts(s)
    OBVIOUS
  <2>1. a \in 1 .. Len(s) /\ b \in a .. Len(s) /\ \A i \in a .. b : i \notin Cuts(s)
    BY Zenon DEF IsRun
  <2>2. a \in a .. b
    BY <1>0, <2>1
  <2>. QED
    BY <2>1, <2>2
<1>4. \A a : IsMark(s, a) => a \in Cuts(s)
  BY DEF IsMark
<1>. DEFINE f == l.first
            b == l.last
            y == m.last
<1>5. CASE IsRun(s, f, b) /\ l = RunLexeme(s, f, b) /\ IsRun(s, f, y) /\ m = RunLexeme(s, f, y)
  <2>1. f <= y /\ f <= b
    BY <1>0, <1>1, <1>2
  <2>. HIDE DEF f, b, y
  <2>2. b = y
    BY <1>5, <2>1, RunsApart
  <2>. QED
    BY <1>5, <2>2
<1>6. CASE IsMark(s, f) /\ l = MarkLexeme(s, f) /\ IsMark(s, f) /\ m = MarkLexeme(s, f)
  BY <1>6
<1>. QED
  BY <1>1, <1>2, <1>3, <1>4, <1>5, <1>6

\* There are no more lexemes than bytes.
LEMMA LexemesFinite ==
  ASSUME NEW s \in Seq(STRING)
  PROVE  IsFiniteSet(Lexemes(s)) /\ Cardinality(Lexemes(s)) \in Nat /\ Cardinality(Lexemes(s)) <= Len(s)
<1>. DEFINE L == Lexemes(s)
            f == [l \in L |-> l.first]
<1>0. Len(s) \in Nat
  OBVIOUS
<1>1. f \in [L -> 1 .. Len(s)]
  BY LexemeIs
<1>2. \A l, m \in L : f[l] = f[m] => l = m
  BY LexemesDiffer
<1>3. f \in Injection(L, 1 .. Len(s))
  <2>. HIDE DEF f, L
  <2>. QED
    BY <1>1, <1>2 DEF Injection, IsInjective
<1>4. IsFiniteSet(1 .. Len(s)) /\ Cardinality(1 .. Len(s)) = Len(s)
  <2>1. 1 \in Int /\ Len(s) \in Int
    BY <1>0
  <2>2. IsFiniteSet(1 .. Len(s)) /\ Cardinality(1 .. Len(s)) = IF 1 > Len(s) THEN 0 ELSE Len(s) - 1 + 1
    BY <2>1, FS_Interval, Zenon
  <2>. QED
    BY <1>0, <2>2
<1>5. IsFiniteSet(L) /\ Cardinality(L) <= Cardinality(1 .. Len(s))
  <2>. HIDE DEF f, L
  <2>. QED
    BY <1>3, <1>4, FS_Injection
<1>. QED
  BY <1>4, <1>5, FS_CardinalityType

\* No string and no run of the file goes on over position b.
Between(s, b) ==
  /\ b \in 0 .. Len(s)
  /\ ~InString(s, b + 1)
  /\ b = 0 \/ b \in Cuts(s) \/ b + 1 \in Cuts(s) \/ b = Len(s)

\* The lexemes up to position b.
Until(s, b) == {l \in Lexemes(s) : l.last <= b}

LEMMA SplitAt ==
  ASSUME NEW s \in Seq(STRING), NEW b, Between(s, b), NEW l \in Lexemes(s)
  PROVE  l.last <= b \/ b + 1 <= l.first
<1>0. Len(s) \in Nat /\ b \in 0 .. Len(s)
  BY DEF Between
<1>1. /\ l.first \in 1 .. Len(s) /\ l.last \in l.first .. Len(s)
      /\ \/ IsRun(s, l.first, l.last) /\ l = RunLexeme(s, l.first, l.last)
         \/ IsMark(s, l.first) /\ l = MarkLexeme(s, l.first)
  BY LexemeIs
<1>2. CASE IsRun(s, l.first, l.last)
  <2>1. \A i \in l.first .. l.last : i \notin Cuts(s)
    BY <1>2, Zenon DEF IsRun
  <2>. SUFFICES ASSUME ~(l.last <= b), ~(b + 1 <= l.first) PROVE FALSE
    OBVIOUS
  <2>2. b \in l.first .. l.last /\ b + 1 \in l.first .. l.last /\ b # 0 /\ b # Len(s)
    BY <1>0, <1>1
  <2>. QED
    BY <2>1, <2>2, Zenon DEF Between
<1>3. CASE l = MarkLexeme(s, l.first)
  <2>1. l.last = l.first
    BY <1>3 DEF MarkLexeme
  <2>. QED
    BY <1>0, <1>1, <2>1
<1>. QED
  BY <1>1, <1>2, <1>3

LEMMA UntilFinite ==
  ASSUME NEW s \in Seq(STRING), NEW b
  PROVE  /\ IsFiniteSet(Until(s, b)) /\ Cardinality(Until(s, b)) \in Nat
         /\ Cardinality(Until(s, b)) <= Cardinality(Lexemes(s))
         /\ Cardinality(Lexemes(s)) = Cardinality(Until(s, b)) => Until(s, b) = Lexemes(s)
<1>1. Until(s, b) \in SUBSET Lexemes(s)
  BY DEF Until
<1>2. IsFiniteSet(Lexemes(s))
  BY LexemesFinite
<1>3. /\ IsFiniteSet(Until(s, b))
      /\ Cardinality(Until(s, b)) <= Cardinality(Lexemes(s))
      /\ Cardinality(Lexemes(s)) = Cardinality(Until(s, b)) => Lexemes(s) = Until(s, b)
  BY <1>1, <1>2, FS_Subset
<1>. QED
  BY <1>3, FS_CardinalityType

\* After a run there is one lexeme more.
LEMMA RunEnds ==
  ASSUME NEW s \in Seq(STRING), NEW b, Between(s, b), NEW e, IsRun(s, b + 1, e)
  PROVE  /\ RunLexeme(s, b + 1, e) \in Lexemes(s) \ Until(s, b)
         /\ Until(s, e) = Until(s, b) \cup {RunLexeme(s, b + 1, e)}
<1>. DEFINE l == RunLexeme(s, b + 1, e)
<1>0. Len(s) \in Nat /\ b \in 0 .. Len(s)
  BY DEF Between
<1>1. b + 1 \in 1 .. Len(s) /\ e \in b + 1 .. Len(s) /\ \A i \in b + 1 .. e : i \notin Cuts(s)
  BY Zenon DEF IsRun
<1>2. l.first = b + 1 /\ l.last = e
  BY DEF RunLexeme
<1>3. l \in Lexemes(s)
  <2>1. e \in 1 .. Len(s)
    BY <1>0, <1>1
  <2>. QED
    BY <1>1, <2>1, LexemesAre
<1>4. l \notin Until(s, b)
  <2>. HIDE DEF l
  <2>. QED
    BY <1>0, <1>1, <1>2 DEF Until
<1>5. ASSUME NEW m \in Until(s, e) PROVE m \in Until(s, b) \/ m = l
  <2>1. m \in Lexemes(s) /\ m.last <= e
    BY DEF Until
  <2>2. /\ m.first \in 1 .. Len(s) /\ m.last \in m.first .. Len(s)
        /\ \/ IsRun(s, m.first, m.last) /\ m = RunLexeme(s, m.first, m.last)
           \/ IsMark(s, m.first) /\ m = MarkLexeme(s, m.first)
    BY <2>1, LexemeIs
  <2>3. CASE b + 1 <= m.first /\ IsRun(s, m.first, m.last) /\ m = RunLexeme(s, m.first, m.last)
    <3>. DEFINE x == m.first
                y == m.last
                z == b + 1
    <3>1. x <= e /\ z <= y
      BY <1>0, <1>1, <2>1, <2>2, <2>3
    <3>2. IsRun(s, x, y) /\ IsRun(s, z, e)
      BY <2>3
    <3>. HIDE DEF x, y, z
    <3>3. z = x /\ e = y
      BY ONLY <3>1, <3>2, RunsApart, s \in Seq(STRING)
    <3>. QED
      BY <2>3, <3>3 DEF x, y, z
  <2>4. CASE b + 1 <= m.first /\ IsMark(s, m.first) /\ m = MarkLexeme(s, m.first)
    <3>1. m.first = m.last /\ m.first \in Cuts(s)
      BY <2>4 DEF MarkLexeme, IsMark
    <3>2. m.first \in b + 1 .. e
      BY <1>0, <1>1, <2>1, <2>2, <2>4, <3>1
    <3>. QED
      BY <1>1, <3>1, <3>2
  <2>5. CASE m.last <= b
    BY <2>1, <2>5 DEF Until
  <2>. QED
    BY <2>1, <2>2, <2>3, <2>4, <2>5, SplitAt
<1>6. \A m \in Until(s, b) : m \in Until(s, e)
  <2>. TAKE m \in Until(s, b)
  <2>1. m \in Lexemes(s) /\ m.last <= b
    BY DEF Until
  <2>2. m.first \in 1 .. Len(s) /\ m.last \in m.first .. Len(s)
    BY <2>1, LexemeIs
  <2>. QED
    BY <1>0, <1>1, <2>1, <2>2 DEF Until
<1>7. l \in Until(s, e)
  <2>1. e <= e
    BY <1>0, <1>1
  <2>. QED
    BY <1>2, <1>3, <2>1 DEF Until
<1>. HIDE DEF l
<1>8. Until(s, e) = Until(s, b) \cup {l}
  BY <1>5, <1>6, <1>7
<1>. QED
  BY <1>3, <1>4, <1>8 DEF l

\* A cut is passed: a punctuation mark is a lexeme, anything else is none.
LEMMA CutPassed ==
  ASSUME NEW s \in Seq(STRING), NEW b, Between(s, b), b + 1 \in Cuts(s)
  PROVE  /\ Between(s, b + 1)
         /\ s[b + 1] \in Punctuation =>
              /\ MarkLexeme(s, b + 1) \in Lexemes(s) \ Until(s, b)
              /\ Until(s, b + 1) = Until(s, b) \cup {MarkLexeme(s, b + 1)}
         /\ s[b + 1] \notin Punctuation => Until(s, b + 1) = Until(s, b)
<1>. DEFINE l == MarkLexeme(s, b + 1)
            e == b + 1
<1>0. Len(s) \in Nat /\ b \in 0 .. Len(s) /\ e \in 1 .. Len(s) /\ e \in 0 .. Len(s) /\ e \in Cuts(s)
  <2>1. b \in 0 .. Len(s)
    BY Zenon DEF Between
  <2>2. Len(s) \in Nat /\ DOMAIN s = 1 .. Len(s)
    OBVIOUS
  <2>3. e \in Cuts(s)
    OBVIOUS
  <2>. HIDE DEF e
  <2>4. e \in 1 .. Len(s)
    BY <2>2, <2>3, Zenon DEF Cuts
  <2>. QED
    BY <2>1, <2>2, <2>3, <2>4
<1>. HIDE DEF e
<1>1. ~InString(s, e) /\ s[e] # Quote
  <2>1. ~InString(s, e) /\ IsSeparator(s[e])
    BY <1>0, Zenon DEF Cuts
  <2>. QED
    BY <2>1 DEF IsSeparator, IsEof, IsWhitespace, Punctuation, Quote, EOF
<1>2. ~InString(s, e + 1)
  <2>1. InString(s, e + 1) <=> (InString(s, e) # (s[e] = Quote))
    BY <1>0, InStringStep, Zenon
  <2>. QED
    BY <1>1, <2>1 DEF InString
<1>3. Between(s, e)
  BY <1>0, <1>2, Zenon DEF Between
<1>. USE DEF e
<1>4. ASSUME NEW m \in Until(s, e) PROVE m \in Until(s, b) \/ (s[e] \in Punctuation /\ m = l)
  <2>1. m \in Lexemes(s) /\ m.last <= e
    BY DEF Until
  <2>2. /\ m.first \in 1 .. Len(s) /\ m.last \in m.first .. Len(s)
        /\ \/ IsRun(s, m.first, m.last) /\ m = RunLexeme(s, m.first, m.last)
           \/ IsMark(s, m.first) /\ m = MarkLexeme(s, m.first)
    BY <2>1, LexemeIs
  <2>3. CASE m.last <= b
    BY <2>1, <2>3 DEF Until
  <2>4. CASE b + 1 <= m.first
    <3>1. m.first = e /\ m.last = e
      BY <1>0, <2>1, <2>2, <2>4
    <3>2. ~IsRun(s, m.first, m.last)
      <4>. SUFFICES ASSUME IsRun(s, e, e) PROVE FALSE
        BY <3>1
      <4>1. \A i \in e .. e : i \notin Cuts(s)
        BY Zenon DEF IsRun
      <4>2. e \in e .. e
        BY <1>0
      <4>. QED
        BY <4>1, <4>2
    <3>. QED
      BY <2>2, <3>1, <3>2 DEF IsMark
  <2>. QED
    BY <2>1, <2>3, <2>4, SplitAt
<1>5. \A m \in Until(s, b) : m \in Until(s, e)
  <2>. TAKE m \in Until(s, b)
  <2>1. m \in Lexemes(s) /\ m.last <= b
    BY DEF Until
  <2>2. m.first \in 1 .. Len(s) /\ m.last \in m.first .. Len(s)
    BY <2>1, LexemeIs
  <2>3. m.last <= e
    BY <1>0, <2>1, <2>2
  <2>. QED
    BY <2>1, <2>3 DEF Until
<1>6. CASE s[e] \in Punctuation
  <2>1. l \in Lexemes(s)
    <3>1. IsMark(s, e)
      BY <1>6 DEF IsMark
    <3>. QED
      BY <1>0, <3>1, LexemesAre
  <2>2. l.last = e
    BY DEF MarkLexeme
  <2>3. l \notin Until(s, b) /\ l \in Until(s, e)
    <3>. HIDE DEF l
    <3>. QED
      BY <1>0, <2>1, <2>2 DEF Until
  <2>. HIDE DEF l
  <2>4. Until(s, e) = Until(s, b) \cup {l}
    BY <1>4, <1>5, <2>3
  <2>. QED
    BY <1>3, <1>6, <2>1, <2>3, <2>4 DEF l
<1>7. CASE s[e] \notin Punctuation
  <2>1. Until(s, e) = Until(s, b)
    BY <1>4, <1>5, <1>7
  <2>. QED
    BY <1>3, <1>7, <2>1
<1>. QED
  BY <1>6, <1>7

\* At the end all lexemes are past.
LEMMA AllUntil ==
  ASSUME NEW s \in Seq(STRING)
  PROVE  Until(s, Len(s)) = Lexemes(s)
<1>1. \A l \in Lexemes(s) : l.last <= Len(s)
  <2>. TAKE l \in Lexemes(s)
  <2>1. l.first \in 1 .. Len(s) /\ l.last \in l.first .. Len(s) /\ Len(s) \in Nat
    BY LexemeIs
  <2>. QED
    BY <2>1
<1>. QED
  BY <1>1 DEF Until

\* The lexeme after those up to b is the one of that number.
LEMMA NthIs ==
  ASSUME NEW s \in Seq(STRING), NEW b, Between(s, b), NEW l \in Lexemes(s) \ Until(s, b),
         l.first = b + 1
  PROVE  Nth(Lexemes(s), Cardinality(Until(s, b)) + 1) = l
<1>. DEFINE L == Lexemes(s)
            U == Until(s, b)
            k == Cardinality(U) + 1
            To(x) == {m \in L : m.first <= x.first}
<1>0. Len(s) \in Nat /\ b \in 0 .. Len(s)
  BY DEF Between
<1>1. \A m \in L : m.first \in 1 .. Len(s) /\ m.last \in m.first .. Len(s)
  BY LexemeIs
<1>2. IsFiniteSet(L) /\ IsFiniteSet(U) /\ Cardinality(U) \in Nat
  BY LexemesFinite, UntilFinite
<1>3. To(l) = U \cup {l}
  <2>1. ASSUME NEW m \in L, m.first <= l.first PROVE m \in U \/ m = l
    <3>1. m.last <= b \/ b + 1 <= m.first
      BY SplitAt
    <3>2. b + 1 <= m.first => m.first = l.first
      BY <1>0, <1>1, <2>1
    <3>3. m.first = l.first => m = l
      BY LexemesDiffer
    <3>. QED
      BY <3>1, <3>2, <3>3 DEF Until
  <2>2. ASSUME NEW m \in U PROVE m \in L /\ m.first <= l.first
    <3>1. m \in L /\ m.last <= b
      BY DEF Until
    <3>. QED
      BY <1>0, <1>1, <3>1
  <2>3. l.first <= l.first
    BY <1>0
  <2>. QED
    BY <2>1, <2>2, <2>3
<1>4. Cardinality(To(l)) = k
  <2>1. l \notin U
    OBVIOUS
  <2>. HIDE DEF U
  <2>2. Cardinality(U \cup {l}) = Cardinality(U) + 1
    BY <1>2, <2>1, FS_AddElement
  <2>. QED
    BY <1>3, <2>2
<1>5. \A m \in L : IsFiniteSet(To(m))
  <2>. TAKE m \in L
  <2>1. To(m) \in SUBSET L
    OBVIOUS
  <2>. HIDE DEF L, To
  <2>. QED
    BY <1>2, <2>1, FS_Subset
<1>6. ASSUME NEW m \in L, Cardinality(To(m)) = k PROVE m = l
  <2>1. m.first <= l.first => To(m) \in SUBSET To(l)
    BY <1>1
  <2>2. l.first <= m.first => To(l) \in SUBSET To(m)
    BY <1>1
  <2>3. m \in To(m) /\ l \in To(l)
    BY <1>1
  <2>4. m.first <= l.first \/ l.first <= m.first
    BY <1>1
  <2>5. IsFiniteSet(To(m)) /\ IsFiniteSet(To(l))
    BY <1>5
  <2>6. To(m) = To(l)
    <3>. DEFINE A == To(m)
                B == To(l)
    <3>1. Cardinality(A) = Cardinality(B) /\ IsFiniteSet(A) /\ IsFiniteSet(B)
          /\ (A \in SUBSET B \/ B \in SUBSET A)
      BY <1>4, <1>6, <2>1, <2>2, <2>4, <2>5
    <3>. HIDE DEF A, B
    <3>2. A = B
      BY ONLY <3>1, FS_Subset
    <3>. QED
      BY <3>2 DEF A, B
  <2>7. m.first <= l.first /\ l.first <= m.first
    BY <2>3, <2>6
  <2>8. m.first = l.first
    BY <1>1, <2>7
  <2>. QED
    BY <2>8, LexemesDiffer
<1>7. Nth(L, k) = CHOOSE m \in L : Cardinality(To(m)) = k
  BY DEF Nth
<1>. HIDE DEF To, L, k
<1>8. l \in L
  BY DEF L
<1>9. Nth(L, k) = l
  BY <1>4, <1>6, <1>7, <1>8
<1>. QED
  BY <1>9 DEF L, k

----------------------------------------------------------------------------
(* What the text of a run says *)

LEMMA RunText ==
  ASSUME NEW s \in Seq(STRING), NEW a \in 1 .. Len(s), NEW e \in a .. Len(s)
  PROVE  /\ SubSeq(s, a, e) \in Seq(STRING) /\ Len(SubSeq(s, a, e)) = e - a + 1
         /\ \A k \in 1 .. e - a + 1 : SubSeq(s, a, e)[k] = s[a + k - 1]
         /\ SubSeq(s, a, e) # <<>>
         /\ Contains(SubSeq(s, a, e), Quote) <=> \E i \in a .. e : s[i] = Quote
<1>. DEFINE t == SubSeq(s, a, e)
<1>0. Len(s) \in Nat /\ a \in Int /\ e \in Int /\ 1 <= a /\ a <= e /\ e <= Len(s)
  OBVIOUS
<1>1. /\ t \in Seq(STRING) /\ Len(t) = (IF a <= e THEN e - a + 1 ELSE 0)
      /\ \A k \in 1 .. e - a + 1 : t[k] = s[a + k - 1]
  BY <1>0, PartIs
<1>. HIDE DEF t
<1>2. Len(t) = e - a + 1 /\ t # <<>>
  BY <1>0, <1>1
<1>3. Contains(t, Quote) <=> \E i \in a .. e : s[i] = Quote
  <2>1. ASSUME NEW k \in 1 .. Len(t), t[k] = Quote PROVE \E i \in a .. e : s[i] = Quote
    <3>1. a + k - 1 \in a .. e /\ t[k] = s[a + k - 1]
      BY <1>0, <1>1, <1>2
    <3>. QED
      BY <2>1, <3>1
  <2>2. ASSUME NEW i \in a .. e, s[i] = Quote PROVE \E k \in 1 .. Len(t) : t[k] = Quote
    <3>. DEFINE k == i - a + 1
    <3>1. k \in 1 .. e - a + 1 /\ a + k - 1 = i
      BY <1>0
    <3>2. t[k] = s[a + k - 1]
      <4>. HIDE DEF k
      <4>. QED
        BY <1>1, <3>1
    <3>. HIDE DEF k
    <3>. QED
      BY <1>2, <2>2, <3>1, <3>2
  <2>. QED
    BY <2>1, <2>2 DEF Contains
<1>. QED
  BY <1>1, <1>2, <1>3 DEF t

\* No text is the beginning of two literals.
LEMMA OneLiteral ==
  ASSUME NEW t \in Seq(STRING), t # <<>>, NEW n \in DOMAIN Literals, NEW m \in DOMAIN Literals,
         IsPrefix(t, Literals[n]), IsPrefix(t, Literals[m])
  PROVE  n = m
<1>1. DOMAIN Literals = {"null", "true", "false"}
  BY DEF Literals
<1>2. /\ Literals["null"] = <<"n", "u", "l", "l">> /\ Literals["true"] = <<"t", "r", "u", "e">>
      /\ Literals["false"] = <<"f", "a", "l", "s", "e">>
  BY DEF Literals
<1>3. Len(t) \in Nat /\ Len(t) >= 1
  OBVIOUS
<1>. DEFINE Letters == {"n", "u", "l", "t", "r", "e", "f", "a", "s"}
<1>4. ASSUME NEW w \in Seq(Letters), IsPrefix(t, w) PROVE t[1] = w[1]
  <2>. HIDE DEF Letters
  <2>1. Len(t) <= Len(w) /\ SubSeq(t, 1, Len(t)) = SubSeq(w, 1, Len(t)) /\ Len(w) \in Nat
    BY <1>4 DEF IsPrefix
  <2>2. SubSeq(t, 1, Len(t))[1] = t[1] /\ SubSeq(w, 1, Len(t))[1] = w[1]
    BY <1>3, <2>1
  <2>. QED
    BY <2>1, <2>2
<1>. HIDE DEF Literals
<1>5. Literals[n] \in Seq(Letters) /\ Literals[m] \in Seq(Letters)
  <2>1. <<"n", "u", "l", "l">> \in Seq(Letters)
    OBVIOUS
  <2>2. <<"t", "r", "u", "e">> \in Seq(Letters)
    OBVIOUS
  <2>3. <<"f", "a", "l", "s", "e">> \in Seq(Letters)
    OBVIOUS
  <2>. HIDE DEF Letters
  <2>4. \A k \in {"null", "true", "false"} : Literals[k] \in Seq(Letters)
    BY <1>2, <2>1, <2>2, <2>3, Zenon
  <2>. QED
    BY <1>1, <2>4, Zenon
<1>. HIDE DEF Letters
<1>6. t[1] = Literals[n][1] /\ t[1] = Literals[m][1]
  BY <1>4, <1>5
<1>7. Literals["null"][1] = "n" /\ Literals["true"][1] = "t" /\ Literals["false"][1] = "f"
  BY <1>2
<1>. QED
  BY <1>1, <1>6, <1>7

\* The literals a text begins.
Names(t) == {n \in DOMAIN Literals : IsPrefix(t, Literals[n])}

LEMMA KindIs ==
  ASSUME NEW s, NEW a, NEW e, NEW t, t = SubSeq(s, a, e)
  PROVE  /\ Contains(t, Quote) => RunKind(s, <<a, e>>) = IF InString(s, e + 1) THEN "error" ELSE "string"
         /\ ~Contains(t, Quote) /\ Names(t) # {} => RunKind(s, <<a, e>>) \in Names(t)
         /\ ~Contains(t, Quote) /\ Names(t) = {} =>
              /\ IsDecimal(Unsigned(t)) /\ ~HasExponent(Unsigned(t)) => RunKind(s, <<a, e>>) = "numeric"
              /\ ~IsDecimal(Unsigned(t)) /\ HasExponent(Unsigned(t)) => RunKind(s, <<a, e>>) = "loops"
              /\ ~IsDecimal(Unsigned(t)) /\ ~HasExponent(Unsigned(t)) => RunKind(s, <<a, e>>) = "error"
<1>. DEFINE r == <<a, e>>
<1>1. r[1] = a /\ r[2] = e
  OBVIOUS
<1>. HIDE DEF r
<1>2. RunKind(s, r) =
        CASE Contains(t, Quote) -> IF InString(s, e + 1) THEN "error" ELSE "string"
          [] ~Contains(t, Quote) /\ Names(t) # {} -> CHOOSE n \in Names(t) : TRUE
          [] ~Contains(t, Quote) /\ Names(t) = {} ->
               CASE IsDecimal(Unsigned(t)) -> "numeric"
                 [] HasExponent(Unsigned(t)) -> "loops"
                 [] OTHER -> "error"
  BY <1>1 DEF RunKind, Names
<1>3. Contains(t, Quote) \in BOOLEAN
  BY DEF Contains
<1>4. CASE Contains(t, Quote)
  BY <1>2, <1>4 DEF r
<1>5. CASE ~Contains(t, Quote) /\ Names(t) # {}
  <2>1. RunKind(s, r) = CHOOSE n \in Names(t) : TRUE
    BY <1>2, <1>5
  <2>. QED
    BY <1>5, <2>1 DEF r
<1>6. CASE ~Contains(t, Quote) /\ Names(t) = {}
  <2>. DEFINE d == IsDecimal(Unsigned(t))
              x == HasExponent(Unsigned(t))
  <2>1. RunKind(s, r) = CASE d -> "numeric" [] x -> "loops" [] OTHER -> "error"
    BY <1>2, <1>6
  <2>. HIDE DEF d, x
  <2>2. /\ d /\ ~x => RunKind(s, r) = "numeric"
        /\ ~d /\ x => RunKind(s, r) = "loops"
        /\ ~d /\ ~x => RunKind(s, r) = "error"
    BY <2>1
  <2>. QED
    BY <1>6, <2>2 DEF r, d, x
<1>. QED
  BY <1>3, <1>4, <1>5, <1>6

----------------------------------------------------------------------------
(* What the scan knows of the identifier it has begun *)

\* The bytes from b to p are one identifier, or none yet.
Joined(s, b, p, ins, had) ==
  /\ Between(s, b) /\ p \in b .. Len(s)
  /\ p > b => b = 0 \/ b \in Cuts(s)
  /\ \A i \in b + 1 .. p : i \notin Cuts(s)
  /\ ins = InString(s, p + 1)
  /\ had = (\E i \in b + 1 .. p : s[i] = Quote)

\* The view is all of them without quotes, what follows an opening quote, or
\* what is between the only two.
ViewOf(s, b, p, had, v, n) ==
  /\ v \in Nat /\ n \in Nat
  /\ ~had => n = p - b /\ (n > 0 => v = b)
  /\ p > b /\ s[b + 1] = Quote /\ (\A i \in b + 2 .. p : s[i] # Quote)
       => n = p - b - 1 /\ (n > 0 => v = b + 1)
  /\ p > b + 1 /\ s[b + 1] = Quote /\ s[p] = Quote /\ (\A i \in b + 2 .. p - 1 : s[i] # Quote)
       => n = p - b - 2 /\ (n > 0 => v = b + 1)

LEMMA NothingJoined ==
  ASSUME NEW s \in Seq(STRING), NEW b, Between(s, b)
  PROVE  Joined(s, b, b, FALSE, FALSE) /\ ViewOf(s, b, b, FALSE, 0, 0)
<1>1. b \in 0 .. Len(s) /\ ~InString(s, b + 1) /\ Len(s) \in Nat
  BY DEF Between
<1>2. b + 1 .. b = {} /\ b \in b .. Len(s)
  BY <1>1
<1>3. FALSE = InString(s, b + 1)
  BY <1>1 DEF InString
<1>4. FALSE = (\E i \in b + 1 .. b : s[i] = Quote)
  BY <1>2
<1>5. Joined(s, b, b, FALSE, FALSE)
  BY <1>1, <1>2, <1>3, <1>4 DEF Joined
<1>6. ViewOf(s, b, b, FALSE, 0, 0)
  BY <1>1 DEF ViewOf
<1>. QED
  BY <1>5, <1>6

\* A byte joins: what changes of the first part.
LEMMA MoreJoined ==
  ASSUME NEW s \in Seq(STRING), NEW b, NEW p, NEW ins, NEW had, Joined(s, b, p, ins, had),
         p < Len(s), p + 1 \notin Cuts(s)
  PROVE  Joined(s, b, p + 1, ins # (s[p + 1] = Quote), had \/ s[p + 1] = Quote)
<1>. DEFINE q == p + 1
<1>0. Len(s) \in Nat /\ b \in 0 .. Len(s) /\ p \in b .. Len(s) /\ q \in 1 .. Len(s) /\ q \in b .. Len(s)
  <2>1. b \in 0 .. Len(s) /\ p \in b .. Len(s)
    BY Zenon DEF Joined, Between
  <2>. QED
    BY <2>1
<1>1. /\ Between(s, b)
      /\ p > b => b = 0 \/ b \in Cuts(s)
      /\ \A i \in b + 1 .. p : i \notin Cuts(s)
      /\ ins = InString(s, p + 1)
      /\ had = (\E i \in b + 1 .. p : s[i] = Quote)
  BY Zenon DEF Joined
<1>2. b = 0 \/ b \in Cuts(s)
  <2>1. CASE p > b
    BY <1>1, <2>1
  <2>2. CASE ~(p > b)
    <3>1. p = b /\ b # Len(s) /\ b + 1 \notin Cuts(s)
      BY <1>0, <2>2
    <3>. QED
      BY <1>1, <3>1, Zenon DEF Between
  <2>. QED
    BY <2>1, <2>2
<1>3. b + 1 .. q = (b + 1 .. p) \cup {q}
  BY <1>0
<1>4. \A i \in b + 1 .. q : i \notin Cuts(s)
  BY <1>1, <1>3
<1>5. (ins # (s[q] = Quote)) = InString(s, q + 1)
  <2>1. InString(s, q + 1) <=> (InString(s, q) # (s[q] = Quote))
    BY <1>0, InStringStep, Zenon
  <2>2. InString(s, q + 1) \in BOOLEAN
    BY DEF InString
  <2>. QED
    BY <1>1, <2>1, <2>2
<1>6. (had \/ s[q] = Quote) = (\E i \in b + 1 .. q : s[i] = Quote)
  <2>. HIDE DEF q
  <2>. QED
    BY <1>1, <1>3
<1>. HIDE DEF q
<1>7. Joined(s, b, q, ins # (s[q] = Quote), had \/ s[q] = Quote)
  BY <1>0, <1>1, <1>2, <1>4, <1>5, <1>6 DEF Joined
<1>. QED
  BY <1>7 DEF q

LEMMA QuoteJoins ==
  ASSUME NEW s \in Seq(STRING), NEW b, NEW p, NEW ins \in BOOLEAN, NEW had \in BOOLEAN, NEW v, NEW n,
         Joined(s, b, p, ins, had), ViewOf(s, b, p, had, v, n), p < Len(s), s[p + 1] = Quote
  PROVE  Joined(s, b, p + 1, ~ins, TRUE) /\ ViewOf(s, b, p + 1, TRUE, v, n)
<1>0. Len(s) \in Nat /\ b \in 0 .. Len(s) /\ p \in b .. Len(s)
  <2>1. b \in 0 .. Len(s) /\ p \in b .. Len(s)
    BY Zenon DEF Joined, Between
  <2>. QED
    BY <2>1
<1>1. p + 1 \notin Cuts(s)
  BY DEF Cuts, IsSeparator, IsEof, IsWhitespace, Punctuation, Quote, EOF
<1>2. Joined(s, b, p + 1, ins # (s[p + 1] = Quote), had \/ s[p + 1] = Quote)
  BY <1>1, MoreJoined
<1>3. (ins # (s[p + 1] = Quote)) = ~ins /\ (had \/ s[p + 1] = Quote) = TRUE
  OBVIOUS
<1>4. Joined(s, b, p + 1, ~ins, TRUE)
  BY <1>2, <1>3
<1>5. v \in Nat /\ n \in Nat
  BY DEF ViewOf
<1>6. p + 1 > b /\ s[b + 1] = Quote /\ (\A i \in b + 2 .. p + 1 : s[i] # Quote)
        => n = p + 1 - b - 1 /\ (n > 0 => v = b + 1)
  <2>. SUFFICES ASSUME \A i \in b + 2 .. p + 1 : s[i] # Quote
                PROVE  n = p + 1 - b - 1 /\ (n > 0 => v = b + 1)
    OBVIOUS
  <2>1. p = b
    BY <1>0
  <2>2. ~had
    <3>1. had = (\E i \in b + 1 .. p : s[i] = Quote)
      BY Zenon DEF Joined
    <3>. QED
      BY <1>0, <2>1, <3>1
  <2>3. n = p - b
    BY <2>2 DEF ViewOf
  <2>. QED
    BY <1>0, <1>5, <2>1, <2>3
<1>7. p + 1 > b + 1 /\ s[b + 1] = Quote /\ s[p + 1] = Quote /\ (\A i \in b + 2 .. p + 1 - 1 : s[i] # Quote)
        => n = p + 1 - b - 2 /\ (n > 0 => v = b + 1)
  <2>. SUFFICES ASSUME p + 1 > b + 1, s[b + 1] = Quote, \A i \in b + 2 .. p + 1 - 1 : s[i] # Quote
                PROVE  n = p + 1 - b - 2 /\ (n > 0 => v = b + 1)
    OBVIOUS
  <2>1. p > b /\ \A i \in b + 2 .. p : s[i] # Quote
    BY <1>0
  <2>2. n = p - b - 1 /\ (n > 0 => v = b + 1)
    BY <2>1 DEF ViewOf
  <2>. QED
    BY <1>0, <1>5, <2>2
<1>. DEFINE q == p + 1
            has == TRUE
<1>8. q > b /\ s[b + 1] = Quote /\ (\A i \in b + 2 .. q : s[i] # Quote)
        => n = q - b - 1 /\ (n > 0 => v = b + 1)
  BY <1>0, <1>5, <1>6
<1>9. q > b + 1 /\ s[b + 1] = Quote /\ s[q] = Quote /\ (\A i \in b + 2 .. q - 1 : s[i] # Quote)
        => n = q - b - 2 /\ (n > 0 => v = b + 1)
  BY <1>0, <1>5, <1>7
<1>10. has
  OBVIOUS
<1>. HIDE DEF q, has
<1>11. ViewOf(s, b, q, has, v, n)
  BY <1>5, <1>8, <1>9, <1>10, Zenon DEF ViewOf
<1>. QED
  BY <1>4, <1>11 DEF q, has

LEMMA ByteJoins ==
  ASSUME NEW s \in Seq(STRING), NEW b, NEW p, NEW ins \in BOOLEAN, NEW had \in BOOLEAN, NEW v, NEW n,
         Joined(s, b, p, ins, had), ViewOf(s, b, p, had, v, n), p < Len(s), s[p + 1] # Quote,
         ins \/ ~IsSeparator(s[p + 1]),
         NEW w, NEW m, n > 0 => m = n + 1 /\ w = v, ~(n > 0) => m = 1 /\ w = p
  PROVE  Joined(s, b, p + 1, ins, had) /\ ViewOf(s, b, p + 1, had, w, m)
<1>0. Len(s) \in Nat /\ b \in 0 .. Len(s) /\ p \in b .. Len(s)
  <2>1. b \in 0 .. Len(s) /\ p \in b .. Len(s)
    BY Zenon DEF Joined, Between
  <2>. QED
    BY <2>1
<1>1. p + 1 \notin Cuts(s)
  <2>1. ins = InString(s, p + 1)
    BY Zenon DEF Joined
  <2>. QED
    BY <2>1, Zenon DEF Cuts
<1>2. Joined(s, b, p + 1, ins # (s[p + 1] = Quote), had \/ s[p + 1] = Quote)
  BY <1>1, MoreJoined
<1>3. (ins # (s[p + 1] = Quote)) = ins /\ (had \/ s[p + 1] = Quote) = had
  OBVIOUS
<1>4. Joined(s, b, p + 1, ins, had)
  BY <1>2, <1>3
<1>5. v \in Nat /\ n \in Nat /\ w \in Nat /\ m \in Nat /\ m > 0
  <2>1. v \in Nat /\ n \in Nat
    BY DEF ViewOf
  <2>. QED
    BY <1>0, <2>1
<1>6. ~had => m = p + 1 - b /\ w = b
  <2>. SUFFICES ASSUME ~had PROVE m = p + 1 - b /\ w = b
    OBVIOUS
  <2>1. n = p - b /\ (n > 0 => v = b)
    BY DEF ViewOf
  <2>. QED
    BY <1>0, <1>5, <2>1
<1>7. p + 1 > b /\ s[b + 1] = Quote /\ (\A i \in b + 2 .. p + 1 : s[i] # Quote)
        => m = p + 1 - b - 1 /\ (m > 0 => w = b + 1)
  <2>. SUFFICES ASSUME s[b + 1] = Quote, \A i \in b + 2 .. p + 1 : s[i] # Quote
                PROVE  m = p + 1 - b - 1 /\ w = b + 1
    OBVIOUS
  <2>1. p # b
    OBVIOUS
  <2>2. p > b /\ \A i \in b + 2 .. p : s[i] # Quote
    BY <1>0, <2>1
  <2>3. n = p - b - 1 /\ (n > 0 => v = b + 1)
    BY <2>2 DEF ViewOf
  <2>. QED
    BY <1>0, <1>5, <2>2, <2>3
<1>8. p + 1 > b + 1 /\ s[b + 1] = Quote /\ s[p + 1] = Quote /\ (\A i \in b + 2 .. p + 1 - 1 : s[i] # Quote)
        => m = p + 1 - b - 2 /\ (m > 0 => w = b + 1)
  OBVIOUS
<1>. DEFINE q == p + 1
<1>9. ~had => m = q - b /\ (m > 0 => w = b)
  BY <1>0, <1>5, <1>6
<1>10. q > b /\ s[b + 1] = Quote /\ (\A i \in b + 2 .. q : s[i] # Quote)
         => m = q - b - 1 /\ (m > 0 => w = b + 1)
  BY <1>0, <1>5, <1>7
<1>11. q > b + 1 /\ s[b + 1] = Quote /\ s[q] = Quote /\ (\A i \in b + 2 .. q - 1 : s[i] # Quote)
         => m = q - b - 2 /\ (m > 0 => w = b + 1)
  BY <1>8
<1>. HIDE DEF q
<1>12. ViewOf(s, b, q, had, w, m)
  BY <1>5, <1>9, <1>10, <1>11, Zenon DEF ViewOf
<1>. QED
  BY <1>4, <1>12 DEF q

\* A separator, or the end of the file, ends the run.
LEMMA IdentifierEnds ==
  ASSUME NEW s \in Seq(STRING), NEW b, NEW p, NEW ins, NEW had, Joined(s, b, p, ins, had),
         p > b, p = Len(s) \/ (~ins /\ IsSeparator(s[p + 1]))
  PROVE  /\ IsRun(s, b + 1, p)
         /\ p = Len(s) \/ p + 1 \in Cuts(s)
<1>0. Len(s) \in Nat /\ b \in 0 .. Len(s) /\ p \in b .. Len(s)
  <2>1. b \in 0 .. Len(s) /\ p \in b .. Len(s)
    BY Zenon DEF Joined, Between
  <2>. QED
    BY <2>1
<1>1. /\ b = 0 \/ b \in Cuts(s)
      /\ \A i \in b + 1 .. p : i \notin Cuts(s)
      /\ ins = InString(s, p + 1)
  BY Zenon DEF Joined
<1>2. p = Len(s) \/ p + 1 \in Cuts(s)
  <2>1. CASE p # Len(s)
    <3>1. p + 1 \in DOMAIN s
      BY <1>0, <2>1
    <3>. QED
      BY <1>1, <2>1, <3>1, Zenon DEF Cuts
  <2>. QED
    BY <2>1
<1>3. b + 1 \in 1 .. Len(s) /\ p \in b + 1 .. Len(s)
  BY <1>0
<1>4. b + 1 = 1 \/ b + 1 - 1 \in Cuts(s)
  <2>1. b + 1 - 1 = b
    BY <1>0
  <2>. QED
    BY <1>0, <1>1, <2>1
<1>. DEFINE a == b + 1
<1>5. a \in 1 .. Len(s) /\ p \in a .. Len(s)
  BY <1>3
<1>6. \A i \in a .. p : i \notin Cuts(s)
  BY <1>1
<1>7. a = 1 \/ a - 1 \in Cuts(s)
  BY <1>0, <1>4
<1>. HIDE DEF a
<1>8. IsRun(s, a, p)
  BY <1>2, <1>5, <1>6, <1>7, Zenon DEF IsRun
<1>. QED
  BY <1>2, <1>8 DEF a

----------------------------------------------------------------------------
(* What a call returns *)

\* The byte the loop looks at, up to the file's end.
LEMMA ReadsVisible ==
  ASSUME TypeOK, NEW s, s = Visible(source), pos <= Len(s)
  PROVE  /\ s \in Seq(STRING) /\ Len(s) \in Nat /\ Len(s) <= Len(source)
         /\ Len(source) \in Nat /\ pos \in Nat
         /\ \A i \in 1 .. Len(s) : s[i] = source[i]
         /\ pos < Len(s) => c = s[pos + 1] /\ ~IsEof(c) /\ next = pos + 1
         /\ pos = Len(s) => IsEof(c)
         /\ PutBack = pos \/ (pos = Len(s) /\ Len(s) = Len(source))
<1>1. source \in Seq(STRING) /\ Len(source) \in Nat /\ pos \in Nat /\ pos <= Len(source)
  BY LenNat DEF TypeOK
<1>2. /\ s \in Seq(STRING) /\ Len(s) \in 0 .. Len(source)
      /\ \A i \in 1 .. Len(s) : s[i] = source[i] /\ ~IsEof(source[i])
      /\ Len(s) < Len(source) => IsEof(source[Len(s) + 1])
  BY <1>1, VisibleIs
<1>3. CASE pos < Len(s)
  <2>1. ~(pos >= Len(source)) /\ pos + 1 \in 1 .. Len(s)
    BY <1>1, <1>2, <1>3
  <2>2. c = source[pos + 1] /\ next = pos + 1
    BY <2>1 DEF c, next
  <2>3. PutBack = pos
    BY <1>1, <2>2 DEF PutBack
  <2>. QED
    BY <1>1, <1>2, <1>3, <2>1, <2>2, <2>3
<1>4. CASE pos = Len(s) /\ Len(s) < Len(source)
  <2>1. ~(pos >= Len(source))
    BY <1>1, <1>2, <1>4
  <2>2. c = source[pos + 1] /\ next = pos + 1
    BY <2>1 DEF c, next
  <2>3. PutBack = pos
    BY <1>1, <2>2 DEF PutBack
  <2>. QED
    BY <1>1, <1>2, <1>4, <2>2, <2>3
<1>5. CASE pos = Len(s) /\ Len(s) = Len(source)
  <2>1. IsEof(c)
    BY <1>1, <1>5 DEF c, IsEof
  <2>. QED
    BY <1>1, <1>2, <1>5, <2>1
<1>. QED
  BY <1>1, <1>2, <1>3, <1>4, <1>5

\* Token t, returned with p bytes read, says what lexeme l of the file is.
Told(src, s, p, t, l) ==
  LET text == SubSeq(s, l.first, l.last)
      inner == SubSeq(s, l.first + 1, l.last - 1)
  IN  /\ t.type \in (IF l.kind = "loops" THEN {"hangs", "error"} ELSE {l.kind})
      /\ t.type # "error" /\ l.last < Len(src) => p = l.last
      /\ t.type = "string" /\ text = <<Quote>> \o inner \o <<Quote>> /\ ~Contains(inner, Quote)
           => SubSeq(src, t.from + 1, t.from + t.len) = inner
      /\ t.type = "numeric" /\ HasFraction(text) => t.negative = (text[1] = Minus)

LEMMA YieldTells ==
  ASSUME NEW t, NEW p, Yield(t, p), NEW s, s = Visible(source), NEW k, count' = k,
         k <= Cardinality(Lexemes(s)) => Told(source, s, p, t, Nth(Lexemes(s), k)),
         k > Cardinality(Lexemes(s)) /\ Sealed => t.type = "eof"
  PROVE  TokensAreLexemes'
<1>1. source' = source /\ tok' = t /\ pos' = p /\ count' = k
  BY DEF Yield
<1>2. Sealed' = Sealed
  BY <1>1 DEF Sealed
<1>3. (pc \in {"yield", "hung"} /\ count <= Cardinality(Lexemes(Visible(source))) =>
         Told(source, Visible(source), pos, tok, Nth(Lexemes(Visible(source)), count)))'
  BY <1>1
<1>4. (pc = "yield" /\ count > Cardinality(Lexemes(Visible(source))) /\ Sealed => tok.type = "eof")'
  BY <1>1, <1>2
<1>. QED
  BY <1>3, <1>4 DEF TokensAreLexemes, Told

\* The run from b to p is a string with one quote at each end.
QuotedAt(s, b, p, inner) ==
  /\ p > b
  /\ inner = SubSeq(s, b + 2, p - 1)
  /\ SubSeq(s, b + 1, p) = <<Quote>> \o inner \o <<Quote>>
  /\ ~Contains(inner, Quote)

\* Src begins with s.
BeginsWith(src, s) ==
  /\ src \in Seq(STRING) /\ s \in Seq(STRING) /\ Len(s) <= Len(src)
  /\ \A i \in 1 .. Len(s) : s[i] = src[i]

\* Then the view is what is between them.
LEMMA StringTold ==
  ASSUME NEW src, NEW s, BeginsWith(src, s), NEW b, NEW p, NEW ins, NEW had, NEW v, NEW n,
         Joined(s, b, p, ins, had), ViewOf(s, b, p, had, v, n), NEW inner, QuotedAt(s, b, p, inner)
  PROVE  SubSeq(src, v + 1, v + n) = inner
<1>. DEFINE text == SubSeq(s, b + 1, p)
<1>a. /\ src \in Seq(STRING) /\ s \in Seq(STRING) /\ Len(s) <= Len(src)
      /\ \A i \in 1 .. Len(s) : s[i] = src[i]
      /\ p > b
      /\ inner = SubSeq(s, b + 2, p - 1)
      /\ text = <<Quote>> \o inner \o <<Quote>>
      /\ ~Contains(inner, Quote)
  BY Zenon DEF BeginsWith, QuotedAt
<1>0. Len(s) \in Nat /\ Len(src) \in Nat /\ b \in 0 .. Len(s) /\ p \in b .. Len(s)
  <2>1. b \in 0 .. Len(s) /\ p \in b .. Len(s)
    BY Zenon DEF Joined, Between
  <2>. QED
    BY <2>1
<1>1. text \in Seq(STRING) /\ Len(text) = p - b /\ \A k \in 1 .. p - b : text[k] = s[b + k]
  <2>. DEFINE a == b + 1
  <2>1. a \in Int /\ p \in Int /\ 1 <= a /\ p <= Len(s) /\ a <= p
    BY <1>a, <1>0
  <2>2. p - a + 1 = p - b /\ \A k \in Int : a + k - 1 = b + k
    BY <1>0
  <2>. HIDE DEF a
  <2>3. /\ SubSeq(s, a, p) \in Seq(STRING) /\ Len(SubSeq(s, a, p)) = (IF a <= p THEN p - a + 1 ELSE 0)
        /\ \A k \in 1 .. p - a + 1 : SubSeq(s, a, p)[k] = s[a + k - 1]
    BY <1>a, <2>1, PartIs
  <2>4. Len(SubSeq(s, a, p)) = p - b
    BY <2>1, <2>2, <2>3
  <2>5. ASSUME NEW k \in 1 .. p - b PROVE SubSeq(s, a, p)[k] = s[b + k]
    <3>1. k \in 1 .. p - a + 1 /\ a + k - 1 = b + k
      BY <2>2
    <3>2. SubSeq(s, a, p)[k] = s[a + k - 1]
      BY <2>3, <3>1
    <3>. QED
      BY <3>1, <3>2
  <2>. QED
    BY <2>3, <2>4, <2>5 DEF a
<1>2. inner \in Seq(STRING)
  <2>1. \A i \in b + 2 .. p - 1 : s[i] \in STRING
    BY <1>a, <1>0
  <2>. QED
    BY <1>a, <1>0, <2>1, SubSeqProperties
<1>3. Len(inner) \in Nat /\ Len(text) = Len(inner) + 2 /\ text[1] = Quote /\ text[Len(inner) + 2] = Quote
  <2>1. text = <<Quote>> \o inner \o <<Quote>>
    BY <1>a
  <2>. HIDE DEF text
  <2>. QED
    BY ONLY <1>2, <2>1
<1>4. p >= b + 2 /\ Len(inner) = p - b - 2 /\ s[b + 1] = Quote /\ s[p] = Quote
  <2>1. p - b = Len(inner) + 2
    BY <1>1, <1>3
  <2>2. p - b \in 1 .. p - b /\ 1 \in 1 .. p - b /\ b + (p - b) = p
    BY <1>0, <1>3, <2>1
  <2>3. text[p - b] = s[p] /\ text[1] = s[b + 1]
    BY <1>1, <2>2
  <2>. QED
    BY <1>0, <1>3, <2>1, <2>3
<1>5. \A k \in 1 .. p - b - 2 : inner[k] = s[b + k + 1]
  <2>. DEFINE a == b + 2
              e == p - 1
  <2>1. a \in Int /\ e \in Int /\ 1 <= a /\ e <= Len(s)
    BY <1>0
  <2>2. e - a + 1 = p - b - 2 /\ \A k \in Int : a + k - 1 = b + k + 1
    BY <1>0
  <2>. HIDE DEF a, e
  <2>3. \A k \in 1 .. e - a + 1 : SubSeq(s, a, e)[k] = s[a + k - 1]
    BY <2>1, PartIs
  <2>4. ASSUME NEW k \in 1 .. p - b - 2 PROVE SubSeq(s, a, e)[k] = s[b + k + 1]
    <3>1. k \in 1 .. e - a + 1 /\ a + k - 1 = b + k + 1
      BY <2>2
    <3>2. SubSeq(s, a, e)[k] = s[a + k - 1]
      BY <2>3, <3>1
    <3>. QED
      BY <3>1, <3>2
  <2>. QED
    BY <1>a, <2>4 DEF a, e
<1>6. \A i \in b + 2 .. p - 1 : s[i] # Quote
  <2>. SUFFICES ASSUME NEW i \in b + 2 .. p - 1, s[i] = Quote PROVE FALSE
    OBVIOUS
  <2>. DEFINE k == i - b - 1
  <2>1. k \in 1 .. p - b - 2 /\ b + k + 1 = i
    BY <1>0, <1>4
  <2>. HIDE DEF k
  <2>2. inner[k] = Quote /\ k \in 1 .. Len(inner)
    BY <1>4, <1>5, <2>1
  <2>3. Contains(inner, Quote)
    BY <2>2 DEF Contains
  <2>. QED
    BY <1>a, <2>3
<1>7. n = p - b - 2 /\ (n > 0 => v = b + 1) /\ v \in Nat /\ n \in Nat
  <2>1. p > b + 1
    BY <1>0, <1>4
  <2>. QED
    BY <1>4, <1>6, <2>1, Zenon DEF ViewOf
<1>8. CASE n = 0
  <2>1. Len(inner) = 0
    BY <1>0, <1>4, <1>7, <1>8
  <2>2. inner = <<>>
    <3>. QED
      BY <1>2, <2>1
  <2>3. SubSeq(src, v + 1, v + n) = <<>>
    BY <1>7, <1>8
  <2>. QED
    BY <2>2, <2>3
<1>9. CASE n > 0
  <2>. DEFINE a == v + 1
              e == v + n
              part == SubSeq(src, a, e)
  <2>1. a \in Int /\ e \in Int /\ 1 <= a /\ e <= Len(src) /\ a <= e
    BY <1>a, <1>0, <1>4, <1>7, <1>9
  <2>2. e - a + 1 = p - b - 2 /\ \A k \in Int : a + k - 1 = b + k + 1
    BY <1>0, <1>7, <1>9
  <2>3. \A k \in 1 .. p - b - 2 : b + k + 1 \in 1 .. Len(s)
    BY <1>0
  <2>. HIDE DEF a, e
  <2>4. /\ part \in Seq(STRING) /\ Len(part) = (IF a <= e THEN e - a + 1 ELSE 0)
        /\ \A k \in 1 .. e - a + 1 : part[k] = src[a + k - 1]
    BY <1>a, <2>1, PartIs
  <2>. HIDE DEF part
  <2>5. Len(part) = p - b - 2
    BY <2>1, <2>2, <2>4
  <2>a. ASSUME NEW k \in 1 .. p - b - 2 PROVE part[k] = s[b + k + 1]
    <3>1. k \in 1 .. e - a + 1 /\ a + k - 1 = b + k + 1
      BY <2>2
    <3>2. part[k] = src[a + k - 1]
      BY <2>4, <3>1
    <3>3. b + k + 1 \in 1 .. Len(s)
      BY <2>3
    <3>4. src[b + k + 1] = s[b + k + 1]
      BY <1>a, <3>3
    <3>. QED
      BY <3>1, <3>2, <3>4
  <2>6. part = inner
    BY ONLY <1>2, <1>4, <1>5, <2>4, <2>5, <2>a, SeqEqual
  <2>. QED
    BY <2>6 DEF part, a, e
<1>10. n = 0 \/ n > 0
  <2>1. n \in Nat
    BY <1>7
  <2>. QED
    BY <2>1
<1>. QED
  BY <1>8, <1>9, <1>10, Zenon

\* Without quotes the view is the run.
LEMMA ViewIsRun ==
  ASSUME TypeOK, NEW s, s = Visible(source), NEW b, NEW p, p > b, p = pos,
         Joined(s, b, p, is_in_string, token_had_string), ViewOf(s, b, p, token_had_string, view_s, view_len),
         ~token_had_string
  PROVE  identifier = SubSeq(s, b + 1, p)
<1>0. b \in 0 .. Len(s) /\ p \in b .. Len(s)
  BY Zenon DEF Joined, Between
<1>1. /\ s \in Seq(STRING) /\ Len(s) \in Nat /\ Len(s) <= Len(source)
      /\ Len(source) \in Nat
      /\ \A i \in 1 .. Len(s) : s[i] = source[i]
  <2>1. source \in Seq(STRING) /\ Len(source) \in Nat
    BY LenNat DEF TypeOK
  <2>2. /\ s \in Seq(STRING) /\ Len(s) \in 0 .. Len(source)
        /\ \A i \in 1 .. Len(s) : s[i] = source[i]
    BY <2>1, VisibleIs
  <2>. QED
    BY <2>1, <2>2
<1>2. view_len = p - b /\ view_s = b
  <2>1. view_len = p - b /\ (view_len > 0 => view_s = b)
    BY DEF ViewOf
  <2>2. p - b > 0
    BY <1>0, <1>1
  <2>. QED
    BY <2>1, <2>2
<1>. DEFINE a == b + 1
<1>3. a \in Int /\ p \in Int /\ 1 <= a /\ p <= Len(s) /\ p <= Len(source) /\ a <= p
  BY <1>0, <1>1
<1>4. view_s + 1 = a /\ view_s + view_len = p
  BY <1>0, <1>1, <1>2
<1>5. source \in Seq(STRING)
  BY DEF TypeOK
<1>. DEFINE x == SubSeq(source, a, p)
            y == SubSeq(s, a, p)
<1>6. identifier = x
  BY <1>4 DEF identifier
<1>7. \A k \in 1 .. p - a + 1 : a + k - 1 \in 1 .. Len(s)
  BY <1>1, <1>3
<1>. HIDE DEF a
<1>8. /\ x \in Seq(STRING) /\ Len(x) = (IF a <= p THEN p - a + 1 ELSE 0)
      /\ \A k \in 1 .. p - a + 1 : x[k] = source[a + k - 1]
  BY <1>3, <1>5, PartIs
<1>9. /\ y \in Seq(STRING) /\ Len(y) = (IF a <= p THEN p - a + 1 ELSE 0)
      /\ \A k \in 1 .. p - a + 1 : y[k] = s[a + k - 1]
  BY <1>1, <1>3, PartIs
<1>. HIDE DEF x, y
<1>10. ASSUME NEW k \in 1 .. p - a + 1 PROVE x[k] = y[k]
  <2>1. a + k - 1 \in 1 .. Len(s)
    BY <1>7
  <2>2. s[a + k - 1] = source[a + k - 1]
    BY <1>1, <2>1
  <2>. QED
    BY <1>8, <1>9, <2>2
<1>11. Len(x) = p - a + 1 /\ Len(y) = p - a + 1
  BY <1>3, <1>8, <1>9
<1>12. x = y
  BY <1>8, <1>9, <1>10, <1>11, SeqEqual
<1>. QED
  BY <1>6, <1>12 DEF x, y, a

LEMMA IdentifierTold ==
  ASSUME TypeOK, NEW s, s = Visible(source), NEW b, NEW p, p > b, p = pos,
         Joined(s, b, p, is_in_string, token_had_string), ViewOf(s, b, p, token_had_string, view_s, view_len),
         ~is_in_string, NEW t \in IdentifierTokens
  PROVE  Told(source, s, PutBack, t, RunLexeme(s, b + 1, p))
<1>. DEFINE a == b + 1
            l == RunLexeme(s, a, p)
            text == SubSeq(s, a, p)
            inner == SubSeq(s, a + 1, p - 1)
<1>0. b \in 0 .. Len(s) /\ p \in b .. Len(s)
  BY Zenon DEF Joined, Between
<1>1. /\ s \in Seq(STRING) /\ Len(s) \in Nat /\ Len(s) <= Len(source)
      /\ Len(source) \in Nat
      /\ \A i \in 1 .. Len(s) : s[i] = source[i]
      /\ PutBack = p \/ (p = Len(s) /\ Len(s) = Len(source))
  <2>1. source \in Seq(STRING) /\ Len(source) \in Nat
    BY LenNat DEF TypeOK
  <2>2. s \in Seq(STRING) /\ Len(s) \in Nat
    BY <2>1, VisibleIs
  <2>3. pos <= Len(s)
    BY <1>0, <2>2
  <2>. QED
    BY <2>3, ReadsVisible
<1>2. a \in 1 .. Len(s) /\ p \in a .. Len(s)
  BY <1>0, <1>1
<1>3. l.first = a /\ l.last = p /\ l.kind = RunKind(s, <<a, p>>)
  BY DEF RunLexeme
<1>4. ~InString(s, p + 1) /\ token_had_string = (\E i \in b + 1 .. p : s[i] = Quote)
  BY Zenon DEF Joined
<1>5. text \in Seq(STRING) /\ text # <<>> /\ (Contains(text, Quote) <=> token_had_string)
  BY <1>1, <1>2, <1>4, RunText
<1>6. l.last < Len(source) => PutBack = l.last
  BY <1>1, <1>3
<1>7. SUFFICES
        /\ t.type \in (IF l.kind = "loops" THEN {"hangs", "error"} ELSE {l.kind})
        /\ t.type = "string" /\ text = <<Quote>> \o inner \o <<Quote>> /\ ~Contains(inner, Quote)
             => SubSeq(source, t.from + 1, t.from + t.len) = inner
        /\ t.type = "numeric" /\ HasFraction(text) => t.negative = (text[1] = Minus)
  BY <1>3, <1>6 DEF Told
<1>7a. /\ Contains(text, Quote) => l.kind = IF InString(s, p + 1) THEN "error" ELSE "string"
       /\ ~Contains(text, Quote) /\ Names(text) # {} => l.kind \in Names(text)
       /\ ~Contains(text, Quote) /\ Names(text) = {} =>
              /\ IsDecimal(Unsigned(text)) /\ ~HasExponent(Unsigned(text)) => l.kind = "numeric"
              /\ ~IsDecimal(Unsigned(text)) /\ HasExponent(Unsigned(text)) => l.kind = "loops"
              /\ ~IsDecimal(Unsigned(text)) /\ ~HasExponent(Unsigned(text)) => l.kind = "error"
  <2>1. text = SubSeq(s, a, p) /\ l.kind = RunKind(s, <<a, p>>)
    BY <1>3
  <2>. HIDE DEF text, a, l
  <2>. QED
    BY <2>1, KindIs, Zenon
<1>8. CASE token_had_string
  <2>1. t = [Token("string") EXCEPT !.from = view_s, !.len = view_len]
    BY <1>8 DEF IdentifierTokens
  <2>2. t.type = "string" /\ t.from = view_s /\ t.len = view_len
    BY <2>1 DEF Token
  <2>3. l.kind = "string"
    BY <1>7a, <1>4, <1>5, <1>8, Zenon
  <2>4. ASSUME text = <<Quote>> \o inner \o <<Quote>>, ~Contains(inner, Quote)
        PROVE  SubSeq(source, view_s + 1, view_s + view_len) = inner
    <3>1. a = b + 1 /\ a + 1 = b + 2
      BY <1>0, <1>1
    <3>2. source \in Seq(STRING)
      BY DEF TypeOK
    <3>3. text = SubSeq(s, b + 1, p) /\ inner = SubSeq(s, b + 2, p - 1)
      BY <3>1
    <3>4. QuotedAt(s, b, p, inner)
      BY <2>4, <3>3 DEF QuotedAt
    <3>5. BeginsWith(source, s)
      BY <1>1, <3>2 DEF BeginsWith
    <3>. HIDE DEF text, inner, l
    <3>. QED
      BY ONLY <3>4, <3>5, StringTold,
              Joined(s, b, p, is_in_string, token_had_string),
              ViewOf(s, b, p, token_had_string, view_s, view_len)
  <2>. QED
    BY <2>2, <2>3, <2>4
<1>9. CASE ~token_had_string
  <2>1. identifier = text
    BY <1>9, ViewIsRun
  <2>. HIDE DEF l, text, inner
  <2>2. CASE Names(text) # {}
    <3>1. PICK n \in Names(text) : t = Token(n)
      BY <1>9, <2>1, <2>2 DEF IdentifierTokens, Names
    <3>2. l.kind \in Names(text)
      BY <1>7a, <1>5, <1>9, <2>2
    <3>3. l.kind = n
      BY <1>5, <3>2, OneLiteral DEF Names
    <3>4. n \in {"null", "true", "false"}
      BY DEF Names, Literals
    <3>5. t.type = n
      BY <3>1 DEF Token
    <3>. QED
      BY <3>3, <3>4, <3>5
  <2>3. CASE Names(text) = {}
    <3>1. t \in parse_double(text)
      BY <1>9, <2>1, <2>3 DEF IdentifierTokens, Names
    <3>. DEFINE d == IsDecimal(Unsigned(text))
                x == HasExponent(Unsigned(text))
    <3>2. /\ \/ d /\ ~x /\ t.type = "numeric"
             \/ ~d /\ x /\ t.type \in {"hangs", "error"}
             \/ ~d /\ ~x /\ t.type = "error"
          /\ t.type = "numeric" /\ HasFraction(text) => t.negative = (text[1] = Minus)
      BY <1>5, <3>1, ParsedAsIs
    <3>3. /\ d /\ ~x => l.kind = "numeric"
          /\ ~d /\ x => l.kind = "loops"
          /\ ~d /\ ~x => l.kind = "error"
      BY <1>7a, <1>5, <1>9, <2>3
    <3>. HIDE DEF d, x
    <3>. QED
      BY <3>2, <3>3
  <2>. QED
    BY <2>2, <2>3
<1>. QED
  BY <1>8, <1>9

----------------------------------------------------------------------------
(* Every call returns the next lexeme *)

\* The lexemes up to b were returned and the bytes from there to pos joined.
ScannedFrom(b) ==
  /\ Joined(Visible(source), b, pos, is_in_string, token_had_string)
  /\ ViewOf(Visible(source), b, pos, token_had_string, view_s, view_len)
  /\ count = Cardinality(Until(Visible(source), b))

\* Between two calls.
AtLexeme ==
  /\ Between(Visible(source), pos)
  /\ count = Cardinality(Until(Visible(source), pos))

\* The last identifier was ended by the end of the file, and its last byte
\* put back: what comes now is no lexeme.
PutBackTooFar == ~Sealed /\ count >= Cardinality(Lexemes(Visible(source)))

LexInv ==
  /\ ScanInv
  /\ pc = "scan" => PutBackTooFar \/ \E b : ScannedFrom(b)
  /\ pc = "yield" /\ tok.type \notin Final => PutBackTooFar \/ AtLexeme
  /\ TokensAreLexemes

LEMMA UntilStart ==
  ASSUME NEW s \in Seq(STRING)
  PROVE  Cardinality(Until(s, 0)) = 0
<1>1. \A l \in Lexemes(s) : ~(l.last <= 0)
  <2>. TAKE l \in Lexemes(s)
  <2>1. l.first \in 1 .. Len(s) /\ l.last \in l.first .. Len(s) /\ Len(s) \in Nat
    BY LexemeIs
  <2>. QED
    BY <2>1
<1>2. Until(s, 0) = {}
  BY <1>1 DEF Until
<1>. QED
  BY <1>2, FS_EmptySet

LEMMA LexInit == Init => LexInv
<1>. SUFFICES ASSUME Init PROVE LexInv
  OBVIOUS
<1>. DEFINE s == Visible(source)
<1>1. ScanInv
  BY ScanInit
<1>2. s \in Seq(STRING) /\ Len(s) \in Nat
  <2>1. source \in Seq(STRING)
    BY <1>1 DEF ScanInv, TypeOK
  <2>. QED
    BY <2>1, VisibleIs
<1>3. pos = 0 /\ view_s = 0 /\ view_len = 0 /\ is_in_string = FALSE /\ token_had_string = FALSE
      /\ count = 0 /\ pc = "scan"
  BY DEF Init
<1>. HIDE DEF s
<1>4. Between(s, 0)
  <2>1. ~InString(s, 1) /\ 0 + 1 = 1 /\ 0 \in 0 .. Len(s)
    BY <1>2, InStringStep
  <2>. QED
    BY <2>1 DEF Between
<1>5. Joined(s, 0, 0, FALSE, FALSE) /\ ViewOf(s, 0, 0, FALSE, 0, 0) /\ Cardinality(Until(s, 0)) = 0
  BY <1>2, <1>4, NothingJoined, UntilStart
<1>6. ScannedFrom(0)
  BY <1>3, <1>5 DEF ScannedFrom, s
<1>7. TokensAreLexemes
  BY <1>3 DEF TokensAreLexemes
<1>. QED
  BY <1>1, <1>3, <1>6, <1>7 DEF LexInv

\* Counting one token more.
LEMMA CountsOne ==
  ASSUME TypeOK, NEW t, NEW p, Yield(t, p)
  PROVE  /\ Cardinality(Lexemes(Visible(source))) \in Nat /\ count \in Nat
         /\ Cardinality(Lexemes(Visible(source))) <= Len(source)
         /\ count <= Len(source) => count' = count + 1
         /\ count > Len(source) => count' = count
<1>. DEFINE K == Cardinality(Lexemes(Visible(source)))
<1>1. source \in Seq(STRING) /\ Len(source) \in Nat /\ count \in Nat
  BY LenNat DEF TypeOK
<1>2. Visible(source) \in Seq(STRING) /\ Len(Visible(source)) \in 0 .. Len(source)
  BY <1>1, VisibleIs
<1>3. K \in Nat /\ K <= Len(Visible(source))
  BY <1>2, LexemesFinite
<1>. HIDE DEF K
<1>4. K \in Nat /\ K <= Len(source)
  BY <1>1, <1>2, <1>3
<1>5. count' = IF count <= Len(source) THEN count + 1 ELSE count
  BY DEF Yield
<1>. QED
  BY <1>1, <1>4, <1>5 DEF K

\* Once the last byte was put back any token will do.
LEMMA TooFar ==
  ASSUME TypeOK, PutBackTooFar, NEW t, NEW p, Yield(t, p)
  PROVE  TokensAreLexemes' /\ PutBackTooFar'
<1>. DEFINE s == Visible(source)
            K == Cardinality(Lexemes(s))
            k == count'
<1>1. /\ K \in Nat /\ count \in Nat /\ K <= Len(source) /\ Len(source) \in Nat
      /\ count <= Len(source) => k = count + 1
      /\ count > Len(source) => k = count
  BY CountsOne, LenNat DEF TypeOK
<1>2. ~Sealed /\ count >= K
  BY DEF PutBackTooFar
<1>. HIDE DEF K, k
<1>3. k > K
  BY <1>1, <1>2
<1>4. source' = source
  BY DEF Yield
<1>5. ~Sealed'
  BY <1>2, <1>4 DEF Sealed
<1>6. PutBackTooFar'
  <2>1. K' = K
    BY <1>4 DEF K
  <2>2. k >= K
    BY <1>1, <1>3
  <2>. QED
    BY <1>5, <2>1, <2>2 DEF PutBackTooFar, K, k
<1>7. ~(k <= K)
  BY <1>1, <1>3
<1>8. TokensAreLexemes'
  BY <1>2, <1>7, YieldTells DEF K, k
<1>. QED
  BY <1>6, <1>8

\* A token for lexeme l, the first after b.
LEMMA TellsNext ==
  ASSUME TypeOK, NEW s, s = Visible(source), NEW b, Between(s, b), count = Cardinality(Until(s, b)),
         NEW l \in Lexemes(s) \ Until(s, b), l.first = b + 1,
         NEW t, NEW p, Yield(t, p), Told(source, s, p, t, l)
  PROVE  TokensAreLexemes' /\ count' = count + 1 /\ count + 1 <= Cardinality(Lexemes(s))
<1>. DEFINE K == Cardinality(Lexemes(s))
            n == Cardinality(Until(s, b))
<1>1. s \in Seq(STRING)
  BY VisibleIs DEF TypeOK
<1>2. /\ n \in Nat /\ n <= K /\ (K = n => Until(s, b) = Lexemes(s))
  BY <1>1, UntilFinite
<1>3. /\ K \in Nat /\ K <= Len(source) /\ Len(source) \in Nat
      /\ count <= Len(source) => count' = count + 1
  BY CountsOne, LenNat DEF TypeOK
<1>4. Nth(Lexemes(s), n + 1) = l
  BY <1>1, NthIs
<1>5. count = n /\ K # n
  BY <1>2
<1>. HIDE DEF K, n
<1>6. count' = count + 1 /\ count + 1 <= K /\ count' = n + 1
  BY <1>2, <1>3, <1>5
<1>7. ~(n + 1 > K)
  BY <1>2, <1>3, <1>5, <1>6
<1>8. TokensAreLexemes'
  <2>. DEFINE k == n + 1
  <2>1. count' = k /\ ~(k > K) /\ Nth(Lexemes(s), k) = l
    BY <1>4, <1>6, <1>7
  <2>. HIDE DEF k
  <2>. QED
    BY <2>1, YieldTells DEF K
<1>. QED
  BY <1>6, <1>8 DEF K

\* There is an identifier when bytes have joined.
LEMMA IdentifierBegun ==
  ASSUME NEW s \in Seq(STRING), NEW b, NEW p, p = pos, Joined(s, b, p, is_in_string, token_had_string),
         ViewOf(s, b, p, token_had_string, view_s, view_len)
  PROVE  /\ HasIdentifier <=> p > b
         /\ ~HasIdentifier => /\ p = b /\ view_len = 0 /\ ~is_in_string /\ ~token_had_string
                              /\ Between(s, b)
<1>0. Len(s) \in Nat /\ b \in 0 .. Len(s) /\ p \in b .. Len(s)
  <2>1. b \in 0 .. Len(s) /\ p \in b .. Len(s)
    BY Zenon DEF Joined, Between
  <2>. QED
    BY <2>1
<1>1. /\ token_had_string = (\E i \in b + 1 .. p : s[i] = Quote)
      /\ is_in_string = InString(s, p + 1) /\ Between(s, b) /\ ~InString(s, b + 1)
  BY Zenon DEF Joined, Between
<1>2. view_len \in Nat /\ (~token_had_string => view_len = p - b)
  BY DEF ViewOf
<1>3. CASE p = b
  <2>1. ~token_had_string
    BY <1>0, <1>1, <1>3
  <2>2. view_len = 0
    BY <1>0, <1>2, <1>3, <2>1
  <2>3. ~is_in_string
    BY <1>1, <1>3
  <2>. QED
    BY <1>0, <1>1, <1>3, <2>1, <2>2, <2>3 DEF HasIdentifier
<1>4. CASE p > b
  <2>1. ~token_had_string => view_len > 0
    BY <1>0, <1>2, <1>4
  <2>. QED
    BY <1>4, <2>1 DEF HasIdentifier
<1>. QED
  BY <1>0, <1>3, <1>4

\* What is left to show when a call returns.
LEMMA LexAfterYield ==
  ASSUME ScanInv', TokensAreLexemes', NEW t, NEW p, Yield(t, p),
         t.type \notin Final => PutBackTooFar' \/ AtLexeme'
  PROVE  LexInv'
<1>1. tok' = t /\ pc' \in {"yield", "hung"}
  BY DEF Yield
<1>. QED
  BY <1>1 DEF LexInv

\* An identifier's token, or the error of a string without end.
LEMMA LexRun ==
  ASSUME TypeOK, ScanInv', pc = "scan", NEW s, s = Visible(source), NEW b, NEW e, e = pos, e > b,
         Joined(s, b, e, is_in_string, token_had_string), count = Cardinality(Until(s, b)),
         IsRun(s, b + 1, e), e = Len(s) \/ e + 1 \in Cuts(s),
         NEW t, NEW p, Yield(t, p), Told(source, s, p, t, RunLexeme(s, b + 1, e)),
         t.type \notin Final => ~is_in_string /\ p = PutBack
  PROVE  LexInv'
<1>. DEFINE l == RunLexeme(s, b + 1, e)
<1>0. Len(s) \in Nat /\ b \in 0 .. Len(s) /\ e \in b .. Len(s) /\ Between(s, b) /\ s \in Seq(STRING)
  <2>1. b \in 0 .. Len(s) /\ e \in b .. Len(s) /\ Between(s, b)
    BY Zenon DEF Joined, Between
  <2>2. s \in Seq(STRING)
    BY VisibleIs DEF TypeOK
  <2>. QED
    BY <2>1, <2>2
<1>1. /\ l \in Lexemes(s) \ Until(s, b)
      /\ Until(s, e) = Until(s, b) \cup {l}
  BY <1>0, RunEnds
<1>2. l.first = b + 1
  BY DEF RunLexeme
<1>. HIDE DEF l
<1>3. Told(source, s, p, t, l)
  BY DEF l
<1>4. TokensAreLexemes' /\ count' = count + 1
  BY <1>0, <1>1, <1>2, <1>3, TellsNext
<1>5. count' = Cardinality(Until(s, e))
  <2>. DEFINE U == Until(s, b)
  <2>1. IsFiniteSet(U) /\ Cardinality(U) \in Nat
    BY <1>0, UntilFinite
  <2>2. l \notin U
    BY <1>1
  <2>. HIDE DEF U
  <2>3. Cardinality(U \cup {l}) = Cardinality(U) + 1
    BY <2>1, <2>2, FS_AddElement
  <2>. QED
    BY <1>1, <1>4, <2>3 DEF U
<1>6. source' = source /\ pos' = p
  BY DEF Yield
<1>7. ASSUME ~is_in_string, p = PutBack PROVE PutBackTooFar' \/ AtLexeme'
  <2>1. PutBack = e \/ (e = Len(s) /\ Len(s) = Len(source))
    <3>1. pos <= Len(s)
      BY <1>0
    <3>. QED
      BY <3>1, ReadsVisible
  <2>2. CASE PutBack = e
    <3>1. ~InString(s, e + 1)
      BY <1>7, Zenon DEF Joined
    <3>2. e \in 0 .. Len(s)
      BY <1>0
    <3>3. Between(s, e)
      BY <3>1, <3>2, Zenon DEF Between
    <3>. QED
      BY <1>5, <1>6, <1>7, <2>2, <3>3 DEF AtLexeme
  <2>3. CASE e = Len(s) /\ Len(s) = Len(source)
    <3>1. count' = Cardinality(Lexemes(s))
      BY <1>0, <1>5, <2>3, AllUntil
    <3>2. e \notin Cuts(s)
      <4>1. \A i \in b + 1 .. e : i \notin Cuts(s)
        BY Zenon DEF Joined
      <4>. QED
        BY <1>0, <4>1
    <3>3. s # <<>>
      BY <1>0, <2>3
    <3>4. ~Sealed
      BY <1>0, <2>3, <3>2, <3>3 DEF Sealed
    <3>5. ~Sealed'
      BY <1>6, <3>4 DEF Sealed
    <3>6. Cardinality(Lexemes(s)) \in Nat
      BY <1>0, LexemesFinite
    <3>7. Cardinality(Lexemes(Visible(source)))' = Cardinality(Lexemes(s))
      BY <1>6
    <3>. QED
      BY <3>1, <3>5, <3>6, <3>7 DEF PutBackTooFar
  <2>. QED
    BY <2>1, <2>2, <2>3
<1>. QED
  BY <1>4, <1>7, LexAfterYield

\* A step within a call.
LEMMA LexQuiet ==
  ASSUME ScanInv', pc = "scan", pc' = "scan", NEW s, s = Visible(source), source' = source, count' = count,
         \/ PutBackTooFar
         \/ \E b : /\ Joined(s, b, pos', is_in_string', token_had_string')
                   /\ ViewOf(s, b, pos', token_had_string', view_s', view_len')
                   /\ count = Cardinality(Until(s, b))
  PROVE  LexInv'
<1>1. TokensAreLexemes'
  BY DEF TokensAreLexemes
<1>2. PutBackTooFar => PutBackTooFar'
  BY DEF PutBackTooFar, Sealed
<1>3. (\E b : /\ Joined(s, b, pos', is_in_string', token_had_string')
              /\ ViewOf(s, b, pos', token_had_string', view_s', view_len')
              /\ count = Cardinality(Until(s, b)))
        => \E b : ScannedFrom(b)'
  BY DEF ScannedFrom
<1>. QED
  BY <1>1, <1>2, <1>3 DEF LexInv

LEMMA LexNext == LexInv /\ [Next]_vars => LexInv'
<1>. SUFFICES ASSUME LexInv, [Next]_vars PROVE LexInv'
  OBVIOUS
<1>. DEFINE s == Visible(source)
            In(b) == Joined(s, b, pos, is_in_string, token_had_string)
            View(b) == ViewOf(s, b, pos, token_had_string, view_s, view_len)
            Counted(b) == count = Cardinality(Until(s, b))
<1>1. ScanInv /\ TypeOK /\ TokensAreLexemes
  BY DEF LexInv, ScanInv
<1>2. ScanInv'
  BY <1>1, ScanNext
<1>3. source \in Seq(STRING) /\ s \in Seq(STRING) /\ Len(s) \in Nat
  <2>1. source \in Seq(STRING)
    BY <1>1 DEF TypeOK
  <2>. QED
    BY <2>1, VisibleIs
<1>4. pc = "scan" => PutBackTooFar \/ \E b : In(b) /\ View(b) /\ Counted(b)
  BY DEF LexInv, ScannedFrom
<1>5. \A t, p : Yield(t, p) => pc = "scan"
  BY DEF Yield
<1>. HIDE DEF s, In, View, Counted
\* Of a scan that has begun at b.
<1>6. ASSUME NEW b, In(b)
      PROVE  /\ b \in 0 .. Len(s) /\ pos \in b .. Len(s) /\ pos <= Len(s) /\ pos \in Nat
             /\ pos < Len(s) => c = s[pos + 1] /\ ~IsEof(c) /\ next = pos + 1
             /\ pos = Len(s) => IsEof(c)
  <2>1. b \in 0 .. Len(s) /\ pos \in b .. Len(s)
    BY <1>6, Zenon DEF In, Joined, Between
  <2>2. pos <= Len(s)
    BY <1>3, <2>1
  <2>. QED
    BY <1>1, <2>1, <2>2, ReadsVisible DEF s
<1>7. ASSUME NEW b, In(b), View(b)
      PROVE  /\ HasIdentifier <=> pos > b
             /\ ~HasIdentifier => /\ pos = b /\ view_len = 0 /\ ~is_in_string /\ ~token_had_string
                                  /\ Between(s, b)
  BY <1>3, <1>7, IdentifierBegun DEF In, View
\* A token of its own for one byte read, or the end.
<1>8. CASE UnterminatedString
  <2>1. is_in_string /\ IsEof(c) /\ Yield(Token("error"), next) /\ pc = "scan"
    BY <1>5, <1>8 DEF UnterminatedString
  <2>2. Token("error").type = "error"
    BY DEF Token
  <2>3. CASE PutBackTooFar
    BY <1>1, <1>2, <2>1, <2>3, TooFar, LexAfterYield
  <2>4. CASE \E b : In(b) /\ View(b) /\ Counted(b)
    <3>1. PICK b : In(b) /\ View(b) /\ Counted(b)
      BY <2>4
    <3>2. pos > b /\ pos = Len(s)
      BY <1>3, <1>6, <1>7, <2>1, <3>1
    <3>3. IsRun(s, b + 1, pos)
      BY <1>3, <3>1, <3>2, IdentifierEnds DEF In
    <3>4. Told(source, s, next, Token("error"), RunLexeme(s, b + 1, pos))
      <4>. DEFINE a == b + 1
                  l == RunLexeme(s, a, pos)
                  text == SubSeq(s, a, pos)
      <4>1. token_had_string
        BY <1>1, <2>1 DEF ScanInv
      <4>2. \E i \in a .. pos : s[i] = Quote
        BY <3>1, <4>1, Zenon DEF In, Joined
      <4>3. a \in 1 .. Len(s) /\ pos \in a .. Len(s)
        BY <1>3, <1>6, <3>1, <3>2
      <4>. HIDE DEF a
      <4>4. Contains(text, Quote)
        BY <1>3, <4>2, <4>3, RunText
      <4>5. InString(s, pos + 1)
        BY <2>1, <3>1, Zenon DEF In, Joined
      <4>6. RunKind(s, <<a, pos>>) = "error"
        BY <4>4, <4>5, KindIs
      <4>7. l.kind = "error"
        BY <4>6 DEF RunLexeme
      <4>. HIDE DEF l
      <4>8. Told(source, s, next, Token("error"), l)
        BY <2>2, <4>7 DEF Told
      <4>. QED
        BY <4>8 DEF l, a
    <3>. QED
      <4>. DEFINE e == pos
      <4>1. e > b /\ e = Len(s) /\ IsRun(s, b + 1, e)
            /\ Told(source, s, next, Token("error"), RunLexeme(s, b + 1, e))
        BY <3>2, <3>3, <3>4
      <4>2. Joined(s, b, e, is_in_string, token_had_string) /\ count = Cardinality(Until(s, b))
        BY <3>1 DEF In, Counted
      <4>3. s = Visible(source) /\ e = pos
        BY DEF s
      <4>. HIDE DEF e
      <4>. QED
        BY <1>1, <1>2, <2>1, <2>2, <4>1, <4>2, <4>3, LexRun DEF Final
  <2>. QED
    BY <1>4, <2>1, <2>3, <2>4
<1>9. CASE EndIdentifier
  <2>1. PICK t \in IdentifierTokens : Yield(t, PutBack)
    BY <1>9 DEF EndIdentifier
  <2>2. ~is_in_string /\ IsSeparator(c) /\ HasIdentifier /\ pc = "scan"
    BY <1>5, <1>9, <2>1 DEF EndIdentifier, Separates
  <2>3. CASE PutBackTooFar
    BY <1>1, <1>2, <2>1, <2>3, TooFar, LexAfterYield
  <2>4. CASE \E b : In(b) /\ View(b) /\ Counted(b)
    <3>1. PICK b : In(b) /\ View(b) /\ Counted(b)
      BY <2>4
    <3>. DEFINE e == pos
    <3>2. e > b /\ e \in 0 .. Len(s) /\ (e = Len(s) \/ (~is_in_string /\ IsSeparator(s[e + 1])))
      <4>1. pos > b
        BY <1>7, <2>2, <3>1
      <4>2. pos < Len(s) \/ pos = Len(s)
        BY <1>3, <1>6, <3>1
      <4>3. pos < Len(s) => c = s[pos + 1]
        BY <1>6, <3>1
      <4>4. pos \in 0 .. Len(s)
        BY <1>3, <1>6, <3>1
      <4>. QED
        BY <2>2, <4>1, <4>2, <4>3, <4>4
    <3>3. Joined(s, b, e, is_in_string, token_had_string) /\ ViewOf(s, b, e, token_had_string, view_s, view_len)
          /\ count = Cardinality(Until(s, b))
      BY <3>1 DEF In, View, Counted
    <3>4. s = Visible(source) /\ e = pos
      BY DEF s
    <3>. HIDE DEF e
    <3>5. IsRun(s, b + 1, e) /\ (e = Len(s) \/ e + 1 \in Cuts(s))
      BY <1>3, <3>2, <3>3, IdentifierEnds
    <3>6. Told(source, s, PutBack, t, RunLexeme(s, b + 1, e))
      BY <1>1, <2>2, <3>2, <3>3, <3>4, IdentifierTold
    <3>. QED
      BY <1>1, <1>2, <2>1, <2>2, <3>2, <3>3, <3>4, <3>5, <3>6, LexRun
  <2>. QED
    BY <1>4, <2>2, <2>3, <2>4
<1>10. CASE YieldPunctuation
  <2>1. /\ Yield(Token(c), next) /\ pc = "scan"
        /\ ~is_in_string /\ IsSeparator(c) /\ ~HasIdentifier /\ c \in Punctuation
    BY <1>5, <1>10 DEF YieldPunctuation, Separates
  <2>2. CASE PutBackTooFar
    BY <1>1, <1>2, <2>1, <2>2, TooFar, LexAfterYield
  <2>3. CASE \E b : In(b) /\ View(b) /\ Counted(b)
    <3>1. PICK b : In(b) /\ View(b) /\ Counted(b)
      BY <2>3
    <3>2. pos = b /\ Between(s, b) /\ count = Cardinality(Until(s, b))
      BY <1>7, <2>1, <3>1 DEF Counted
    <3>3. ~IsEof(c)
      BY <2>1 DEF Punctuation, IsEof, EOF
    <3>4. b < Len(s) /\ c = s[b + 1] /\ next = b + 1 /\ b + 1 \in DOMAIN s /\ b + 1 \in Nat
      BY <1>3, <1>6, <3>1, <3>2, <3>3
    <3>5. b + 1 \in Cuts(s)
      <4>1. ~InString(s, b + 1)
        BY <3>2 DEF Between
      <4>. QED
        BY <2>1, <3>4, <4>1 DEF Cuts
    <3>. DEFINE l == MarkLexeme(s, b + 1)
                t == Token(c)
    <3>6. /\ Between(s, b + 1)
          /\ l \in Lexemes(s) \ Until(s, b)
          /\ Until(s, b + 1) = Until(s, b) \cup {l}
      BY <1>3, <2>1, <3>2, <3>4, <3>5, CutPassed
    <3>7. l.first = b + 1 /\ l.last = b + 1 /\ l.kind = c /\ t.type = c
      BY <3>4 DEF MarkLexeme, Token
    <3>8. c \notin {"string", "numeric", "loops", "error", "hangs", "eof"}
      BY <2>1 DEF Punctuation
    <3>. HIDE DEF l, t
    <3>9. Told(source, s, next, t, l)
      BY <3>4, <3>7, <3>8 DEF Told
    <3>10. Yield(t, next)
      BY <2>1 DEF t
    <3>11. TokensAreLexemes' /\ count' = count + 1
      BY <1>1, <3>2, <3>6, <3>7, <3>9, <3>10, TellsNext DEF s
    <3>12. count' = Cardinality(Until(s, b + 1))
      <4>. DEFINE U == Until(s, b)
      <4>1. IsFiniteSet(U) /\ Cardinality(U) \in Nat
        BY <1>3, UntilFinite
      <4>2. l \notin U
        BY <3>6
      <4>. HIDE DEF U
      <4>3. Cardinality(U \cup {l}) = Cardinality(U) + 1
        BY <4>1, <4>2, FS_AddElement
      <4>. QED
        BY <3>2, <3>6, <3>11, <4>3 DEF U
    <3>13. pos' = b + 1 /\ source' = source
      BY <3>4, <3>10 DEF Yield
    <3>14. AtLexeme'
      BY <3>6, <3>12, <3>13 DEF AtLexeme, s
    <3>. QED
      BY <1>2, <3>10, <3>11, <3>14, LexAfterYield
  <2>. QED
    BY <1>4, <2>1, <2>2, <2>3
<1>11. CASE YieldEof
  <2>1. /\ Yield(Token("eof"), next) /\ pc = "scan" /\ ~HasIdentifier /\ IsEof(c)
    BY <1>5, <1>11 DEF YieldEof
  <2>2. Token("eof").type = "eof"
    BY DEF Token
  <2>3. CASE PutBackTooFar
    BY <1>1, <1>2, <2>1, <2>3, TooFar, LexAfterYield
  <2>4. CASE \E b : In(b) /\ View(b) /\ Counted(b)
    <3>1. PICK b : In(b) /\ View(b) /\ Counted(b)
      BY <2>4
    <3>2. b = Len(s)
      BY <1>3, <1>6, <1>7, <2>1, <3>1
    <3>3. count = Cardinality(Lexemes(s))
      BY <1>3, <3>1, <3>2, AllUntil DEF Counted
    <3>. DEFINE K == Cardinality(Lexemes(s))
                k == count'
    <3>4. K \in Nat /\ K <= Len(source) /\ (count <= Len(source) => k = count + 1)
      BY <1>1, <2>1, CountsOne DEF s
    <3>5. count = K
      BY <3>3
    <3>. HIDE DEF K, k
    <3>6. ~(k <= K)
      BY <3>4, <3>5
    <3>7. TokensAreLexemes'
      BY <2>1, <2>2, <3>6, YieldTells DEF K, k, s
    <3>. QED
      BY <1>2, <2>1, <2>2, <3>7, LexAfterYield DEF Final
  <2>. QED
    BY <1>4, <2>1, <2>3, <2>4
\* Within the call.
<1>12. CASE ReadQuote
  <2>1. /\ pc = "scan" /\ pc' = "scan" /\ c = Quote /\ pos' = next
        /\ is_in_string' = ~is_in_string /\ token_had_string' = TRUE
        /\ UNCHANGED <<source, view_s, view_len, tok, count>>
    BY <1>12 DEF ReadQuote
  <2>2. ASSUME NEW b, In(b), View(b), Counted(b)
        PROVE  /\ Joined(s, b, pos', is_in_string', token_had_string')
               /\ ViewOf(s, b, pos', token_had_string', view_s', view_len')
               /\ count = Cardinality(Until(s, b))
    <3>1. ~IsEof(c)
      BY <2>1 DEF Quote, IsEof, EOF
    <3>2. pos < Len(s) /\ s[pos + 1] = Quote /\ pos' = pos + 1
      BY <1>3, <1>6, <2>1, <2>2, <3>1
    <3>3. is_in_string \in BOOLEAN /\ token_had_string \in BOOLEAN
      BY <1>1 DEF TypeOK
    <3>4. /\ Joined(s, b, pos + 1, ~is_in_string, TRUE)
          /\ ViewOf(s, b, pos + 1, TRUE, view_s, view_len)
      BY <1>3, <2>2, <3>2, <3>3, QuoteJoins DEF In, View
    <3>. QED
      BY <2>1, <2>2, <3>2, <3>4 DEF Counted
  <2>. QED
    BY <1>2, <1>4, <2>1, <2>2, LexQuiet DEF s
<1>13. CASE SkipWhitespace
  <2>1. /\ pc = "scan" /\ pc' = "scan" /\ ~HasIdentifier /\ IsWhitespace(c) /\ pos' = next
        /\ UNCHANGED <<source, view_s, view_len, is_in_string, token_had_string, tok, count>>
    BY <1>13 DEF SkipWhitespace, locals
  <2>2. ASSUME NEW b, In(b), View(b), Counted(b)
        PROVE  \E a : /\ Joined(s, a, pos', is_in_string', token_had_string')
                      /\ ViewOf(s, a, pos', token_had_string', view_s', view_len')
                      /\ count = Cardinality(Until(s, a))
    <3>1. ~IsEof(c) /\ IsSeparator(c) /\ c \notin Punctuation
      BY <2>1 DEF IsWhitespace, IsEof, EOF, IsSeparator, Punctuation
    <3>2. pos = b /\ view_len = 0 /\ ~is_in_string /\ ~token_had_string /\ Between(s, b)
      BY <1>7, <2>1, <2>2
    <3>. DEFINE a == b + 1
    <3>3. b < Len(s) /\ c = s[a] /\ next = a /\ a \in DOMAIN s
      BY <1>3, <1>6, <2>2, <3>1, <3>2
    <3>4. a \in Cuts(s)
      <4>1. ~InString(s, a)
        BY <3>2 DEF Between
      <4>. QED
        BY <3>1, <3>3, <4>1 DEF Cuts
    <3>5. Between(s, a) /\ Until(s, a) = Until(s, b)
      BY <1>3, <3>1, <3>2, <3>3, <3>4, CutPassed
    <3>. HIDE DEF a
    <3>6. Joined(s, a, a, FALSE, FALSE)
      BY <1>3, <3>5, NothingJoined
    <3>7. is_in_string' = FALSE /\ token_had_string' = FALSE /\ pos' = a /\ view_len' = 0 /\ view_s' = view_s
      <4>1. is_in_string \in BOOLEAN /\ token_had_string \in BOOLEAN
        BY <1>1 DEF TypeOK
      <4>. QED
        BY <2>1, <3>2, <3>3, <4>1
    <3>8. ViewOf(s, a, a, FALSE, view_s, 0)
      <4>1. view_s \in Nat
        BY <2>2 DEF View, ViewOf
      <4>2. a \in Nat
        BY <1>3, <3>3
      <4>. QED
        BY <4>1, <4>2 DEF ViewOf
    <3>. QED
      BY <2>2, <3>5, <3>6, <3>7, <3>8 DEF Counted
  <2>. QED
    BY <1>2, <1>4, <2>1, <2>2, LexQuiet DEF s
<1>14. CASE AddToIdentifier
  <2>1. /\ pc = "scan" /\ pc' = "scan" /\ c # Quote /\ pos' = next
        /\ IF is_in_string THEN ~IsEof(c) ELSE ~IsSeparator(c)
        /\ IF view_len > 0 THEN view_len' = view_len + 1 /\ view_s' = view_s
           ELSE view_len' = 1 /\ view_s' = next - 1
        /\ UNCHANGED <<source, is_in_string, token_had_string, tok, count>>
    BY <1>14 DEF AddToIdentifier, ViewStart
  <2>2. ~IsEof(c) /\ (is_in_string \/ ~IsSeparator(c))
    BY <2>1 DEF IsSeparator
  <2>3. ASSUME NEW b, In(b), View(b), Counted(b)
        PROVE  /\ Joined(s, b, pos', is_in_string', token_had_string')
               /\ ViewOf(s, b, pos', token_had_string', view_s', view_len')
               /\ count = Cardinality(Until(s, b))
    <3>1. pos < Len(s) /\ c = s[pos + 1] /\ pos' = pos + 1 /\ next - 1 = pos
      BY <1>3, <1>6, <2>1, <2>2, <2>3
    <3>2. is_in_string \in BOOLEAN /\ token_had_string \in BOOLEAN
      BY <1>1 DEF TypeOK
    <3>. DEFINE w == view_s'
                m == view_len'
    <3>3. (view_len > 0 => m = view_len + 1 /\ w = view_s) /\ (~(view_len > 0) => m = 1 /\ w = pos)
      BY <2>1, <3>1
    <3>. HIDE DEF w, m
    <3>4. /\ Joined(s, b, pos + 1, is_in_string, token_had_string)
          /\ ViewOf(s, b, pos + 1, token_had_string, w, m)
      <4>. DEFINE p == pos
                  n == view_len
                  v == view_s
      <4>1. /\ Joined(s, b, p, is_in_string, token_had_string) /\ ViewOf(s, b, p, token_had_string, v, n)
            /\ p < Len(s) /\ s[p + 1] # Quote /\ (is_in_string \/ ~IsSeparator(s[p + 1]))
            /\ n > 0 => m = n + 1 /\ w = v
            /\ ~(n > 0) => m = 1 /\ w = p
        BY <2>1, <2>2, <2>3, <3>1, <3>3 DEF In, View
      <4>. HIDE DEF p, n, v
      <4>2. Joined(s, b, p + 1, is_in_string, token_had_string) /\ ViewOf(s, b, p + 1, token_had_string, w, m)
        BY ONLY <1>3, <3>2, <4>1, ByteJoins
      <4>. QED
        BY <4>2 DEF p
    <3>. QED
      BY <2>1, <2>3, <3>1, <3>4 DEF Counted, w, m
  <2>. QED
    BY <1>2, <1>4, <2>1, <2>3, LexQuiet DEF s
\* After it, and between calls.
<1>15. CASE PrintToken
  <2>1. pc = "yield" /\ UNCHANGED <<source, pos, tok, count>>
    BY <1>15 DEF PrintToken
  <2>2. CASE tok.type \in Final
    <3>1. pc' = "done"
      BY <1>15, <2>2 DEF PrintToken
    <3>. QED
      BY <1>2, <3>1 DEF LexInv, TokensAreLexemes
  <2>3. CASE tok.type \notin Final
    <3>1. pc' = "scan" /\ view_s' = 0 /\ view_len' = 0
          /\ is_in_string' = FALSE /\ token_had_string' = FALSE
      BY <1>15, <2>3 DEF PrintToken
    <3>2. TokensAreLexemes'
      BY <3>1 DEF TokensAreLexemes
    <3>3. PutBackTooFar \/ AtLexeme
      BY <2>1, <2>3 DEF LexInv
    <3>4. PutBackTooFar => PutBackTooFar'
      BY <2>1 DEF PutBackTooFar, Sealed
    <3>5. ASSUME AtLexeme PROVE ScannedFrom(pos)'
      <4>1. Between(s, pos) /\ count = Cardinality(Until(s, pos))
        BY <3>5 DEF AtLexeme, s
      <4>2. Joined(s, pos, pos, FALSE, FALSE) /\ ViewOf(s, pos, pos, FALSE, 0, 0)
        BY <1>3, <4>1, NothingJoined
      <4>. QED
        BY <2>1, <3>1, <4>1, <4>2 DEF ScannedFrom, s
    <3>6. (\E b : ScannedFrom(b))' \/ PutBackTooFar'
      BY <3>3, <3>4, <3>5
    <3>. QED
      BY <1>2, <3>1, <3>2, <3>6 DEF LexInv
  <2>. QED
    BY <2>2, <2>3
<1>16. CASE UNCHANGED vars
  BY <1>2, <1>16 DEF vars, locals, LexInv, ScannedFrom, AtLexeme, PutBackTooFar, Sealed, TokensAreLexemes
<1>17. CASE Terminating
  BY <1>16, <1>17 DEF Terminating
<1>. QED
  BY <1>8, <1>9, <1>10, <1>11, <1>12, <1>13, <1>14, <1>15, <1>16, <1>17 DEF Next, GetNextToken

\* The k-th call returns the k-th lexeme of the file (:134-:244) and leaves
\* the position at its end (:163), for every file.
THEOREM TokensAreRight == Spec => []TokensAreLexemes
<1>1. Spec => []LexInv
  BY LexInit, LexNext, PTL DEF Spec
<1>2. LexInv => TokensAreLexemes
  BY DEF LexInv
<1>. QED
  BY <1>1, <1>2, PTL
=============================================================================
