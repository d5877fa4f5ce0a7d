---------------------------- MODULE JsonTokenizer ----------------------------
(***************************************************************************)
(* get_next_token of Haversine/Components/haversine_json_parser.hpp, one   *)
(* step per byte, driven by the loop of tokenize_and_print: the -tokenize  *)
(* mode of the solver calls it until a token is final.                     *)
(*                                                                         *)
(* Positions are C's: pos bytes have been read, the next one is            *)
(* source[pos + 1].  An identifier is a view into the file, never a copy,  *)
(* and only a number's sign is kept of its value.                          *)
(***************************************************************************)
EXTENDS JsonLexemes

CONSTANT Sources   \* the files

ASSUME SourcesAssumption == Sources \subseteq Seq(STRING)

VARIABLES
  source,            \* the file
  pos,               \* input.pos
  view_s, view_len,  \* identifier_view; view_len = 0 when it is not valid
  is_in_string, token_had_string,
  tok,               \* the last token
  count,             \* how many tokens there were, up to Len(source) + 1
  pc                 \* "scan", "yield": a token is returned, "done", "hung"

locals == <<view_s, view_len, is_in_string, token_had_string>>
vars == <<source, pos, locals, tok, count, pc>>

Token(type) == [type |-> type, from |-> 0, len |-> 0, negative |-> FALSE]
Final == {"eof", "error"}

Init ==
  /\ source \in Sources
  /\ pos = 0
  /\ view_s = 0 /\ view_len = 0
  /\ is_in_string = FALSE /\ token_had_string = FALSE
  /\ tok = Token("error")
  /\ count = 0
  /\ pc = "scan"

\* The byte the loop looks at, and the position after reading it.
c == IF pos >= Len(source) THEN EOF ELSE source[pos + 1]
next == IF pos >= Len(source) THEN pos ELSE pos + 1

\* The bytes of the identifier.
identifier == SubSeq(source, view_s + 1, view_s + view_len)

----------------------------------------------------------------------------
(* parse_double *)

\* How many digits follow position i of t.
DigitsAfter(t, i) ==
  CHOOSE n \in 0 .. Len(t) - i :
    /\ \A j \in i + 1 .. i + n : IsDigit(t[j])
    /\ i + n = Len(t) \/ ~IsDigit(t[i + n + 1])

At(t, i, chars) == i < Len(t) /\ t[i + 1] \in chars

Number(negative) == [Token("numeric") EXCEPT !.negative = negative]

\* The tokens a literal may turn into.  An integer is returned before the
\* sign is applied.  The loop over the digits of an exponent never advances:
\* it hangs, or, having no side effects, is taken to end where it started.
parse_double(t) ==
  LET minus == At(t, 0, {Minus})
      start == IF minus THEN 1 ELSE 0
      whole == start + DigitsAfter(t, start)
      dot == At(t, whole, {Dot})
      point == IF dot THEN whole + 1 ELSE whole
      mantissa == IF dot THEN point + DigitsAfter(t, point) ELSE whole
      sign == IF At(t, mantissa + 1, {"+", Minus}) THEN mantissa + 2 ELSE mantissa + 1
  IN  IF whole = start THEN {Token("error")}
      ELSE IF whole = Len(t) THEN {Number(FALSE)}
      ELSE IF dot /\ mantissa = point THEN {Token("error")}
      ELSE IF At(t, mantissa, {Exponent})
           THEN IF DigitsAfter(t, sign) = 0 THEN {Token("error")}
                ELSE {Token("hangs"), Token("error")}
      ELSE IF mantissa = Len(t) THEN {Number(minus)}
      ELSE {Token("error")}

----------------------------------------------------------------------------
(* get_next_token *)

\* return tok
Yield(t, p) ==
  /\ pc = "scan"
  /\ pos' = p
  /\ tok' = t
  /\ count' = IF count <= Len(source) THEN count + 1 ELSE count
  /\ pc' = IF t.type = "hangs" THEN "hung" ELSE "yield"
  /\ UNCHANGED <<source, locals>>

\* The end of the file inside a string.
UnterminatedString ==
  /\ is_in_string
  /\ IsEof(c)
  /\ Yield(Token("error"), next)

ReadQuote ==
  /\ pc = "scan"
  /\ c = Quote
  /\ is_in_string' = ~is_in_string
  /\ token_had_string' = TRUE
  /\ pos' = next
  /\ UNCHANGED <<source, view_s, view_len, tok, count, pc>>

\* FAULTY: "" is not an identifier.
HasCharacters == view_len > 0

\* Is there an identifier for the separator to end?
HasIdentifier == view_len > 0 \/ token_had_string

\* FAULTY: the identifier is put back.
Rewound == view_s

\* --input.pos: the separator is put back.
PutBack == next - 1

IdentifierTokens ==
  LET names == {n \in DOMAIN Literals : IsPrefix(identifier, Literals[n])}
  IN  IF token_had_string
      THEN {[Token("string") EXCEPT !.from = view_s, !.len = view_len]}
      ELSE IF names # {} THEN {Token(n) : n \in names}
      ELSE parse_double(identifier)

\* A separator outside strings.
Separates == ~is_in_string /\ IsSeparator(c)

EndIdentifier ==
  /\ Separates
  /\ HasIdentifier
  /\ \E t \in IdentifierTokens : Yield(t, PutBack)

YieldPunctuation ==
  /\ Separates /\ ~HasIdentifier
  /\ c \in Punctuation
  /\ Yield(Token(c), next)

YieldEof ==
  /\ Separates /\ ~HasIdentifier
  /\ IsEof(c)
  /\ Yield(Token("eof"), next)

SkipWhitespace ==
  /\ pc = "scan"
  /\ Separates /\ ~HasIdentifier
  /\ IsWhitespace(c)
  /\ pos' = next
  /\ UNCHANGED <<source, locals, tok, count, pc>>

\* FAULTY: the view starts after the byte just read.
LateView == next

\* The address of the byte just read.
ViewStart == next - 1

\* Any other byte, and a separator inside a string, joins the identifier.
AddToIdentifier ==
  /\ pc = "scan"
  /\ c # Quote
  /\ IF is_in_string THEN ~IsEof(c) ELSE ~IsSeparator(c)
  /\ IF view_len > 0
     THEN view_len' = view_len + 1 /\ UNCHANGED view_s
     ELSE view_len' = 1 /\ view_s' = ViewStart
  /\ pos' = next
  /\ UNCHANGED <<source, is_in_string, token_had_string, tok, count, pc>>

\* tokenize_and_print: a final token ends the loop, any other is printed,
\* cleaned up and followed by the next call with its fresh locals.
PrintToken ==
  /\ pc = "yield"
  /\ IF tok.type \in Final
     THEN pc' = "done" /\ UNCHANGED locals
     ELSE /\ pc' = "scan"
          /\ view_s' = 0 /\ view_len' = 0
          /\ is_in_string' = FALSE /\ token_had_string' = FALSE
  /\ UNCHANGED <<source, pos, tok, count>>

GetNextToken ==
  \/ UnterminatedString \/ ReadQuote \/ EndIdentifier \/ YieldPunctuation
  \/ YieldEof \/ SkipWhitespace \/ AddToIdentifier

Terminating == pc \in {"done", "hung"} /\ UNCHANGED vars

Next == GetNextToken \/ PrintToken \/ Terminating

Spec == Init /\ [][Next]_vars

\* A sequential program that is never suspended for ever.
FairSpec == Spec /\ WF_vars(GetNextToken \/ PrintToken)

----------------------------------------------------------------------------
(* Properties *)

TypeOK ==
  /\ source \in Seq(STRING)
  /\ pos \in 0 .. Len(source)
  /\ view_s \in 0 .. Len(source) /\ view_len \in 0 .. Len(source)
  /\ is_in_string \in BOOLEAN /\ token_had_string \in BOOLEAN
  /\ tok.from \in 0 .. Len(source) /\ tok.len \in 0 .. Len(source)
  /\ count \in 0 .. Len(source) + 1
  /\ pc \in {"scan", "yield", "done", "hung"}

\* The view into the file grows by a byte for every byte joined but does not
\* move over the quotes that are skipped (:155, :235): it never reaches past
\* what has been read, so that the copy of a string (:167) stays in the file.
ViewInside ==
  /\ view_s + view_len <= pos \/ pc # "scan"
  /\ pc = "yield" => tok.from + tok.len <= Len(source)

\* The last token of the file is not ended by the end of the file.
Sealed ==
  LET s == Visible(source)
  IN  Len(s) < Len(source) \/ s = <<>> \/ Len(s) \in Cuts(s)

\* The k-th call returns the k-th lexeme and reads no further than its end
\* (:145): nothing is lost between two tokens, nothing is read twice, string
\* and number keep their text and, where there is a fraction, their sign.
TokensAreLexemes ==
  LET s == Visible(source)
      lexemes == Lexemes(s)
      l == Nth(lexemes, count)
      text == SubSeq(s, l.first, l.last)
      inner == SubSeq(s, l.first + 1, l.last - 1)
  IN  /\ pc \in {"yield", "hung"} /\ count <= Cardinality(lexemes) =>
           /\ tok.type \in (IF l.kind = "loops" THEN {"hangs", "error"} ELSE {l.kind})
           /\ tok.type # "error" /\ l.last < Len(source) => pos = l.last
           /\ tok.type = "string" /\ text = <<Quote>> \o inner \o <<Quote>> /\ ~Contains(inner, Quote)
                => SubSeq(source, tok.from + 1, tok.from + tok.len) = inner
           /\ tok.type = "numeric" /\ HasFraction(text)
                => tok.negative = (text[1] = Minus)
      /\ pc = "yield" /\ count > Cardinality(lexemes) /\ Sealed => tok.type = "eof"

\* The comment at :161, "If there was an identifier, return sep and yield":
\* after an identifier the next byte to be read is the separator that ended
\* it, or there is none.
SeparatorReturned ==
  pc = "yield" /\ tok.type \in {"string", "numeric", "null", "true", "false"}
    => c \in Punctuation \/ IsWhitespace(c) \/ IsEof(c)

\* tokenize_and_print ends (:589) when the last token is not an identifier,
\* unless an exponent hangs it.
TokenizationEnds == Sealed => <>(pc \in {"done", "hung"})
=============================================================================
