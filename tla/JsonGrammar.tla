----------------------------- MODULE JsonGrammar -----------------------------
(***************************************************************************)
(* The documents the parser accepts, as a grammar over token sequences:    *)
(* JSON with a root object, in which a list may also end with a comma.     *)
(* A string is a token of its own for each text a string may have.         *)
(***************************************************************************)
EXTENDS Integers, SequencesExt

CONSTANT Strings   \* the texts of strings

Symbols == {"lbrace", "rbrace", "lsqbracket", "rsqbracket", "comma", "colon", "eof", "error"}
Literals == {"number", "word"}   \* e_tt_numeric; true, false and null
Tokens == Symbols \cup Literals \cup Strings
Final == {"eof", "error"}

ASSUME StringsAssumption == Strings # {} /\ Strings \cap (Symbols \cup Literals) = {}

\* What may be derived in s: a symbol, a first and a last token.
Parts(s) == {"entity", "fields", "elements"} \X (1 .. Len(s) + 2) \X (0 .. Len(s))

\* Is the part derived by a rule, where D says which smaller ones are?
ByRule(s, D, part) ==
  LET a == part[2]
      b == part[3]
  IN  \/ /\ part[1] = "entity"
         /\ \/ a = b /\ s[a] \in Literals \cup Strings
            \/ a < b /\ s[a] = "lbrace" /\ s[b] = "rbrace" /\ D[<<"fields", a + 1, b - 1>>]
            \/ a < b /\ s[a] = "lsqbracket" /\ s[b] = "rsqbracket" /\ D[<<"elements", a + 1, b - 1>>]
      \/ part[1] \in {"fields", "elements"} /\ a > b
      \/ /\ part[1] = "fields"
         /\ a + 2 <= b /\ s[a] \in Strings /\ s[a + 1] = "colon"
         /\ \E k \in a + 2 .. b :
              /\ k < b => s[k + 1] = "comma"
              /\ D[<<"entity", a + 2, k>>] /\ D[<<"fields", k + 2, b>>]
      \/ /\ part[1] = "elements"
         /\ \E k \in a .. b :
              /\ k < b => s[k + 1] = "comma"
              /\ D[<<"entity", a, k>>] /\ D[<<"elements", k + 2, b>>]

\* Is s[i .. j] derived from the symbol?
Derives(symbol, s, i, j) ==
  LET D[part \in Parts(s)] == ByRule(s, D, part)
  IN  D[<<symbol, i, j>>]

IsDocument(s) == s # <<>> /\ s[1] = "lbrace" /\ Derives("entity", s, 1, Len(s))

\* The brackets that close what is open, the innermost first, after one more token.
CloserStep(open, t) ==
  CASE t = "lbrace" -> <<"rbrace">> \o open
    [] t = "lsqbracket" -> <<"rsqbracket">> \o open
    [] t \in {"rbrace", "rsqbracket"} /\ open # <<>> -> Tail(open)
    [] OTHER -> open

\* The brackets that close those left open in s.
Closers(s) ==
  LET upto[n \in 0 .. Len(s)] == IF n = 0 THEN <<>> ELSE CloserStep(upto[n - 1], s[n])
  IN  upto[Len(s)]

\* Is s the beginning of a document?  If so it is one of a document that goes
\* on with the rest of a field, if one is begun, and closes the brackets.
IsPrefixOfDocument(s) ==
  \E rest \in {<<>>, <<"word">>, <<"colon", "word">>} : IsDocument(s \o rest \o Closers(s))
=============================================================================
