------------------------------ MODULE JsonChars ------------------------------
(***************************************************************************)
(* The bytes of a JSON file as the tokenizer tells them apart.  A byte is  *)
(* a one-character string; "ff" is the byte 0xFF, which (char) makes equal *)
(* to EOF.  A file is a sequence of bytes.                                 *)
(***************************************************************************)
EXTENDS Integers, Sequences

EOF == "eof"
Quote == "quote"
Minus == "-"
Dot == "."
Exponent == "e"

IsEof(c) == c \in {EOF, "ff"}
IsWhitespace(c) == c = " "
IsDigit(c) == c \in {"0", "1"}

\* The separators that are tokens of their own, each with its token type.
Punctuation == {"{", "}", "[", "]", ",", ":"}

\* The end of the file separates as well; so does a NUL, which strchr finds
\* and the code then treats like white space.
IsSeparator(c) == IsEof(c) \/ IsWhitespace(c) \/ c \in Punctuation

\* The literals; strncmp with the identifier's length accepts their prefixes.
Literals == [null |-> <<"n", "u", "l", "l">>,
             true |-> <<"t", "r", "u", "e">>,
             false |-> <<"f", "a", "l", "s", "e">>]
=============================================================================
