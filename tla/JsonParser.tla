----------------------------- MODULE JsonParser -----------------------------
(***************************************************************************)
(* parse_json_input of Haversine/Components/haversine_json_parser.hpp: the *)
(* recursive descent, with the blocks it takes from malloc and returns to  *)
(* free on success and on every error path; and what reads the tree,       *)
(* json_object_query and print_json.                                       *)
(*                                                                         *)
(* A file is the sequence of tokens get_next_token returns.  It is one of  *)
(* Files, perhaps cut off, or any other of the Alphabet, then chosen as it *)
(* is read.  Blocks are numbered in the order of allocation and no number  *)
(* is used twice.  malloc does not fail (the code does not look).          *)
(***************************************************************************)
EXTENDS JsonGrammar, FiniteSets, Functions

CONSTANTS
  Files,        \* files to read besides those chosen freely
  Alphabet,     \* the tokens of a freely chosen file
  MaxTokens,    \* its length; then only "eof" is read
  Bare          \* Bare[t]: the tokens the text t is read as if it is not in quotes

ASSUME TokensAssumption ==
  MaxTokens \in Nat /\ Alphabet \subseteq Tokens /\ Files \subseteq Seq(Tokens) \ {<<>>}

\* A text has no quote in it, nor a byte that get_next_token takes for an end of
\* the file, nor, outside quotes, an exponent (:118), of which it finds no end.
ASSUME BareAssumption == Bare \in [Strings -> Seq((Symbols \ {"eof"}) \cup Literals)]

VARIABLES
  source,      \* the file: one of Files, or <<>> if it is freely chosen
  read,        \* the tokens read so far
  stack,       \* the active calls of parse_json_object and parse_json_array
  heap,        \* heap[b]: the contents of allocated block b
  allocs,      \* how many blocks were allocated
  ret,         \* what the last call returned
  superseded,  \* arrays of items that were replaced by larger ones
  pc           \* where the innermost call is

vars == <<source, read, stack, heap, allocs, ret, superseded, pc>>

Null == 0

\* Contents of a block: a string's bytes, an array of items, or an entity with
\* its value, the strings and entities it points to and its array of items.
Block(kind, names, val) ==
  [kind |-> kind, names |-> names, val |-> val, kids |-> <<>>, items |-> Null, cap |-> 0]

Frame(kind, ent) == [kind |-> kind, ent |-> ent, name |-> Null]

top == Last(stack)

Init ==
  /\ source \in Files \cup {<<>>}
  /\ read = <<>>
  /\ stack = <<>>
  /\ heap = [b \in {} |-> Null]
  /\ allocs = 0
  /\ ret = Null
  /\ superseded = {}
  /\ pc = "root"

----------------------------------------------------------------------------
(* The heap *)

With(h, b, contents) == [x \in DOMAIN h \cup {b} |-> IF x = b THEN contents ELSE h[x]]
Without(h, blocks) == Restrict(h, DOMAIN h \ blocks)

\* The blocks deallocate(e) frees: the entity, the strings and entities it
\* points to, and its present array of items.
Tree(h, e) ==
  LET T[b \in DOMAIN h] ==
        {b} \cup Range(h[b].names) \cup ({h[b].items} \ {Null})
          \cup UNION {T[k] : k \in Range(h[b].kids)}
  IN  IF e = Null THEN {} ELSE T[e]

GrownCap(n) == 2 * n

\* push_json_field and push_json_element: the first item allocates an array of
\* two, an item that does not fit a larger one into which the items are copied.
NeedsArray(ent) == ent.items = Null \/ Len(ent.kids) >= ent.cap
Pushed(ent, name, kid, array) ==
  [ent EXCEPT
     !.names = IF name = Null THEN @ ELSE Append(@, name),
     !.kids = Append(@, kid),
     !.items = IF NeedsArray(ent) THEN array ELSE @,
     !.cap = IF ent.items = Null THEN 2
             ELSE IF NeedsArray(ent) THEN GrownCap(Len(ent.kids)) ELSE @]

----------------------------------------------------------------------------
(* The calls *)

\* get_next_token: a string comes with a block for its bytes.  A file may end
\* anywhere.  Of what is read past its end the first "eof" is recorded.
NextTokens ==
  LET n == Len(read)
  IN  IF source # <<>> THEN {"eof"} \cup (IF n < Len(source) THEN {source[n + 1]} ELSE {})
      ELSE IF n < MaxTokens THEN Alphabet ELSE {"eof"}
Read(t) ==
  /\ read' = IF Len(read) > Len(source) + MaxTokens THEN read ELSE Append(read, t)
  /\ UNCHANGED source

TextOf(t) == IF t \in Strings THEN allocs + 1 ELSE Null
AfterRead(t) == IF t \in Strings THEN allocs + 1 ELSE allocs
Text(t) == Block("text", <<>>, t)

\* The deferred cleanup(tok) frees the string of a token nobody took.
Dropped(t) == UNCHANGED heap /\ allocs' = AfterRead(t)

\* The innermost call returns v to its caller.
Return(v) ==
  /\ stack' = Front(stack)
  /\ ret' = v
  /\ pc' = IF Len(stack) = 1 THEN "parsed" ELSE "returned"

\* What an error path frees: the pending field and the entity so far.
OnError(name) == ({name} \ {Null}) \cup Tree(heap, top.ent)

\* PARSE_ERR.
Abandon ==
  /\ heap' = Without(heap, OnError(top.name))
  /\ Return(Null)
  /\ UNCHANGED superseded

\* PARSE_ERR, and the cleanup of a token t that was not taken.
ParseError(t) ==
  /\ Abandon
  /\ allocs' = AfterRead(t)

\* parse_json_object or parse_json_array is called and allocates its entity.
Call(kind) ==
  /\ heap' = With(heap, allocs + 1, Block(kind, <<>>, Null))
  /\ allocs' = allocs + 1
  /\ stack' = Append(stack, Frame(kind, allocs + 1))
  /\ pc' = "item"
  /\ UNCHANGED <<ret, superseded>>

\* parse_json_input: the first token must open an object.
ParseInput(t) ==
  /\ pc = "root"
  /\ Read(t)
  /\ IF t = "lbrace"
     THEN Call("object")
     ELSE /\ Dropped(t)
          /\ ret' = Null /\ pc' = "parsed"
          /\ UNCHANGED <<stack, superseded>>

\* FAULTY: either bracket closes.
AnyCloser(kind) == {"rbrace", "rsqbracket"}

CloserOf(kind) == IF kind = "object" THEN {"rbrace"} ELSE {"rsqbracket"}

\* The end of the list: the call returns its entity.
Close ==
  /\ Return(top.ent)
  /\ UNCHANGED <<heap, allocs, superseded>>

\* FAULTY: the entity shares the string with the token, which frees it.
SharedText(t, e) == With(heap, e, Block("string", <<TextOf(t)>>, Null))

\* A string entity takes the token's string over.
StringEntity(t, e) ==
  With(With(heap, TextOf(t), Text(t)), e, Block("string", <<TextOf(t)>>, Null))

\* The value of a literal: for the n-th number of the file n, else Null.
ValueOf(t) == IF t = "number" THEN Cardinality({i \in DOMAIN read' : read'[i] = "number"}) ELSE Null

\* parse_json_entity with its first token.
ParseEntity(t) ==
  \/ t = "lbrace" /\ Call("object")
  \/ t = "lsqbracket" /\ Call("array")
  \/ /\ t \in Literals \cup Strings
     /\ allocs' = AfterRead(t) + 1
     /\ heap' = IF t \in Strings THEN StringEntity(t, allocs')
                ELSE With(heap, allocs', Block(t, <<>>, ValueOf(t)))
     /\ ret' = allocs' /\ pc' = "returned"
     /\ UNCHANGED <<stack, superseded>>
  \/ /\ t \notin Literals \cup Strings \cup {"lbrace", "lsqbracket"}
     /\ ret' = Null /\ pc' = "returned"
     /\ UNCHANGED <<stack, heap, allocs, superseded>>

\* The first token of a field: its name, or the end of the object.
ReadField(t) ==
  /\ pc = "item" /\ top.kind = "object"
  /\ Read(t)
  /\ \/ t \in CloserOf("object") /\ Close
     \/ /\ t \in Strings
        /\ heap' = With(heap, TextOf(t), Text(t))
        /\ allocs' = AfterRead(t)
        /\ stack' = [stack EXCEPT ![Len(stack)].name = TextOf(t)]
        /\ pc' = "colon"
        /\ UNCHANGED <<ret, superseded>>
     \/ t \notin CloserOf("object") \cup Strings /\ ParseError(t)

\* FAULTY: the end of the file is not told from a missing colon and skipped.
SkipToColon(t) ==
  /\ pc = "colon"
  /\ Read(t)
  /\ \/ t = "colon" /\ pc' = "value" /\ UNCHANGED <<stack, heap, allocs, ret, superseded>>
     \/ t = "eof" /\ UNCHANGED <<stack, heap, allocs, ret, superseded, pc>>
     \/ t \notin {"colon", "eof"} /\ ParseError(t)

ReadColon(t) ==
  /\ pc = "colon"
  /\ Read(t)
  /\ IF t = "colon"
     THEN pc' = "value" /\ UNCHANGED <<stack, heap, allocs, ret, superseded>>
     ELSE ParseError(t)

\* The entity of a field.
ReadValue(t) ==
  /\ pc = "value"
  /\ Read(t)
  /\ ParseEntity(t)

\* The first token of an element, or the end of the array.
ReadElement(t) ==
  /\ pc = "item" /\ top.kind = "array"
  /\ Read(t)
  /\ \/ t \in Final /\ ParseError(t)
     \/ t \in CloserOf("array") /\ Close
     \/ t \notin Final \cup CloserOf("array") /\ ParseEntity(t)

\* The entity of the field or element is back: there is none, or it is pushed.
TakeEntity ==
  /\ pc = "returned"
  /\ \/ ret = Null /\ Abandon /\ UNCHANGED allocs
     \/ LET ent == heap[top.ent]
            array == allocs + 1
            pushed == With(heap, top.ent, Pushed(ent, top.name, ret, array))
        IN  /\ ret # Null
            /\ heap' = IF NeedsArray(ent) THEN With(pushed, array, Block("items", <<>>, Null)) ELSE pushed
            /\ allocs' = IF NeedsArray(ent) THEN allocs + 1 ELSE allocs
            /\ superseded' = IF NeedsArray(ent) THEN superseded \cup ({ent.items} \ {Null})
                             ELSE superseded
            /\ stack' = [stack EXCEPT ![Len(stack)].name = Null]
            /\ pc' = "after"
            /\ UNCHANGED ret
  /\ UNCHANGED <<source, read>>

\* FAULTY: an array has one element.
NextItemOfObject(t) == t = "comma" /\ top.kind = "object"

NextItem(t) == t = "comma"

\* After an item: a comma, after which the list may end as well, or the end.
ReadAfter(t) ==
  /\ pc = "after"
  /\ Read(t)
  /\ \/ NextItem(t) /\ pc' = "item" /\ UNCHANGED <<stack, heap, allocs, ret, superseded>>
     \/ ~NextItem(t) /\ t \in CloserOf(top.kind) /\ Close
     \/ ~NextItem(t) /\ t \notin CloserOf(top.kind) /\ ParseError(t)

Parse ==
  \/ \E t \in NextTokens : \/ ParseInput(t) \/ ReadField(t) \/ ReadColon(t)
                           \/ ReadValue(t) \/ ReadElement(t) \/ ReadAfter(t)
  \/ TakeEntity

----------------------------------------------------------------------------
(* What reads the tree *)

\* The entity of the first field of the name.
json_object_query(obj, name) ==
  LET named == {i \in DOMAIN heap[obj].names : heap[heap[obj].names[i]].val = name}
  IN  IF named = {} THEN Null ELSE heap[obj].kids[Min(named)]

\* FAULTY: nothing is put between the items of a list.
NoComma(last) == <<>>

\* print_json ends an entity with a comma unless it is the root.
PutComma(root) == IF root THEN <<>> ELSE <<"comma">>

\* The tokens that print_json prints.  A name is put in quotes, a string is
\* not: it reads as whatever its text says.  A number (a finite one) is printed
\* with six decimals and reads as a number.
Printed(e) ==
  LET P[b \in DOMAIN heap] ==
        LET ent == heap[b]
            name(i) == IF ent.kind = "object" THEN <<heap[ent.names[i]].val, "colon">> ELSE <<>>
            list == FlattenSeq([i \in DOMAIN ent.kids |-> name(i) \o P[ent.kids[i]] \o PutComma(FALSE)])
        IN  CASE ent.kind = "object" -> <<"lbrace">> \o list \o <<"rbrace">>
              [] ent.kind = "array" -> <<"lsqbracket">> \o list \o <<"rsqbracket">>
              [] ent.kind = "string" -> Bare[heap[ent.names[1]].val]
              [] OTHER -> <<ent.kind>>
  IN  P[e] \o PutComma(TRUE)

----------------------------------------------------------------------------
(* Properties *)

\* Every pointer the program still looks at, with the place that holds it.
Pointers ==
  {<<"frame", i, stack[i].ent>> : i \in DOMAIN stack}
    \cup {<<"name", i, stack[i].name>> : i \in DOMAIN stack}
    \cup (IF pc \in {"returned", "parsed"} THEN {<<"ret", 0, ret>>} ELSE {})
    \cup UNION {{<<"names", <<b, i>>, heap[b].names[i]>> : i \in DOMAIN heap[b].names}
                  \cup {<<"kids", <<b, i>>, heap[b].kids[i]>> : i \in DOMAIN heap[b].kids}
                  \cup {<<"items", b, heap[b].items>>} : b \in DOMAIN heap}

\* Every block has one owner at any time, in the middle of a parse, on its
\* error paths (:373, the DEFERs) and after the cleanup: no pointer dangles, so
\* nothing is freed twice, and nothing is lost but the arrays of items that
\* growing leaves behind (:308, :325).
OneOwner ==
  /\ \A p \in Pointers : p[3] # Null => p[3] \in DOMAIN heap
  /\ \A b \in DOMAIN heap :
       Cardinality({p \in Pointers : p[3] = b}) = IF b \in superseded THEN 0 ELSE 1

\* The tokens of an entity, without the commas.
Unparsed(e) ==
  LET U[b \in DOMAIN heap] ==
        LET ent == heap[b]
            item(i) == IF ent.kind = "object" THEN <<heap[ent.names[i]].val, "colon">> \o U[ent.kids[i]]
                       ELSE U[ent.kids[i]]
            list == FlattenSeq([i \in DOMAIN ent.kids |-> item(i)])
        IN  CASE ent.kind = "object" -> <<"lbrace">> \o list \o <<"rbrace">>
              [] ent.kind = "array" -> <<"lsqbracket">> \o list \o <<"rsqbracket">>
              [] ent.kind = "string" -> <<heap[ent.names[1]].val>>
              [] OTHER -> <<ent.kind>>
  IN  U[e]

WithoutCommas(tokens) ==
  FlattenSeq([i \in DOMAIN tokens |-> IF tokens[i] = "comma" THEN <<>> ELSE <<tokens[i]>>])

\* A parse that succeeds has read a document and built its tree, with every
\* item in its place.
TreeIsDocument ==
  pc = "parsed" /\ ret # Null =>
    /\ IsDocument(read)
    /\ Unparsed(ret) = WithoutCommas(read)

\* A parse that fails has read what no document begins with, and stops at the
\* first token that shows it, whatever the calls above still do (:394, :400,
\* :407, :413, :446): none of them reads on, so that none meets the token that
\* get_next_token repeats at the end of a file (:163).
StopsAtFirstError ==
  /\ pc = "parsed" /\ ret = Null =>
       /\ ~IsPrefixOfDocument(read)
       /\ Front(read) # <<>> => IsPrefixOfDocument(Front(read))
  /\ \A i \in 1 .. Len(read) - 1 : read[i] \notin Final

\* What the -reprint mode prints of a tree reads as the document it was read
\* from exactly if no value is a string: the comma it puts after the last item of
\* every list (:561, :571) is one that the parser accepts, and after the root it
\* puts none, but a string loses its quotes (:556).  If the text of each string
\* value looks like a number, true, false or null, the reprint is a document
\* nevertheless, of other values; if that of one has no meaning it is none.
ReprintReads ==
  pc = "parsed" /\ ret # Null =>
    LET printed == Printed(ret)
        texts == {heap[heap[x].names[1]].val : x \in {y \in DOMAIN heap : heap[y].kind = "string"}}
    IN  /\ IsDocument(printed) /\ WithoutCommas(printed) = WithoutCommas(read) <=> texts = {}
        /\ (\A t \in texts : Bare[t] \in {<<l>> : l \in Literals}) => IsDocument(printed)
        /\ (\E t \in texts : "error" \in Range(Bare[t])) => ~IsDocument(printed)
=============================================================================
