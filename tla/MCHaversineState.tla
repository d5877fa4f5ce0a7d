-------------------------- MODULE MCHaversineState --------------------------
(* Every file of up to MaxTokens tokens with one string and one literal,     *)
(* and files of none to two points as they should be or with one thing out   *)
(* of place, or with strings that read as something else without their       *)
(* quotes, each cut off anywhere.                                            *)
EXTENDS HaversineState

\* Texts by what they read as without quotes; the names read as errors.
Unquoted == ("" :> <<>>) @@ ("5" :> <<"number">>) @@ ("null" :> <<"word">>)
              @@ ("1, 2" :> <<"number", "comma", "number">>) @@ ("3 }" :> <<"number", "rbrace">>)
              @@ ("[]" :> <<"lsqbracket", "rsqbracket">>) @@ (": x" :> <<"colon", "error">>)

MCStrings == Coordinates \cup {"points"} \cup DOMAIN Unquoted
MCBare == [t \in MCStrings |-> IF t \in DOMAIN Unquoted THEN Unquoted[t] ELSE <<"error">>]
MCAlphabet == Symbols \cup {"number", "points"}

Usual == <<"x0", "y0", "x1", "y1">>
Number == <<"number">>

CommaAfterEach(items) == FlattenSeq([i \in DOMAIN items |-> items[i] \o <<"comma">>])
Separated(items) == IF items = <<>> THEN <<>> ELSE Front(CommaAfterEach(items))
Object(fields) == <<"lbrace">> \o Separated(fields) \o <<"rbrace">>
Array(elements) == <<"lsqbracket">> \o Separated(elements) \o <<"rsqbracket">>
Field(name, value) == <<name, "colon">> \o value
Fields(names) == [i \in DOMAIN names |-> Field(names[i], Number)]

Point(names) == Object(Fields(names))
PointWith(k, value) == Object([Fields(Usual) EXCEPT ![k] = Field(Usual[k], value)])
GoodPoint == Point(Usual)

\* What may stand where a point should.
Points ==
  {Point(Reverse(Usual)), Point(<<"y1", "x0", "x1", "y0">>),
   Point(<<"x0", "y0", "x1", "x0">>), Point(<<"x0", "y0", "x1", "y1", "y1">>),
   Point(<<"x0", "y0", "x1">>), Point(<<"points", "y0", "x1", "y1">>),
   <<"lbrace">> \o CommaAfterEach(Fields(Usual)) \o <<"rbrace">>,
   PointWith(4, <<"word">>), PointWith(2, <<"x0">>), PointWith(1, GoodPoint), PointWith(3, Array(<<Number>>)),
   Array(<<Number>>), <<"word">>}

MCFiles ==
  {Object(<<Field("points", Array(ps))>>) :
     ps \in {<<>>, <<GoodPoint>>, <<GoodPoint, GoodPoint>>}
              \cup {<<p>> : p \in Points} \cup {<<GoodPoint, p>> : p \in Points}}
  \cup {Object(<<Field("points", Array(<<GoodPoint>>)), Field("x0", Number)>>),
        Object(<<Field("x0", Array(<<GoodPoint>>))>>),
        Object(<<Field("points", GoodPoint)>>)}
  \cup {Object(<<Field(t, <<u>>), Field("points", Array(<<<<u>>, Number, <<t>>>>))>>) :
          t, u \in DOMAIN Unquoted \cup {"points"}}
=============================================================================
