------------------------- MODULE HaversineTreeProofs -------------------------
(***************************************************************************)
(* What haversine_perf_test makes of the tree that the parser built        *)
(* (HaversineStateProofs), for every file: the points and the verdict of   *)
(* setup_haversine_state, and the reprint.                                 *)
(*                                                                         *)
(* The verdict.  The words of the root lie in those of the file, and those *)
(* of each kid in its parent's, each at the place the lengths before it    *)
(* give (At, FlatLies): so a tree in which setup finds an array of points  *)
(* is that of a file of points (FoundIsFile), and a file of points has     *)
(* such a tree (FileIsFound), whatever the order of the fields.  Which     *)
(* number is which coordinate comes from the same words with the numbers   *)
(* counted.  VerdictInv has how far setup has looked, and what it was      *)
(* given.                                                                  *)
(*                                                                         *)
(* The reprint.  A block is printed after its kids (KidsFirst).  A block   *)
(* that points to any other is said, and printed, with the root, since it  *)
(* has one owner (AllIsSaid).  So a string is in what was read and named   *)
(* no field (StringUnnamed), where in what is printed every string names   *)
(* one (PrintedNamed); and what its text reads as is in what is printed    *)
(* (ErrorIsNoDocument).  Without strings each entity is printed as one     *)
(* (PrintedDerives), and says what it said (PrintedSays).                  *)
(***************************************************************************)
EXTENDS HaversineStateProofs

(***************************************************************************)
(* The file of points.  Where the words of a tree lie in the tokens of the *)
(* file: w lies in c after the p-th token.                                 *)
(***************************************************************************)
At(c, p, w) == p \in Nat /\ p + Len(w) <= Len(c) /\ \A j \in 1 .. Len(w) : c[p + j] = w[j]

LEMMA ShapeKids ==
  ASSUME NEW h, Shaped(h), NEW c \in DOMAIN h
  PROVE  Len(h[c].kids) \in Nat /\ \A i \in 1 .. Len(h[c].kids) : h[c].kids[i] \in DOMAIN h
<1>1. h[c].kids \in Seq(Nat \ {0}) /\ \A i \in 1 .. Len(h[c].kids) : h[c].kids[i] \in DOMAIN h
  BY DEF Shaped, ShapeOf
<1>. QED
  BY <1>1

LEMMA ConcatLies ==
  ASSUME NEW X, NEW c \in Seq(X), NEW p \in Nat, NEW u \in Seq(X), NEW w \in Seq(X), At(c, p, u \o w)
  PROVE  At(c, p, u) /\ At(c, p + Len(u), w)
<1>. DEFINE m == Len(u)
            n == Len(w)
            uw == u \o w
<1>1. /\ m \in Nat /\ n \in Nat /\ Len(uw) = m + n /\ Len(c) \in Nat
      /\ (\A i \in 1 .. m : uw[i] = u[i]) /\ \A i \in 1 .. n : uw[m + i] = w[i]
  BY ConcatIs
<1>2. p + Len(uw) <= Len(c) /\ \A j \in 1 .. Len(uw) : c[p + j] = uw[j]
  BY DEF At
<1>. HIDE DEF m, n, uw
<1>3. ASSUME NEW j \in 1 .. m PROVE c[p + j] = u[j]
  BY <1>1, <1>2
<1>4. ASSUME NEW j \in 1 .. n PROVE c[(p + m) + j] = w[j]
  <2>1. m + j \in 1 .. Len(uw) /\ p + (m + j) = (p + m) + j
    BY <1>1
  <2>2. c[p + (m + j)] = uw[m + j]
    BY <1>2, <2>1
  <2>. QED
    BY <1>1, <2>1, <2>2
<1>5. p + m \in Nat /\ p + m <= Len(c) /\ (p + m) + n <= Len(c)
  BY <1>1, <1>2
<1>. QED
  BY <1>3, <1>4, <1>5 DEF At, m, n

LEMMA SelfLies ==
  ASSUME NEW X, NEW w \in Seq(X)
  PROVE  At(w, 0, w)
BY DEF At

LEMMA FlatLies ==
  ASSUME NEW X, NEW c \in Seq(X), NEW p \in Nat, NEW n \in Nat, NEW q, \A i \in 1 .. n : q[i] \in Seq(X),
         At(c, p, FlatTo(q, n))
  PROVE  /\ FlatTo(q, 0) = <<>> /\ Len(FlatTo(q, 0)) = 0
         /\ \A i \in 1 .. n : /\ Len(FlatTo(q, i - 1)) \in Nat
                              /\ Len(FlatTo(q, i)) = Len(FlatTo(q, i - 1)) + Len(q[i])
                              /\ At(c, p + Len(FlatTo(q, i - 1)), q[i])
<1>1. /\ FlatTo(q, 0) = <<>>
      /\ \A k \in 0 .. n : FlatTo(q, k) \in Seq(X)
      /\ \A k \in 1 .. n : FlatTo(q, k) = FlatTo(q, k - 1) \o q[k]
  BY FlatToIs
<1>2. ASSUME NEW i \in 1 .. n, At(c, p, FlatTo(q, i))
      PROVE  At(c, p, FlatTo(q, i - 1)) /\ At(c, p + Len(FlatTo(q, i - 1)), q[i])
  <2>1. i - 1 \in 0 .. n
    OBVIOUS
  <2>2. FlatTo(q, i - 1) \in Seq(X) /\ q[i] \in Seq(X) /\ FlatTo(q, i) = FlatTo(q, i - 1) \o q[i]
    BY <1>1, <2>1
  <2>3. At(c, p, FlatTo(q, i - 1) \o q[i])
    BY <1>2, <2>2
  <2>. QED
    BY <2>2, <2>3, ConcatLies
<1>. DEFINE T == {k \in Nat : \E i \in 0 .. n : k = n - i /\ ~ At(c, p, FlatTo(q, i))}
<1>3. ASSUME T # {} PROVE FALSE
  <2>1. PICK k \in T : \A j \in T : k <= j
    <3>1. T \in SUBSET Nat
      OBVIOUS
    <3>. QED
      BY <1>3, <3>1, LeastNatural
  <2>2. PICK i \in 0 .. n : k = n - i /\ ~ At(c, p, FlatTo(q, i))
    BY <2>1
  <2>3. i # n
    BY <2>2
  <2>4. i + 1 \in 1 .. n /\ n - (i + 1) \in Nat /\ ~ (k <= n - (i + 1)) /\ i + 1 \in 0 .. n /\ (i + 1) - 1 = i
    BY <2>2, <2>3
  <2>5. n - (i + 1) \notin T
    BY <2>1, <2>4
  <2>6. At(c, p, FlatTo(q, i + 1))
    BY <2>4, <2>5
  <2>7. At(c, p, FlatTo(q, (i + 1) - 1))
    BY <1>2, <2>4, <2>6
  <2>. QED
    BY <2>2, <2>4, <2>7
<1>4. ASSUME NEW i \in 0 .. n PROVE At(c, p, FlatTo(q, i))
  <2>1. SUFFICES ASSUME ~ At(c, p, FlatTo(q, i)) PROVE FALSE
    OBVIOUS
  <2>2. n - i \in Nat
    OBVIOUS
  <2>3. n - i \in T
    BY <2>1, <2>2
  <2>. HIDE DEF T
  <2>. QED
    BY <1>3, <2>3
<1>5. ASSUME NEW i \in 1 .. n
      PROVE  Len(FlatTo(q, i - 1)) \in Nat /\ Len(FlatTo(q, i)) = Len(FlatTo(q, i - 1)) + Len(q[i])
  <2>1. i - 1 \in 0 .. n
    OBVIOUS
  <2>2. FlatTo(q, i - 1) \in Seq(X) /\ q[i] \in Seq(X) /\ FlatTo(q, i) = FlatTo(q, i - 1) \o q[i]
    BY <1>1, <2>1
  <2>3. Len(FlatTo(q, i - 1) \o q[i]) = Len(FlatTo(q, i - 1)) + Len(q[i])
    BY <2>2, ConcatIs
  <2>4. Len(FlatTo(q, i - 1)) \in Nat
    BY <2>2
  <2>. QED
    BY <2>2, <2>3, <2>4
<1>6. \A i \in 1 .. n : At(c, p + Len(FlatTo(q, i - 1)), q[i])
  <2>1. \A i \in 1 .. n : i \in 0 .. n
    OBVIOUS
  <2>. QED
    BY <1>2, <1>4, <2>1
<1>7. Len(FlatTo(q, 0)) = 0
  BY <1>1
<1>. QED
  BY <1>1, <1>5, <1>6, <1>7

\* The list e lies in c after p: its brackets, and each item after those before.
Laid(v, h, W, e, c, p, L) ==
  LET n == Len(h[e].kids)
  IN  /\ n \in Nat /\ L[0] = 0 /\ L[n] \in Nat
      /\ c[p + 1] = Opener(h[e].kind) /\ c[p + L[n] + 2] = Closer(h[e].kind)
      /\ Len(W[e]) = L[n] + 2 /\ p + L[n] + 2 <= Len(c)
      /\ \A i \in 1 .. n : /\ L[i - 1] \in Nat /\ L[i] = L[i - 1] + Len(ItemOf(v, h, W, e, i))
                           /\ At(c, p + 1 + L[i - 1], ItemOf(v, h, W, e, i))

LEMMA ListLies ==
  ASSUME NEW v, v # "numbers", NEW h, Shaped(h), NEW W, Written(v, h, W), NEW e, e \in DOMAIN h, h[e].kind \in Kinds,
         NEW c \in Seq(Words), NEW p \in Nat, At(c, p, W[e])
  PROVE  \E L : Laid(v, h, W, e, c, p, L)
<1>. DEFINE n == Len(h[e].kids)
            q == [i \in 1 .. n |-> ItemOf(v, h, W, e, i)]
            F == FlatTo(q, n)
            L == [i \in 0 .. n |-> Len(FlatTo(q, i))]
            op == Opener(h[e].kind)
            cl == Closer(h[e].kind)
<1>1. n \in Nat /\ \A i \in 1 .. n : W[h[e].kids[i]] \in Seq(Words)
  BY DEF Shaped, ShapeOf, Written
<1>2. \A i \in 1 .. n : q[i] = ItemOf(v, h, W, e, i) /\ q[i] \in Seq(Words)
  BY <1>1, ItemOfIs
<1>3. W[e] = <<op>> \o F \o <<cl>>
  BY Zenon DEF Written, WordOf, ListWord, ItemsOf, Mark
<1>4. op \in Words /\ cl \in Words
  BY BracketsAreWords
<1>5. \A i \in 0 .. n : L[i] = Len(FlatTo(q, i))
  OBVIOUS
<1>. HIDE DEF n, q, op, cl, L
<1>6. F \in Seq(Words) /\ FlatTo(q, 0) = <<>> /\ \A i \in 0 .. n : FlatTo(q, i) \in Seq(Words)
  <2>1. FlatTo(q, 0) = <<>> /\ \A i \in 0 .. n : FlatTo(q, i) \in Seq(Words)
    BY <1>1, <1>2, FlatToIs
  <2>2. n \in 0 .. n
    BY <1>1
  <2>. QED
    BY <2>1, <2>2
<1>. HIDE DEF F
<1>7. /\ <<op>> \in Seq(Words) /\ Len(<<op>>) = 1 /\ <<op>>[1] = op
      /\ <<cl>> \in Seq(Words) /\ Len(<<cl>>) = 1 /\ <<cl>>[1] = cl
  BY <1>4, OneToken
<1>8. <<op>> \o F \in Seq(Words) /\ Len(<<op>> \o F) = 1 + Len(F) /\ Len(F) \in Nat
  BY <1>6, <1>7, ConcatIs
<1>9. At(c, p, <<op>> \o F) /\ At(c, p + (1 + Len(F)), <<cl>>)
  <2>1. At(c, p, (<<op>> \o F) \o <<cl>>)
    BY <1>3
  <2>. QED
    BY <1>7, <1>8, <2>1, ConcatLies
<1>10. At(c, p, <<op>>) /\ At(c, p + 1, F)
  BY <1>6, <1>7, <1>9, ConcatLies
<1>11. Len(W[e]) = Len(F) + 2
  <2>1. Len((<<op>> \o F) \o <<cl>>) = Len(<<op>> \o F) + 1
    BY <1>7, <1>8, ConcatIs
  <2>. QED
    BY <1>3, <1>8, <2>1
<1>12. c[p + 1] = op /\ c[p + Len(F) + 2] = cl /\ p + Len(F) + 2 <= Len(c)
  <2>1. c[p + 1] = op
    BY <1>7, <1>10 DEF At
  <2>2. c[(p + (1 + Len(F))) + 1] = cl /\ (p + (1 + Len(F))) + 1 <= Len(c)
    BY <1>7, <1>9 DEF At
  <2>3. (p + (1 + Len(F))) + 1 = p + Len(F) + 2
    BY <1>8
  <2>. QED
    BY <2>1, <2>2, <2>3
<1>13. /\ Len(FlatTo(q, 0)) = 0
       /\ \A i \in 1 .. n : /\ Len(FlatTo(q, i - 1)) \in Nat
                            /\ Len(FlatTo(q, i)) = Len(FlatTo(q, i - 1)) + Len(q[i])
                            /\ At(c, (p + 1) + Len(FlatTo(q, i - 1)), q[i])
  <2>1. ASSUME NEW m \in Nat, At(c, m, FlatTo(q, n))
        PROVE  /\ FlatTo(q, 0) = <<>> /\ Len(FlatTo(q, 0)) = 0
               /\ \A i \in 1 .. n : /\ Len(FlatTo(q, i - 1)) \in Nat
                                    /\ Len(FlatTo(q, i)) = Len(FlatTo(q, i - 1)) + Len(q[i])
                                    /\ At(c, m + Len(FlatTo(q, i - 1)), q[i])
    <3>1. n \in Nat /\ \A i \in 1 .. n : q[i] \in Seq(Words)
      BY <1>1, <1>2
    <3>. QED
      BY <2>1, <3>1, FlatLies
  <2>2. p + 1 \in Nat /\ At(c, p + 1, FlatTo(q, n))
    BY <1>10 DEF F
  <2>. QED
    BY <2>1, <2>2
<1>14. L[0] = 0 /\ L[n] = Len(F)
  BY <1>1, <1>5, <1>13 DEF F
<1>15. ASSUME NEW i \in 1 .. n
       PROVE  /\ L[i - 1] \in Nat /\ L[i] = L[i - 1] + Len(ItemOf(v, h, W, e, i))
              /\ At(c, p + 1 + L[i - 1], ItemOf(v, h, W, e, i))
  <2>1. i \in 0 .. n /\ i - 1 \in 0 .. n
    BY <1>1
  <2>2. L[i] = Len(FlatTo(q, i)) /\ L[i - 1] = Len(FlatTo(q, i - 1)) /\ q[i] = ItemOf(v, h, W, e, i)
    BY <1>2, <1>5, <2>1
  <2>. QED
    BY <1>13, <2>2
<1>16. Laid(v, h, W, e, c, p, L)
  BY <1>1, <1>8, <1>11, <1>12, <1>14, <1>15, Zenon DEF Laid, n, op, cl
<1>. QED
  BY <1>16

\* An item of a list: its name and a colon in an object (k is 2), and what it
\* says.
ItemFacts(v, h, W, e, i, c, p, k) ==
  /\ h[e].kids[i] \in DOMAIN h /\ h[h[e].kids[i]].kind \in EntityKinds
  /\ h[e].kind = "object" =>
       /\ h[e].names[i] \in DOMAIN h /\ c[p + 1] = h[h[e].names[i]].val /\ c[p + 1] \in Strings
       /\ c[p + 2] = "colon"
  /\ At(c, p + k, W[h[e].kids[i]])
  /\ At(c, p + k + Len(W[h[e].kids[i]]), Sep(v))
  /\ Len(W[h[e].kids[i]]) \in Nat
  /\ Len(ItemOf(v, h, W, e, i)) = k + Len(W[h[e].kids[i]]) + Len(Sep(v))

LEMMA ItemLies ==
  ASSUME NEW v, v # "numbers", NEW h, Shaped(h), NEW W, Written(v, h, W), NEW e, e \in DOMAIN h, h[e].kind \in Kinds,
         NEW i \in 1 .. Len(h[e].kids),
         NEW c \in Seq(Words), NEW p \in Nat, At(c, p, ItemOf(v, h, W, e, i)), NEW k, k = IF h[e].kind = "object" THEN 2 ELSE 0
  PROVE  ItemFacts(v, h, W, e, i, c, p, k)
<1>. DEFINE d == h[e].kids[i]
            f == FieldOf(v, h, e, i)
            w == W[d]
            x == h[h[e].names[i]].val
<1>1. ShapeOf(h, e)
  BY DEF Shaped
<1>2. d \in DOMAIN h /\ h[d].kind \in EntityKinds
  BY <1>1 DEF ShapeOf
<1>3. h[e].kind = "object" => h[e].names[i] \in DOMAIN h /\ x \in Strings
  <2>1. SUFFICES ASSUME h[e].kind = "object" PROVE h[e].names[i] \in DOMAIN h /\ x \in Strings
    OBVIOUS
  <2>2. i \in 1 .. Len(h[e].names)
    BY <1>1, <2>1 DEF ShapeOf
  <2>3. h[e].names[i] \in DOMAIN h /\ h[h[e].names[i]].kind = "text"
    BY <1>1, <2>2 DEF ShapeOf
  <2>. QED
    BY <2>3 DEF Shaped, ShapeOf
<1>4. w \in Seq(Words) /\ Sep(v) \in Seq(Words) /\ f \in Seq(Words)
  BY <1>2, MarkIs, FieldOfIs, BracketsAreWords DEF Written
<1>5. ItemOf(v, h, W, e, i) = f \o w \o Sep(v)
  BY Zenon DEF ItemOf
<1>6. f = IF h[e].kind = "object" THEN <<x>> \o <<"colon">> ELSE <<>>
  BY Zenon DEF FieldOf, NameOf, Mark
<1>7. h[e].kind = "object" => /\ <<x>> \in Seq(Words) /\ Len(<<x>>) = 1 /\ <<x>>[1] = x
                              /\ <<"colon">> \in Seq(Words) /\ Len(<<"colon">>) = 1 /\ <<"colon">>[1] = "colon"
  BY <1>3, BracketsAreWords, OneToken
<1>. HIDE DEF d, w, x
<1>8. Len(f) = k
  <2>1. CASE h[e].kind = "object"
    BY <1>6, <1>7, <2>1, ConcatIs
  <2>2. CASE h[e].kind # "object"
    BY <1>6, <2>2
  <2>. QED
    BY <2>1, <2>2
<1>. HIDE DEF f
<1>9. f \o w \in Seq(Words) /\ Len(f \o w) = k + Len(w) /\ Len(w) \in Nat /\ k \in Nat
  <2>1. f \o w \in Seq(Words) /\ Len(f \o w) = Len(f) + Len(w)
    BY <1>4, ConcatIs
  <2>2. Len(w) \in Nat /\ k \in Nat
    BY <1>4
  <2>. QED
    BY <1>8, <2>1, <2>2
<1>10. At(c, p, f \o w) /\ At(c, p + (k + Len(w)), Sep(v))
  <2>1. At(c, p, (f \o w) \o Sep(v))
    BY <1>5
  <2>. QED
    BY <1>4, <1>9, <2>1, ConcatLies
<1>11. At(c, p, f) /\ At(c, p + k, w)
  BY <1>4, <1>8, <1>10, ConcatLies
<1>12. h[e].kind = "object" => c[p + 1] = x /\ c[p + 2] = "colon"
  <2>1. SUFFICES ASSUME h[e].kind = "object" PROVE c[p + 1] = x /\ c[p + 2] = "colon"
    OBVIOUS
  <2>2. At(c, p, <<x>> \o <<"colon">>)
    BY <1>6, <1>11, <2>1
  <2>3. At(c, p, <<x>>) /\ At(c, p + 1, <<"colon">>)
    BY <1>7, <2>1, <2>2, ConcatLies
  <2>4. c[p + 1] = x
    BY <1>7, <2>1, <2>3 DEF At
  <2>5. c[(p + 1) + 1] = "colon" /\ (p + 1) + 1 = p + 2
    BY <1>7, <2>1, <2>3 DEF At
  <2>. QED
    BY <2>4, <2>5
<1>13. Len((f \o w) \o Sep(v)) = k + Len(w) + Len(Sep(v))
  <2>1. Len((f \o w) \o Sep(v)) = Len(f \o w) + Len(Sep(v))
    BY <1>4, <1>9, ConcatIs
  <2>. QED
    BY <1>9, <2>1
<1>14. p + (k + Len(w)) = p + k + Len(w)
  BY <1>9
<1>15. At(c, p + k + Len(w), Sep(v))
  BY <1>10, <1>14
<1>16. Len(ItemOf(v, h, W, e, i)) = k + Len(w) + Len(Sep(v))
  BY <1>5, <1>13
<1>17. h[e].kind = "object" =>
         /\ h[e].names[i] \in DOMAIN h /\ c[p + 1] = h[h[e].names[i]].val /\ c[p + 1] \in Strings
         /\ c[p + 2] = "colon"
  BY <1>3, <1>12 DEF x
<1>18. h[e].kids[i] \in DOMAIN h /\ h[h[e].kids[i]].kind \in EntityKinds
  BY <1>2 DEF d
<1>19. At(c, p + k, W[h[e].kids[i]]) /\ At(c, p + k + Len(W[h[e].kids[i]]), Sep(v))
  BY <1>11, <1>15 DEF d, w
<1>20. Len(W[h[e].kids[i]]) \in Nat /\ Len(ItemOf(v, h, W, e, i)) = k + Len(W[h[e].kids[i]]) + Len(Sep(v))
  BY <1>9, <1>16 DEF d, w
<1>. QED
  BY <1>17, <1>18, <1>19, <1>20 DEF ItemFacts

\* What an entity begins with tells of which kind it is.
Begins(h, W, e, c, p) ==
  /\ c[p + 1] = "lbrace" <=> h[e].kind = "object"
  /\ c[p + 1] = "lsqbracket" <=> h[e].kind = "array"
  /\ c[p + 1] = "number" <=> h[e].kind = "number"
  /\ h[e].kind = "number" => Len(W[e]) = 1
  /\ c[p + 1] \notin {"rbrace", "rsqbracket", "colon"}

LEMMA EntityLies ==
  ASSUME NEW h, Shaped(h), NEW W, Written("tokens", h, W), NEW e, e \in DOMAIN h, h[e].kind \in EntityKinds,
         NEW c \in Seq(Words), NEW p \in Nat, At(c, p, W[e])
  PROVE  Begins(h, W, e, c, p)
<1>1. ShapeOf(h, e) /\ W[e] = WordOf("tokens", h, W, e)
  BY DEF Shaped, Written
<1>2. CASE h[e].kind \in Kinds
  <2>1. PICK L : Laid("tokens", h, W, e, c, p, L)
    BY <1>2, ListLies
  <2>2. c[p + 1] = Opener(h[e].kind)
    BY <2>1 DEF Laid
  <2>. QED
    BY <1>2, <2>2 DEF Kinds, Opener, Begins
<1>3. CASE h[e].kind = "string"
  <2>. DEFINE x == h[h[e].names[1]].val
  <2>1. h[e].names[1] \in DOMAIN h /\ h[h[e].names[1]].kind = "text"
    BY <1>1, <1>3 DEF ShapeOf
  <2>2. x \in Strings
    BY <2>1 DEF Shaped, ShapeOf
  <2>3. W[e] = <<x>>
    BY <1>1, <1>3 DEF WordOf, LeafOf, StringOf, TextIn, Kinds
  <2>. HIDE DEF x
  <2>4. Len(<<x>>) = 1 /\ <<x>>[1] = x
    OBVIOUS
  <2>5. c[p + 1] = x
    BY <2>3, <2>4 DEF At
  <2>. QED
    BY <1>3, <2>2, <2>5, StringsAssumption DEF Symbols, Literals, Begins
<1>4. CASE h[e].kind \in Literals
  <2>. DEFINE x == h[e].kind
  <2>1. W[e] = <<x>>
    BY <1>1, <1>4 DEF WordOf, LeafOf, Kinds, Literals
  <2>2. Len(<<x>>) = 1 /\ <<x>>[1] = x
    OBVIOUS
  <2>3. c[p + 1] = x
    BY <2>1, <2>2 DEF At
  <2>. QED
    BY <1>4, <2>1, <2>2, <2>3 DEF Literals, Begins
<1>. QED
  BY <1>2, <1>3, <1>4 DEF EntityKinds

\* A field of an object, after the m-th token, and an element of an array.
FieldAt(h, W, e, i, c, m) ==
  /\ h[e].kids[i] \in DOMAIN h /\ h[h[e].kids[i]].kind \in EntityKinds
  /\ c[m + 1] = h[h[e].names[i]].val /\ c[m + 1] \in Strings /\ c[m + 2] = "colon"
  /\ At(c, m + 2, W[h[e].kids[i]]) /\ Len(W[h[e].kids[i]]) \in Nat
ElementAt(h, W, e, i, c, m) ==
  /\ h[e].kids[i] \in DOMAIN h /\ h[h[e].kids[i]].kind \in EntityKinds
  /\ At(c, m, W[h[e].kids[i]]) /\ Len(W[h[e].kids[i]]) \in Nat

LaidFacts(h, W, e, i, c, p, L, k) ==
  /\ ItemFacts("tokens", h, W, e, i, c, p + 1 + L[i - 1], k)
  /\ L[i - 1] \in Nat /\ L[i] = L[i - 1] + k + Len(W[h[e].kids[i]])

LEMMA LaidItem ==
  ASSUME NEW h, Shaped(h), NEW W, Written("tokens", h, W), NEW e, e \in DOMAIN h, h[e].kind \in Kinds,
         NEW c \in Seq(Words), NEW p \in Nat, NEW L, Laid("tokens", h, W, e, c, p, L),
         NEW i \in 1 .. Len(h[e].kids), NEW k, k = IF h[e].kind = "object" THEN 2 ELSE 0
  PROVE  LaidFacts(h, W, e, i, c, p, L, k)
<1>. DEFINE m == p + 1 + L[i - 1]
            li == Len(ItemOf("tokens", h, W, e, i))
            lw == Len(W[h[e].kids[i]])
<1>1. L[i - 1] \in Nat /\ L[i] = L[i - 1] + li /\ At(c, m, ItemOf("tokens", h, W, e, i))
  BY DEF Laid
<1>2. m \in Nat
  BY <1>1
<1>. HIDE DEF m, li
<1>3. "tokens" # "numbers"
  OBVIOUS
<1>4. ItemFacts("tokens", h, W, e, i, c, m, k)
  BY <1>1, <1>2, <1>3, ItemLies
<1>5. Len(Sep("tokens")) = 0
  BY DEF Sep
<1>6. lw \in Nat /\ li = k + lw + Len(Sep("tokens"))
  BY <1>4, Zenon DEF ItemFacts, li
<1>7. k \in Nat
  OBVIOUS
<1>. HIDE DEF lw
<1>8. L[i] = L[i - 1] + k + lw
  BY ONLY <1>1, <1>5, <1>6, <1>7
<1>. QED
  BY <1>1, <1>4, <1>8 DEF m, LaidFacts, lw

FieldFacts(h, W, e, i, c, p, L) ==
  /\ FieldAt(h, W, e, i, c, p + 1 + L[i - 1])
  /\ L[i - 1] \in Nat /\ L[i] = L[i - 1] + 2 + Len(W[h[e].kids[i]])

LEMMA FieldLies ==
  ASSUME NEW h, Shaped(h), NEW W, Written("tokens", h, W), NEW e, e \in DOMAIN h, h[e].kind = "object",
         NEW c \in Seq(Words), NEW p \in Nat, NEW L, Laid("tokens", h, W, e, c, p, L), NEW i \in 1 .. Len(h[e].kids)
  PROVE  FieldFacts(h, W, e, i, c, p, L)
<1>1. h[e].kind \in Kinds
  BY DEF Kinds
<1>2. \A k : k = (IF h[e].kind = "object" THEN 2 ELSE 0) => LaidFacts(h, W, e, i, c, p, L, k)
  BY <1>1, LaidItem, Zenon
<1>3. LaidFacts(h, W, e, i, c, p, L, 2)
  BY <1>2
<1>4. /\ ItemFacts("tokens", h, W, e, i, c, p + 1 + L[i - 1], 2)
      /\ L[i - 1] \in Nat /\ L[i] = L[i - 1] + 2 + Len(W[h[e].kids[i]])
  BY <1>3 DEF LaidFacts
<1>. QED
  BY <1>4 DEF ItemFacts, FieldAt, FieldFacts

ElementFacts(h, W, e, i, c, p, L) ==
  /\ ElementAt(h, W, e, i, c, p + 1 + L[i - 1])
  /\ L[i - 1] \in Nat /\ L[i] = L[i - 1] + Len(W[h[e].kids[i]])

LEMMA ElementLies ==
  ASSUME NEW h, Shaped(h), NEW W, Written("tokens", h, W), NEW e, e \in DOMAIN h, h[e].kind = "array",
         NEW c \in Seq(Words), NEW p \in Nat, NEW L, Laid("tokens", h, W, e, c, p, L), NEW i \in 1 .. Len(h[e].kids)
  PROVE  ElementFacts(h, W, e, i, c, p, L)
<1>1. h[e].kind \in Kinds
  BY DEF Kinds
<1>2. \A k : k = (IF h[e].kind = "object" THEN 2 ELSE 0) => LaidFacts(h, W, e, i, c, p, L, k)
  BY <1>1, LaidItem, Zenon
<1>3. LaidFacts(h, W, e, i, c, p, L, 0)
  BY <1>2
<1>4. /\ ItemFacts("tokens", h, W, e, i, c, p + 1 + L[i - 1], 0)
      /\ L[i - 1] \in Nat /\ L[i] = L[i - 1] + 0 + Len(W[h[e].kids[i]])
  BY <1>3 DEF LaidFacts
<1>5. p + 1 + L[i - 1] + 0 = p + 1 + L[i - 1] /\ L[i - 1] + 0 = L[i - 1]
  BY <1>4
<1>6. ElementAt(h, W, e, i, c, p + 1 + L[i - 1])
  BY <1>4, <1>5 DEF ItemFacts, ElementAt
<1>. QED
  BY <1>4, <1>5, <1>6 DEF ElementFacts

\* The i-th field of an object in which those before are a name, a colon and a
\* number.
ScalarAt(h, e, i, c, p, L) ==
  /\ c[p + 3 * i - 1] = h[h[e].names[i]].val /\ c[p + 3 * i - 1] \in Strings
  /\ (c[p + 3 * i + 1] = "number") <=> (h[h[e].kids[i]].kind = "number")
  /\ (h[h[e].kids[i]].kind = "number") => (L[i] = 3 * i)

LEMMA ScalarLies ==
  ASSUME NEW h, Shaped(h), NEW W, Written("tokens", h, W), NEW e, e \in DOMAIN h, h[e].kind = "object",
         NEW c \in Seq(Words), NEW p \in Nat, NEW L, Laid("tokens", h, W, e, c, p, L),
         NEW i \in 1 .. Len(h[e].kids), L[i - 1] = 3 * (i - 1)
  PROVE  ScalarAt(h, e, i, c, p, L)
<1>. DEFINE d == h[e].kids[i]
<1>0. FieldFacts(h, W, e, i, c, p, L)
  BY FieldLies, Zenon
<1>1. /\ FieldAt(h, W, e, i, c, p + 1 + L[i - 1])
      /\ L[i - 1] \in Nat /\ L[i] = L[i - 1] + 2 + Len(W[d])
  BY <1>0 DEF FieldFacts
<1>2. i \in Nat
  OBVIOUS
<1>3. /\ p + 1 + L[i - 1] + 1 = p + 3 * i - 1 /\ p + 1 + L[i - 1] + 2 = p + 3 * i /\ p + 3 * i \in Nat
  BY <1>2
<1>4. /\ d \in DOMAIN h /\ h[d].kind \in EntityKinds
      /\ c[p + 3 * i - 1] = h[h[e].names[i]].val /\ c[p + 3 * i - 1] \in Strings
      /\ At(c, p + 3 * i, W[d])
  BY <1>1, <1>3 DEF FieldAt
<1>. HIDE DEF d
<1>5. ASSUME NEW m \in Nat, At(c, m, W[d])
      PROVE  /\ (c[m + 1] = "number") <=> (h[d].kind = "number")
             /\ h[d].kind = "number" => Len(W[d]) = 1
  <2>1. Begins(h, W, d, c, m)
    BY <1>4, <1>5, EntityLies
  <2>. QED
    BY <2>1 DEF Begins
<1>6. /\ (c[p + 3 * i + 1] = "number") <=> (h[d].kind = "number")
      /\ h[d].kind = "number" => Len(W[d]) = 1
  BY <1>3, <1>4, <1>5
<1>7. h[d].kind = "number" => L[i] = 3 * i
  <2>1. SUFFICES ASSUME h[d].kind = "number" PROVE L[i] = 3 * i
    OBVIOUS
  <2>2. L[i] = 3 * (i - 1) + 2 + 1
    BY <1>1, <1>6, <2>1
  <2>. QED
    BY <1>2, <2>2
<1>. QED
  BY <1>4, <1>6, <1>7 DEF d, ScalarAt

\* The entity e is a point, and lies in c after p.
PointAt(h, e, c, p) ==
  /\ h[e].kind = "object" /\ Len(h[e].kids) = 4
  /\ c[p + 1] = "lbrace" /\ c[p + 14] = "rbrace"
  /\ \A k \in 1 .. 4 : /\ c[p + 3 * k - 1] = h[h[e].names[k]].val
                       /\ c[p + 3 * k + 1] = "number" /\ h[h[e].kids[k]].kind = "number"

\* It has four fields, whose values are numbers.
FourNumbers(h, e) ==
  h[e].kind = "object" /\ Len(h[e].kids) = 4 /\ \A k \in 1 .. 4 : h[h[e].kids[k]].kind = "number"
PointLies(h, W, e, c, p) == PointAt(h, e, c, p) /\ Len(W[e]) = 14

LEMMA PointIsThere ==
  ASSUME NEW h, Shaped(h), NEW W, Written("tokens", h, W), NEW e, e \in DOMAIN h, FourNumbers(h, e),
         NEW c \in Seq(Words), NEW p \in Nat, At(c, p, W[e])
  PROVE  PointLies(h, W, e, c, p)
<1>0. h[e].kind = "object" /\ Len(h[e].kids) = 4 /\ \A k \in 1 .. 4 : h[h[e].kids[k]].kind = "number"
  BY DEF FourNumbers
<1>1. h[e].kind \in Kinds /\ "tokens" # "numbers"
  BY <1>0 DEF Kinds
<1>2. PICK L : Laid("tokens", h, W, e, c, p, L)
  BY <1>1, ListLies
<1>3. /\ L[0] = 0 /\ c[p + 1] = Opener("object") /\ c[p + L[4] + 2] = Closer("object") /\ Len(W[e]) = L[4] + 2
  BY <1>0, <1>2 DEF Laid
<1>4. ASSUME NEW k \in 1 .. 4, L[k - 1] = 3 * (k - 1)
      PROVE  L[k] = 3 * k /\ c[p + 3 * k - 1] = h[h[e].names[k]].val /\ c[p + 3 * k + 1] = "number"
  <2>1. k \in 1 .. Len(h[e].kids)
    BY <1>0
  <2>2. ScalarAt(h, e, k, c, p, L)
    BY <1>0, <1>2, <1>4, <2>1, ScalarLies
  <2>. QED
    BY <1>0, <2>2 DEF ScalarAt
<1>5. L[1] = 3 * 1
  <2>1. L[1 - 1] = 3 * (1 - 1)
    BY <1>3
  <2>. QED
    BY <1>4, <2>1
<1>6. L[2] = 3 * 2
  <2>1. L[2 - 1] = 3 * (2 - 1)
    BY <1>5
  <2>. QED
    BY <1>4, <2>1
<1>7. L[3] = 3 * 3
  <2>1. L[3 - 1] = 3 * (3 - 1)
    BY <1>6
  <2>. QED
    BY <1>4, <2>1
<1>8. L[4] = 3 * 4
  <2>1. L[4 - 1] = 3 * (4 - 1)
    BY <1>7
  <2>. QED
    BY <1>4, <2>1
<1>9. \A k \in 1 .. 4 : L[k - 1] = 3 * (k - 1)
  BY <1>3, <1>5, <1>6, <1>7
<1>10. \A k \in 1 .. 4 : c[p + 3 * k - 1] = h[h[e].names[k]].val /\ c[p + 3 * k + 1] = "number"
  BY <1>4, <1>9
<1>11. p + L[4] + 2 = p + 14 /\ Len(W[e]) = 14
  BY <1>3, <1>8
<1>. QED
  BY <1>0, <1>3, <1>10, <1>11 DEF PointLies, PointAt, Opener, Closer

\* What looks like a point is one.
LEMMA PointIsRead ==
  ASSUME NEW h, Shaped(h), NEW W, Written("tokens", h, W), NEW e, e \in DOMAIN h, h[e].kind \in EntityKinds,
         NEW c \in Seq(Words), NEW p \in Nat, At(c, p, W[e]),
         c[p + 1] = "lbrace", c[p + 14] = "rbrace",
         \A k \in 1 .. 4 : c[p + 3 * k - 1] \in Coordinates /\ c[p + 3 * k + 1] = "number"
  PROVE  PointLies(h, W, e, c, p)
<1>1. h[e].kind = "object"
  <2>1. Begins(h, W, e, c, p)
    BY EntityLies
  <2>. QED
    BY <2>1 DEF Begins
<1>2. h[e].kind \in Kinds /\ "tokens" # "numbers"
  BY <1>1 DEF Kinds
<1>3. PICK L : Laid("tokens", h, W, e, c, p, L)
  BY <1>2, ListLies
<1>. DEFINE n == Len(h[e].kids)
<1>4. /\ L[0] = 0 /\ n \in Nat /\ c[p + L[n] + 2] = "rbrace" /\ Len(W[e]) = L[n] + 2
  BY <1>1, <1>3 DEF Laid, Closer
<1>5. "rbrace" \notin Strings /\ Coordinates \subseteq Strings
  BY StringsAssumption, NamesAssumption DEF Symbols
<1>6. ASSUME NEW k \in 1 .. 5, k <= n, L[k - 1] = 3 * (k - 1)
      PROVE  ScalarAt(h, e, k, c, p, L)
  <2>1. k \in 1 .. Len(h[e].kids)
    BY <1>4, <1>6
  <2>. QED
    BY <1>1, <1>3, <1>6, <2>1, ScalarLies
<1>. HIDE DEF n
<1>7. ASSUME NEW k \in 1 .. 4, NEW m \in Nat, m = k - 1, m <= n, L[m] = 3 * m
      PROVE  k <= n /\ L[k] = 3 * k /\ c[p + 3 * k - 1] = h[h[e].names[k]].val /\ h[h[e].kids[k]].kind = "number"
  <2>1. k <= n
    <3>1. SUFFICES ASSUME n = m PROVE FALSE
      BY <1>4, <1>7
    <3>2. p + L[n] + 2 = p + 3 * k - 1
      <4>1. L[n] = 3 * m
        BY <1>7, <3>1
      <4>. QED
        BY <1>7, <4>1
    <3>3. c[p + 3 * k - 1] \in Coordinates
      OBVIOUS
    <3>. QED
      BY <1>4, <1>5, <3>2, <3>3
  <2>2. k \in 1 .. 5 /\ L[k - 1] = 3 * (k - 1)
    BY <1>7
  <2>3. ScalarAt(h, e, k, c, p, L)
    BY <1>6, <2>1, <2>2
  <2>4. c[p + 3 * k + 1] = "number"
    OBVIOUS
  <2>. QED
    BY <2>1, <2>3, <2>4 DEF ScalarAt
<1>8. 1 <= n /\ L[1] = 3 * 1
  <2>1. 0 <= n /\ L[0] = 3 * 0
    BY <1>4
  <2>. QED
    BY <1>7, <2>1
<1>9. 2 <= n /\ L[2] = 3 * 2
  BY <1>7, <1>8
<1>10. 3 <= n /\ L[3] = 3 * 3
  BY <1>7, <1>9
<1>11. 4 <= n /\ L[4] = 3 * 4
  BY <1>7, <1>10
<1>12. n = 4
  <2>1. SUFFICES ASSUME 5 <= n PROVE FALSE
    BY <1>4, <1>11
  <2>2. L[5 - 1] = 3 * (5 - 1)
    BY <1>11
  <2>3. ScalarAt(h, e, 5, c, p, L)
    BY <1>6, <2>1, <2>2
  <2>4. c[p + 3 * 5 - 1] \in Strings
    BY <2>3 DEF ScalarAt
  <2>5. p + 3 * 5 - 1 = p + 14
    OBVIOUS
  <2>. QED
    BY <1>5, <2>4, <2>5
<1>13. \A k \in 1 .. 4 : c[p + 3 * k - 1] = h[h[e].names[k]].val /\ h[h[e].kids[k]].kind = "number"
  <2>1. 0 <= n /\ L[0] = 3 * 0
    BY <1>4
  <2>2. \A k \in 1 .. 4 : k - 1 \in Nat /\ k - 1 <= n /\ L[k - 1] = 3 * (k - 1)
    BY <1>8, <1>9, <1>10, <2>1
  <2>. QED
    BY <1>7, <2>2
<1>14. Len(W[e]) = 14
  BY <1>4, <1>11, <1>12
<1>15. Len(h[e].kids) = 4
  BY <1>12 DEF n
<1>. QED
  BY <1>1, <1>13, <1>14, <1>15 DEF PointLies, PointAt

\* Induction up to n.
LEMMA UpTo ==
  ASSUME NEW n \in Nat, NEW T, 0 \in T, \A i \in 1 .. n : i - 1 \in T => i \in T
  PROVE  \A i \in 0 .. n : i \in T
<1>. DEFINE D == {i \in 0 .. n : i \notin T}
<1>1. SUFFICES ASSUME D # {} PROVE FALSE
  OBVIOUS
<1>2. PICK k \in D : \A m \in D : k <= m
  <2>1. D \in SUBSET Nat
    OBVIOUS
  <2>. HIDE DEF D
  <2>. QED
    BY <1>1, <2>1, LeastNatural
<1>3. k \in 1 .. n /\ k - 1 \in 0 .. n /\ k - 1 \notin D
  BY <1>2
<1>. QED
  BY <1>2, <1>3

\* The root r has one field, "points", the array a.
HasArray(h, r, a) ==
  /\ h[r].kind = "object" /\ Len(h[r].kids) = 1 /\ a = h[r].kids[1]
  /\ h[h[r].names[1]].val = "points" /\ h[a].kind = "array"

\* Such a root in its tokens c: the array begins after the third.
ArrayLies(h, W, a, c, M) ==
  /\ a \in DOMAIN h
  /\ c[1] = "lbrace" /\ c[2] = "points" /\ c[3] = "colon" /\ c[4] = "lsqbracket"
  /\ Laid("tokens", h, W, a, c, 3, M)
  /\ Len(c) = M[Len(h[a].kids)] + 6 /\ c[Len(c) - 1] = "rsqbracket"

LEMMA RootLies ==
  ASSUME NEW h, Shaped(h), NEW W, Written("tokens", h, W), NEW r, r \in DOMAIN h, NEW a, HasArray(h, r, a),
         NEW c \in Seq(Words), c = W[r]
  PROVE  \E M : ArrayLies(h, W, a, c, M)
<1>1. At(c, 0, W[r]) /\ h[r].kind \in Kinds /\ "tokens" # "numbers" /\ 0 \in Nat
  BY SelfLies DEF HasArray, Kinds
<1>2. PICK L : Laid("tokens", h, W, r, c, 0, L)
  BY <1>1, ListLies
<1>3. /\ L[0] = 0 /\ c[0 + 1] = "lbrace" /\ Len(c) = L[1] + 2 /\ L[1] \in Nat
  BY <1>2 DEF Laid, HasArray, Opener
<1>4. FieldFacts(h, W, r, 1, c, 0, L)
  <2>1. h[r].kind = "object" /\ 1 \in 1 .. Len(h[r].kids)
    BY DEF HasArray
  <2>. QED
    BY <1>1, <1>2, <2>1, FieldLies
<1>5. /\ FieldAt(h, W, r, 1, c, 1) /\ L[1] = 2 + Len(W[a])
  <2>1. L[1 - 1] = 0 /\ 0 + 1 + L[1 - 1] = 1
    BY <1>3
  <2>2. FieldAt(h, W, r, 1, c, 0 + 1 + L[1 - 1]) /\ L[1] = L[1 - 1] + 2 + Len(W[h[r].kids[1]])
    BY <1>4 DEF FieldFacts
  <2>3. Len(W[h[r].kids[1]]) \in Nat /\ a = h[r].kids[1]
    BY <2>2 DEF FieldAt, HasArray
  <2>. QED
    BY <2>1, <2>2, <2>3
<1>6. /\ a \in DOMAIN h /\ c[1 + 1] = "points" /\ c[1 + 2] = "colon" /\ At(c, 1 + 2, W[a]) /\ Len(W[a]) \in Nat
  BY <1>5 DEF FieldAt, HasArray
<1>7. At(c, 3, W[a]) /\ 3 \in Nat /\ h[a].kind \in Kinds
  BY <1>6 DEF HasArray, Kinds
<1>8. PICK M : Laid("tokens", h, W, a, c, 3, M)
  BY <1>1, <1>6, <1>7, ListLies
<1>. DEFINE m == Len(h[a].kids)
<1>9. c[3 + 1] = "lsqbracket" /\ c[3 + M[m] + 2] = "rsqbracket" /\ Len(W[a]) = M[m] + 2 /\ M[m] \in Nat
  BY <1>8 DEF Laid, HasArray, Opener, Closer
<1>. HIDE DEF m
<1>10. Len(c) = M[m] + 6 /\ 3 + M[m] + 2 = Len(c) - 1
  BY <1>3, <1>5, <1>9
<1>11. c[1] = "lbrace" /\ c[2] = "points" /\ c[3] = "colon" /\ c[4] = "lsqbracket"
  BY <1>3, <1>6, <1>9
<1>12. ArrayLies(h, W, a, c, M)
  BY <1>6, <1>8, <1>9, <1>10, <1>11 DEF ArrayLies, m
<1>. QED
  BY <1>12

\* If all elements are points, each is 14 tokens long.
LEMMA PointsLie ==
  ASSUME NEW h, Shaped(h), NEW W, Written("tokens", h, W), NEW a, h[a].kind = "array",
         NEW c \in Seq(Words), NEW M, ArrayLies(h, W, a, c, M),
         \A i \in 1 .. Len(h[a].kids) : FourNumbers(h, h[a].kids[i])
  PROVE  /\ Len(c) = 6 + 14 * Len(h[a].kids)
         /\ \A i \in 1 .. Len(h[a].kids) : PointAt(h, h[a].kids[i], c, 14 * i - 10)
<1>. DEFINE m == Len(h[a].kids)
            T == {i \in 0 .. m : M[i] = 14 * i}
<1>1. /\ a \in DOMAIN h /\ Laid("tokens", h, W, a, c, 3, M) /\ Len(c) = M[m] + 6
  BY DEF ArrayLies
<1>2. m \in Nat /\ M[0] = 0
  BY <1>1 DEF Laid
<1>3. ASSUME NEW i \in 1 .. m, M[i - 1] = 14 * (i - 1)
      PROVE  M[i] = 14 * i /\ PointAt(h, h[a].kids[i], c, 14 * i - 10)
  <2>. DEFINE d == h[a].kids[i]
              p == 14 * i - 10
  <2>1. ElementFacts(h, W, a, i, c, 3, M)
    BY <1>1, ElementLies
  <2>2. p \in Nat /\ p = 3 + 1 + M[i - 1]
    BY <1>2, <1>3
  <2>3. /\ d \in DOMAIN h /\ At(c, p, W[d]) /\ M[i] = M[i - 1] + Len(W[d])
    BY <2>1, <2>2 DEF ElementFacts, ElementAt
  <2>4. FourNumbers(h, d)
    OBVIOUS
  <2>. HIDE DEF d, p
  <2>5. PointLies(h, W, d, c, p)
    BY <2>2, <2>3, <2>4, PointIsThere
  <2>6. M[i] = 14 * i
    <3>1. M[i] = 14 * (i - 1) + 14
      BY <1>3, <2>3, <2>5 DEF PointLies
    <3>2. i \in Nat
      BY <1>2 DEF m
    <3>. QED
      BY <3>1, <3>2
  <2>. QED
    BY <2>5, <2>6 DEF d, p, PointLies
<1>4. \A i \in 0 .. m : M[i] = 14 * i
  <2>1. 0 \in T /\ \A i \in 1 .. m : i - 1 \in T => i \in T
    BY <1>2, <1>3
  <2>2. \A i \in 0 .. m : i \in T
    <3>. HIDE DEF T, m
    <3>. QED
      BY <1>2, <2>1, UpTo
  <2>. QED
    BY <2>2
<1>5. \A i \in 1 .. m : PointAt(h, h[a].kids[i], c, 14 * i - 10)
  BY <1>2, <1>3, <1>4
<1>6. Len(c) = 6 + 14 * m
  BY <1>1, <1>2, <1>4
<1>. QED
  BY <1>5, <1>6

\* The words of a file of n points.
PointWords(c, n) ==
  /\ n \in Nat /\ Len(c) = 6 + 14 * n
  /\ c[1] = "lbrace" /\ c[2] = "points" /\ c[3] = "colon" /\ c[4] = "lsqbracket" /\ c[Len(c) - 1] = "rsqbracket"
  /\ \A i \in 1 .. n : /\ c[14 * i - 9] = "lbrace" /\ c[14 * i + 4] = "rbrace"
                       /\ {Name(c, i, k) : k \in 1 .. 4} = Coordinates
                       /\ \A k \in 1 .. 4 : Value(c, i, k) = "number"

\* A tree that says them has the points, with nothing before, between or after.
PointsRead(h, r, c, n) ==
  LET a == h[r].kids[1]
  IN  /\ HasArray(h, r, a) /\ a \in DOMAIN h /\ Len(h[a].kids) = n
      /\ \A i \in 1 .. n : h[a].kids[i] \in DOMAIN h /\ PointAt(h, h[a].kids[i], c, 14 * i - 10)

\* The array begins where it should.
LEMMA ArrayIsRead ==
  ASSUME NEW h, Shaped(h), NEW W, Written("tokens", h, W), NEW r, r \in DOMAIN h, h[r].kind \in EntityKinds,
         NEW c \in Seq(Words), c = W[r], NEW n, PointWords(c, n), NEW a, a = h[r].kids[1]
  PROVE  /\ h[r].kind = "object" /\ h[h[r].names[1]].val = "points"
         /\ a \in DOMAIN h /\ h[a].kind = "array" /\ At(c, 3, W[a]) /\ Len(W[a]) \in Nat
         /\ 1 <= Len(h[r].kids) /\ (Len(h[r].kids) > 1 => Len(W[a]) + 4 < Len(c))
<1>1. At(c, 0, W[r]) /\ "tokens" # "numbers" /\ 0 \in Nat
  BY SelfLies
<1>2. c[0 + 1] = "lbrace" /\ c[2] = "points" /\ c[3 + 1] = "lsqbracket" /\ Len(c) \in Nat
  BY DEF PointWords
<1>3. h[r].kind = "object"
  <2>1. Begins(h, W, r, c, 0)
    BY <1>1, EntityLies
  <2>. QED
    BY <1>2, <2>1 DEF Begins
<1>4. h[r].kind \in Kinds
  BY <1>3 DEF Kinds
<1>5. PICK L : Laid("tokens", h, W, r, c, 0, L)
  BY <1>1, <1>4, ListLies
<1>. DEFINE m == Len(h[r].kids)
<1>6. /\ L[0] = 0 /\ m \in Nat /\ c[0 + L[m] + 2] = "rbrace" /\ Len(c) = L[m] + 2
  BY <1>3, <1>5 DEF Laid, Closer
<1>7. "rbrace" \notin Strings /\ "points" \in Strings
  BY StringsAssumption, NamesAssumption DEF Symbols
<1>8. 1 <= m
  <2>1. SUFFICES ASSUME m = 0 PROVE FALSE
    BY <1>6
  <2>2. 0 + L[m] + 2 = 2
    BY <1>6, <2>1
  <2>. QED
    BY <1>2, <1>6, <1>7, <2>2
<1>9. FieldFacts(h, W, r, 1, c, 0, L)
  <2>1. 1 \in 1 .. Len(h[r].kids)
    BY <1>6, <1>8
  <2>. QED
    BY <1>1, <1>3, <1>5, <2>1, FieldLies
<1>10. FieldAt(h, W, r, 1, c, 1) /\ L[1] = 2 + Len(W[a])
  <2>1. L[1 - 1] = 0 /\ 0 + 1 + L[1 - 1] = 1
    BY <1>6
  <2>2. FieldAt(h, W, r, 1, c, 0 + 1 + L[1 - 1]) /\ L[1] = L[1 - 1] + 2 + Len(W[h[r].kids[1]])
    BY <1>9 DEF FieldFacts
  <2>3. Len(W[h[r].kids[1]]) \in Nat
    BY <2>2 DEF FieldAt
  <2>. QED
    BY <2>1, <2>2, <2>3
<1>11. /\ a \in DOMAIN h /\ h[a].kind \in EntityKinds /\ h[h[r].names[1]].val = c[1 + 1] /\ At(c, 1 + 2, W[a])
       /\ Len(W[a]) \in Nat
  BY <1>10 DEF FieldAt
<1>12. At(c, 3, W[a]) /\ 3 \in Nat
  BY <1>11
<1>13. h[a].kind = "array"
  <2>1. Begins(h, W, a, c, 3)
    BY <1>11, <1>12, EntityLies
  <2>. QED
    BY <1>2, <2>1 DEF Begins
<1>14. m > 1 => Len(W[a]) + 4 < Len(c)
  <2>1. SUFFICES ASSUME 2 <= m PROVE Len(W[a]) + 4 < Len(c)
    BY <1>6
  <2>2. FieldFacts(h, W, r, 2, c, 0, L)
    <3>1. 2 \in 1 .. Len(h[r].kids)
      BY <1>6, <2>1
    <3>. QED
      BY <1>1, <1>3, <1>5, <3>1, FieldLies
  <2>3. At(c, 0 + 1 + L[2 - 1] + 2, W[h[r].kids[2]]) /\ Len(W[h[r].kids[2]]) \in Nat
    BY <2>2 DEF FieldFacts, FieldAt
  <2>4. 0 + 1 + L[2 - 1] + 2 + Len(W[h[r].kids[2]]) <= Len(c)
    BY <2>3 DEF At
  <2>. DEFINE u == Len(W[a])
              w == Len(W[h[r].kids[2]])
  <2>. HIDE DEF u, w
  <2>5. u \in Nat /\ w \in Nat /\ L[1] = 2 + u /\ 1 + L[1] + 2 + w <= Len(c)
    <3>1. u \in Nat /\ w \in Nat /\ L[1] = 2 + u
      BY <1>10, <1>11, <2>3 DEF u, w
    <3>2. 0 + 1 + L[2 - 1] + 2 + w <= Len(c) /\ 2 - 1 = 1
      BY <2>4 DEF w
    <3>. QED
      BY <3>1, <3>2
  <2>6. u + 4 < Len(c)
    BY <1>2, <2>5
  <2>. QED
    BY <2>6 DEF u
<1>. QED
  BY <1>2, <1>3, <1>8, <1>11, <1>12, <1>13, <1>14

LEMMA PointsAreRead ==
  ASSUME NEW h, Shaped(h), NEW W, Written("tokens", h, W), NEW r, r \in DOMAIN h, h[r].kind \in EntityKinds,
         NEW c \in Seq(Words), c = W[r], NEW n, PointWords(c, n)
  PROVE  PointsRead(h, r, c, n)
<1>. DEFINE a == h[r].kids[1]
            m == Len(h[a].kids)
<1>1. /\ h[r].kind = "object" /\ h[h[r].names[1]].val = "points"
      /\ a \in DOMAIN h /\ h[a].kind = "array" /\ At(c, 3, W[a]) /\ Len(W[a]) \in Nat
      /\ 1 <= Len(h[r].kids) /\ (Len(h[r].kids) > 1 => Len(W[a]) + 4 < Len(c))
  BY ArrayIsRead
<1>2. h[a].kind \in Kinds /\ "tokens" # "numbers" /\ 3 \in Nat
  BY <1>1 DEF Kinds
<1>3. PICK M : Laid("tokens", h, W, a, c, 3, M)
  BY <1>1, <1>2, ListLies
<1>4. /\ M[0] = 0 /\ m \in Nat /\ M[m] \in Nat /\ c[3 + M[m] + 2] = "rsqbracket" /\ Len(W[a]) = M[m] + 2
  BY <1>1, <1>3 DEF Laid, Closer
<1>5. n \in Nat /\ Len(c) = 6 + 14 * n
  BY Zenon DEF PointWords
<1>6. ASSUME NEW i \in 1 .. m, NEW p \in Nat, p = 4 + M[i - 1]
      PROVE  /\ h[a].kids[i] \in DOMAIN h /\ h[h[a].kids[i]].kind \in EntityKinds
             /\ At(c, p, W[h[a].kids[i]]) /\ M[i] = M[i - 1] + Len(W[h[a].kids[i]])
  <2>1. ElementFacts(h, W, a, i, c, 3, M)
    BY <1>1, <1>2, <1>3, ElementLies
  <2>2. p = 3 + 1 + M[i - 1]
    BY ONLY <1>6
  <2>. QED
    BY <2>1, <2>2 DEF ElementFacts, ElementAt
<1>. HIDE DEF m
<1>7. ASSUME NEW i \in 1 .. n, i - 1 <= m, M[i - 1] = 14 * (i - 1)
      PROVE  i <= m /\ M[i] = 14 * i /\ h[a].kids[i] \in DOMAIN h /\ PointAt(h, h[a].kids[i], c, 14 * i - 10)
  <2>. DEFINE d == h[a].kids[i]
              p == 14 * i - 10
  <2>1. /\ c[14 * i - 9] = "lbrace" /\ c[14 * i + 4] = "rbrace"
        /\ \A k \in 1 .. 4 : Name(c, i, k) \in Coordinates
        /\ \A k \in 1 .. 4 : Value(c, i, k) = "number"
    BY DEF PointWords
  <2>2. i \in Nat /\ p \in Nat /\ p = 4 + M[i - 1] /\ p + 1 = 14 * i - 9 /\ p + 14 = 14 * i + 4
    BY <1>5, <1>7
  <2>3. i <= m
    <3>1. SUFFICES ASSUME m = i - 1 PROVE FALSE
      BY <1>4, <1>7, <2>2
    <3>2. 3 + M[m] + 2 = 14 * i - 9
      BY <1>7, <2>2, <3>1
    <3>. QED
      BY <1>4, <2>1, <3>2
  <2>4. i \in 1 .. m
    BY <1>4, <2>2, <2>3
  <2>5. /\ d \in DOMAIN h /\ h[d].kind \in EntityKinds
        /\ At(c, p, W[d]) /\ M[i] = M[i - 1] + Len(W[d])
    BY <1>6, <2>2, <2>4
  <2>6. \A k \in 1 .. 4 : p + 3 * k - 1 = 14 * i + 3 * k - 11 /\ p + 3 * k + 1 = 14 * i + 3 * k - 9
    BY <2>2
  <2>7. \A k \in 1 .. 4 : c[p + 3 * k - 1] \in Coordinates /\ c[p + 3 * k + 1] = "number"
    BY <2>1, <2>6 DEF Name, Value
  <2>8. c[p + 1] = "lbrace" /\ c[p + 14] = "rbrace"
    BY <2>1, <2>2
  <2>. HIDE DEF d, p
  <2>9. PointLies(h, W, d, c, p)
    BY <2>2, <2>5, <2>7, <2>8, PointIsRead
  <2>10. M[i] = 14 * (i - 1) + 14
    BY <1>7, <2>5, <2>9 DEF PointLies
  <2>11. M[i] = 14 * i
    BY <2>2, <2>10
  <2>. QED
    BY <2>3, <2>5, <2>9, <2>11 DEF d, p, PointLies
<1>8. \A i \in 0 .. n : i <= m /\ M[i] = 14 * i
  <2>. DEFINE T == {i \in 0 .. n : i <= m /\ M[i] = 14 * i}
  <2>1. 0 \in T /\ \A i \in 1 .. n : i - 1 \in T => i \in T
    <3>1. 0 \in T
      BY <1>4, <1>5
    <3>2. ASSUME NEW i \in 1 .. n, i - 1 \in T PROVE i \in T
      <4>1. i - 1 <= m /\ M[i - 1] = 14 * (i - 1) /\ i \in 0 .. n
        BY <1>5, <3>2
      <4>2. i <= m /\ M[i] = 14 * i
        BY <1>7, <4>1
      <4>. QED
        BY <4>1, <4>2
    <3>. QED
      BY <3>1, <3>2
  <2>2. \A i \in 0 .. n : i \in T
    <3>. HIDE DEF T
    <3>. QED
      BY <1>5, <2>1, UpTo
  <2>. QED
    BY <2>2
<1>9. n <= m /\ M[n] = 14 * n
  BY <1>5, <1>8
<1>10. m = n
  <2>1. SUFFICES ASSUME n + 1 <= m PROVE FALSE
    BY <1>4, <1>5, <1>9
  <2>a. n \in Nat /\ m \in Nat /\ M[n] = 14 * n
    BY <1>4, <1>5, <1>9
  <2>2. n + 1 \in 1 .. m /\ 4 + 14 * n \in Nat /\ M[(n + 1) - 1] = 14 * n
    BY ONLY <2>1, <2>a
  <2>. DEFINE d == h[a].kids[n + 1]
              p == 4 + 14 * n
  <2>3. d \in DOMAIN h /\ h[d].kind \in EntityKinds /\ At(c, p, W[d])
    BY <1>6, <2>2
  <2>4. c[p + 1] = "rsqbracket"
    <3>1. p + 1 = Len(c) - 1
      BY <1>5
    <3>. QED
      BY <3>1 DEF PointWords
  <2>. HIDE DEF d
  <2>5. Begins(h, W, d, c, p)
    BY <2>2, <2>3, EntityLies
  <2>. QED
    BY <2>4, <2>5 DEF Begins
<1>11. Len(h[r].kids) = 1
  <2>. DEFINE x == Len(h[r].kids)
  <2>1. Len(W[a]) + 4 = Len(c)
    BY <1>4, <1>5, <1>9, <1>10
  <2>2. ~(x > 1) /\ 1 <= x
    BY <1>1, <1>5, <2>1
  <2>3. x \in Nat
    <3>1. ShapeOf(h, r)
      BY DEF Shaped
    <3>2. h[r].kids \in Seq(Nat \ {0})
      BY <3>1 DEF ShapeOf
    <3>. QED
      BY <3>2
  <2>. HIDE DEF x
  <2>4. x = 1
    BY <2>2, <2>3
  <2>. QED
    BY <2>4 DEF x
<1>12. \A i \in 1 .. n : h[a].kids[i] \in DOMAIN h /\ PointAt(h, h[a].kids[i], c, 14 * i - 10)
  BY <1>5, <1>7, <1>8
<1>13. HasArray(h, r, a)
  BY <1>1, <1>11 DEF HasArray
<1>. QED
  BY <1>1, <1>10, <1>12, <1>13 DEF PointsRead, m

(***************************************************************************)
(* Points by their names.                                                  *)
(***************************************************************************)
LEMMA MinIs ==
  ASSUME NEW S \in SUBSET Nat, S # {}
  PROVE  Min(S) \in S /\ \A y \in S : Min(S) <= y
<1>1. \E x \in S : \A y \in S : x <= y
  BY LeastNatural
<1>. QED
  BY <1>1, Zenon DEF Min

\* Four names among which are the four coordinates are these, each once.
LEMMA FourFound ==
  ASSUME NEW v, \A n \in Coordinates : \E k \in 1 .. 4 : v[k] = n
  PROVE  {v[k] : k \in 1 .. 4} = Coordinates /\ \A j \in 1 .. 4, k \in 1 .. 4 : v[j] = v[k] => j = k
<1>1. "x0" \in Coordinates /\ "y0" \in Coordinates /\ "x1" \in Coordinates /\ "y1" \in Coordinates
  BY DEF Coordinates
<1>2. PICK k1 \in 1 .. 4 : v[k1] = "x0"
  BY <1>1
<1>3. PICK k2 \in 1 .. 4 : v[k2] = "y0"
  BY <1>1
<1>4. PICK k3 \in 1 .. 4 : v[k3] = "x1"
  BY <1>1
<1>5. PICK k4 \in 1 .. 4 : v[k4] = "y1"
  BY <1>1
<1>6. k1 # k2 /\ k1 # k3 /\ k1 # k4 /\ k2 # k3 /\ k2 # k4 /\ k3 # k4
  BY <1>2, <1>3, <1>4, <1>5
<1>7. \A k \in 1 .. 4 : k \in {k1, k2, k3, k4}
  BY <1>6
<1>8. {v[k] : k \in 1 .. 4} = Coordinates
  BY <1>2, <1>3, <1>4, <1>5, <1>7 DEF Coordinates
<1>9. \A j \in 1 .. 4, k \in 1 .. 4 : v[j] = v[k] => j = k
  BY <1>2, <1>3, <1>4, <1>5, <1>7
<1>. QED
  BY <1>8, <1>9

\* json_object_query finds what has the name, the first of it.
Called(e, i) == heap[heap[e].names[i]].val

LEMMA QueryIs ==
  ASSUME Shaped(heap), NEW e, e \in DOMAIN heap, heap[e].kind = "object", NEW n
  PROVE  LET d == json_object_query(e, n)
         IN  /\ d # Null => \E i \in 1 .. Len(heap[e].kids) : Called(e, i) = n /\ d = heap[e].kids[i]
             /\ (\E i \in 1 .. Len(heap[e].kids) : Called(e, i) = n) => d # Null
<1>. DEFINE named == {i \in DOMAIN heap[e].names : heap[heap[e].names[i]].val = n}
            m == Len(heap[e].kids)
            d == json_object_query(e, n)
<1>1. /\ DOMAIN heap[e].names = 1 .. m /\ m \in Nat
      /\ \A i \in 1 .. m : heap[e].kids[i] # Null
  <2>1. ShapeOf(heap, e)
    BY DEF Shaped
  <2>2. /\ heap[e].names \in Seq(Nat \ {0}) /\ heap[e].kids \in Seq(Nat \ {0}) /\ Len(heap[e].names) = m
    BY <2>1 DEF ShapeOf
  <2>. QED
    BY <2>2 DEF Null
<1>2. d = IF named = {} THEN Null ELSE heap[e].kids[Min(named)]
  BY DEF json_object_query
<1>3. named \in SUBSET Nat /\ \A i : i \in named <=> i \in 1 .. m /\ Called(e, i) = n
  BY <1>1 DEF Called
<1>. HIDE DEF named, m, d
<1>4. d # Null => \E i \in 1 .. m : Called(e, i) = n /\ d = heap[e].kids[i]
  <2>1. SUFFICES ASSUME d # Null PROVE \E i \in 1 .. m : Called(e, i) = n /\ d = heap[e].kids[i]
    OBVIOUS
  <2>2. named # {} /\ d = heap[e].kids[Min(named)]
    BY <1>2, <2>1
  <2>3. Min(named) \in named
    BY <1>3, <2>2, MinIs
  <2>. QED
    BY <1>3, <2>2, <2>3
<1>5. (\E i \in 1 .. m : Called(e, i) = n) => d # Null
  <2>1. SUFFICES ASSUME NEW i \in 1 .. m, Called(e, i) = n PROVE d # Null
    OBVIOUS
  <2>2. named # {} /\ d = heap[e].kids[Min(named)]
    BY <1>2, <1>3, <2>1
  <2>3. Min(named) \in 1 .. m
    BY <1>3, <2>2, MinIs
  <2>. QED
    BY <1>1, <2>2, <2>3
<1>. QED
  BY <1>4, <1>5 DEF m, d

NamesOf(e) == {Called(e, k) : k \in 1 .. 4}

\* read_f64 finds the four numbers exactly if there are no others.
LEMMA PointHasNames ==
  ASSUME Shaped(heap), NEW e, e \in DOMAIN heap, IsPoint(e)
  PROVE  FourNumbers(heap, e) /\ NamesOf(e) = Coordinates
<1>1. heap[e].kind = "object" /\ Len(heap[e].kids) = 4 /\ \A n \in Coordinates : HasNumber(e, n)
  BY DEF IsPoint
<1>. DEFINE v == [k \in 1 .. 4 |-> Called(e, k)]
<1>2. ASSUME NEW n \in Coordinates
      PROVE  \E k \in 1 .. 4 : v[k] = n /\ heap[heap[e].kids[k]].kind = "number"
  <2>. DEFINE d == json_object_query(e, n)
  <2>1. d # Null /\ heap[d].kind = "number"
    BY <1>1 DEF HasNumber
  <2>2. \E i \in 1 .. Len(heap[e].kids) : Called(e, i) = n /\ d = heap[e].kids[i]
    BY <1>1, <2>1, QueryIs
  <2>. QED
    BY <1>1, <2>1, <2>2
<1>3. {v[k] : k \in 1 .. 4} = Coordinates /\ \A j \in 1 .. 4, k \in 1 .. 4 : v[j] = v[k] => j = k
  <2>1. \A n \in Coordinates : \E k \in 1 .. 4 : v[k] = n
    BY <1>2
  <2>. HIDE DEF v
  <2>. QED
    BY <2>1, FourFound
<1>4. NamesOf(e) = Coordinates
  BY <1>3 DEF NamesOf
<1>5. ASSUME NEW k \in 1 .. 4 PROVE heap[heap[e].kids[k]].kind = "number"
  <2>1. v[k] \in Coordinates
    BY <1>3
  <2>2. PICK j \in 1 .. 4 : v[j] = v[k] /\ heap[heap[e].kids[j]].kind = "number"
    BY <1>2, <2>1
  <2>. QED
    BY <1>3, <2>2
<1>. QED
  BY <1>1, <1>4, <1>5 DEF FourNumbers

LEMMA NamesMakePoint ==
  ASSUME Shaped(heap), NEW e, e \in DOMAIN heap, FourNumbers(heap, e), NamesOf(e) = Coordinates
  PROVE  IsPoint(e) /\ \A k \in 1 .. 4 : json_object_query(e, Called(e, k)) = heap[e].kids[k]
<1>1. heap[e].kind = "object" /\ Len(heap[e].kids) = 4 /\ \A k \in 1 .. 4 : heap[heap[e].kids[k]].kind = "number"
  BY DEF FourNumbers
<1>2. ASSUME NEW n \in Coordinates
      PROVE  \E k \in 1 .. 4 : Called(e, k) = n /\ json_object_query(e, n) = heap[e].kids[k] /\ HasNumber(e, n)
  <2>. DEFINE d == json_object_query(e, n)
  <2>1. \E k \in 1 .. 4 : Called(e, k) = n
    BY DEF NamesOf
  <2>2. d # Null
    BY <1>1, <2>1, QueryIs
  <2>3. PICK k \in 1 .. 4 : Called(e, k) = n /\ d = heap[e].kids[k]
    BY <1>1, <2>2, QueryIs
  <2>. QED
    BY <1>1, <2>2, <2>3 DEF HasNumber
<1>. DEFINE v == [k \in 1 .. 4 |-> Called(e, k)]
<1>3. \A j \in 1 .. 4, k \in 1 .. 4 : v[j] = v[k] => j = k
  <2>1. \A n \in Coordinates : \E k \in 1 .. 4 : v[k] = n
    BY <1>2
  <2>. HIDE DEF v
  <2>. QED
    BY <2>1, FourFound
<1>4. \A k \in 1 .. 4 : json_object_query(e, Called(e, k)) = heap[e].kids[k]
  <2>1. SUFFICES ASSUME NEW k \in 1 .. 4 PROVE json_object_query(e, Called(e, k)) = heap[e].kids[k]
    OBVIOUS
  <2>2. Called(e, k) \in Coordinates
    BY DEF NamesOf
  <2>3. PICK j \in 1 .. 4 : Called(e, j) = Called(e, k) /\ json_object_query(e, Called(e, k)) = heap[e].kids[j]
    BY <1>2, <2>2
  <2>4. j = k
    BY <1>3, <2>3
  <2>. QED
    BY <2>3, <2>4
<1>. QED
  BY <1>1, <1>2, <1>4 DEF IsPoint

(***************************************************************************)
(* The numbers of the file, in the order in which the tree has them.       *)
(***************************************************************************)
LEMMA CountStep ==
  ASSUME NEW r, NEW n \in Nat, NEW m, m = n + 1
  PROVE  /\ CountTo(r, 0) = 0 /\ CountTo(r, n) \in Nat
         /\ CountTo(r, m) = IF r[m] = "number" THEN CountTo(r, n) + 1 ELSE CountTo(r, n)
<1>. DEFINE S(k) == {j \in 1 .. k : r[j] = "number"}
<1>1. S(0) = {} /\ CountTo(r, 0) = 0
  <2>1. S(0) = {}
    OBVIOUS
  <2>. QED
    BY <2>1, FS_EmptySet DEF CountTo
<1>2. IsFiniteSet(S(n)) /\ CountTo(r, n) \in Nat
  <2>1. IsFiniteSet(1 .. n) /\ S(n) \subseteq 1 .. n
    BY FS_Interval
  <2>2. IsFiniteSet(S(n))
    BY <2>1, FS_Subset
  <2>. QED
    BY <2>2, FS_CardinalityType DEF CountTo
<1>3. S(m) = IF r[m] = "number" THEN S(n) \cup {m} ELSE S(n)
  OBVIOUS
<1>4. m \notin S(n)
  OBVIOUS
<1>5. CountTo(r, m) = Cardinality(S(m)) /\ CountTo(r, n) = Cardinality(S(n))
  BY DEF CountTo
<1>. HIDE DEF S
<1>6. Cardinality(S(n) \cup {m}) = Cardinality(S(n)) + 1
  BY <1>2, <1>4, FS_AddElement
<1>. QED
  BY <1>1, <1>2, <1>3, <1>5, <1>6

\* The n-th number of the file is n.
LEMMA SaidNumbers ==
  ASSUME NEW r \in Seq(Tokens), NEW c, c = Said("numbers", r)
  PROVE  c \in Seq(Words) /\ \A j \in 1 .. Len(c) : c[j] = j
<1>. DEFINE n == Len(r)
            q == [i \in 1 .. n |-> SaidAt("numbers", r, i)]
            F(k) == FlatTo(q, k)
            T == {k \in 0 .. n : Len(F(k)) = CountTo(r, k) /\ \A j \in 1 .. Len(F(k)) : F(k)[j] = j}
<1>1. n \in Nat /\ \A i \in 1 .. n : q[i] \in Seq(Words) /\ q[i] = SaidAt("numbers", r, i)
  BY SaidAtIs
<1>2. c = F(n)
  BY DEF Said, SaidTo
<1>. HIDE DEF q, n
<1>3. /\ FlatTo(q, 0) = <<>>
      /\ \A k \in 0 .. n : FlatTo(q, k) \in Seq(Words)
      /\ \A k \in 1 .. n : FlatTo(q, k) = FlatTo(q, k - 1) \o q[k]
  BY <1>1, FlatToIs
<1>. HIDE DEF F
<1>4. F(0) = <<>> /\ (\A k \in 0 .. n : F(k) \in Seq(Words)) /\ \A k \in 1 .. n : F(k) = F(k - 1) \o q[k]
  BY <1>3 DEF F
<1>5. 0 \in T
  <2>1. Len(F(0)) = 0 /\ CountTo(r, 0) = 0
    BY <1>4, CountStep
  <2>. QED
    BY <1>1, <2>1
<1>6. ASSUME NEW k \in 1 .. n, k - 1 \in T PROVE k \in T
  <2>1. k - 1 \in Nat /\ k = (k - 1) + 1 /\ k - 1 \in 0 .. n /\ k \in 0 .. n
    BY <1>1
  <2>2. /\ CountTo(r, k - 1) \in Nat
        /\ CountTo(r, k) = IF r[k] = "number" THEN CountTo(r, k - 1) + 1 ELSE CountTo(r, k - 1)
    BY <2>1, CountStep
  <2>3. Len(F(k - 1)) = CountTo(r, k - 1) /\ \A j \in 1 .. Len(F(k - 1)) : F(k - 1)[j] = j
    BY <1>6
  <2>4. F(k - 1) \in Seq(Words) /\ F(k) = F(k - 1) \o q[k]
    BY <1>4, <2>1
  <2>5. q[k] = IF r[k] = "number" THEN <<CountTo(r, k)>> ELSE <<>>
    BY <1>1 DEF SaidAt
  <2>6. CASE r[k] = "number"
    <3>. DEFINE x == CountTo(r, k)
                g == F(k - 1)
    <3>1. x = Len(g) + 1 /\ x \in Words
      BY <2>2, <2>3, <2>6 DEF Words
    <3>2. <<x>> \in Seq(Words) /\ Len(<<x>>) = 1 /\ <<x>>[1] = x
      BY <3>1
    <3>3. F(k) = g \o <<x>>
      BY <2>4, <2>5, <2>6
    <3>. HIDE DEF x, g
    <3>4. g \in Seq(Words) /\ \A j \in 1 .. Len(g) : g[j] = j
      BY <2>3, <2>4 DEF g
    <3>5. Len(F(k)) = x /\ \A j \in 1 .. x : F(k)[j] = j
      BY <3>1, <3>2, <3>3, <3>4
    <3>. QED
      BY <2>1, <3>5 DEF x
  <2>7. CASE r[k] # "number"
    <3>1. F(k) = F(k - 1)
      BY <2>4, <2>5, <2>7, ConcatEmpty
    <3>. QED
      BY <2>1, <2>2, <2>3, <2>7, <3>1
  <2>. QED
    BY <2>6, <2>7
<1>7. n \in T
  <2>. HIDE DEF T
  <2>1. \A i \in 0 .. n : i \in T
    BY <1>1, <1>5, <1>6, UpTo
  <2>. QED
    BY <1>1, <2>1
<1>. QED
  BY <1>1, <1>2, <1>4, <1>7

\* A list says the numbers its items say, one after the other.
NumbersLaid(h, V, e, c, p, L) ==
  LET n == Len(h[e].kids)
  IN  /\ n \in Nat /\ L[0] = 0 /\ Len(V[e]) = L[n]
      /\ \A i \in 1 .. n : /\ h[e].kids[i] \in DOMAIN h /\ Len(V[h[e].kids[i]]) \in Nat
                           /\ L[i - 1] \in Nat /\ L[i] = L[i - 1] + Len(V[h[e].kids[i]])
                           /\ At(c, p + L[i - 1], V[h[e].kids[i]])

LEMMA NumbersLie ==
  ASSUME NEW h, Shaped(h), NEW V, Written("numbers", h, V), NEW e, e \in DOMAIN h, h[e].kind \in Kinds,
         NEW c \in Seq(Words), NEW p \in Nat, At(c, p, V[e])
  PROVE  \E L : NumbersLaid(h, V, e, c, p, L)
<1>. DEFINE n == Len(h[e].kids)
            q == [i \in 1 .. n |-> ItemOf("numbers", h, V, e, i)]
            L == [i \in 0 .. n |-> Len(FlatTo(q, i))]
<1>1. ShapeOf(h, e)
  BY DEF Shaped
<1>2. n \in Nat /\ \A i \in 1 .. n : h[e].kids[i] \in DOMAIN h /\ V[h[e].kids[i]] \in Seq(Words)
  <2>1. h[e].kids \in Seq(Nat \ {0}) /\ \A i \in 1 .. n : h[e].kids[i] \in DOMAIN h
    BY <1>1 DEF ShapeOf
  <2>. QED
    BY <2>1 DEF Written
<1>3. ASSUME NEW i \in 1 .. n PROVE q[i] = V[h[e].kids[i]]
  <2>. DEFINE w == V[h[e].kids[i]]
  <2>1. w \in Seq(Words) /\ <<>> \o <<>> = <<>>
    BY <1>2, ConcatEmpty
  <2>2. q[i] = FieldOf("numbers", h, e, i) \o w \o Sep("numbers") /\ Sep("numbers") = <<>>
    BY DEF ItemOf, Sep
  <2>3. FieldOf("numbers", h, e, i) = <<>>
    BY <2>1 DEF FieldOf, NameOf, Mark
  <2>. HIDE DEF w, q
  <2>4. (<<>> \o w) \o <<>> = w
    BY <2>1, ConcatEmpty
  <2>5. q[i] = w
    BY <2>2, <2>3, <2>4
  <2>. QED
    BY <2>5 DEF w
<1>4. V[e] = FlatTo(q, n)
  <2>1. V[e] = ListWord("numbers", h, V, e)
    BY DEF Written, WordOf
  <2>2. V[e] = <<>> \o ItemsOf("numbers", h, V, e) \o <<>>
    BY <2>1 DEF ListWord, Mark
  <2>3. ItemsOf("numbers", h, V, e) = FlatTo(q, n)
    BY Zenon DEF ItemsOf
  <2>4. ItemsOf("numbers", h, V, e) \in Seq(Words)
    BY <1>2, ItemsOfIs
  <2>5. (<<>> \o ItemsOf("numbers", h, V, e)) \o <<>> = ItemsOf("numbers", h, V, e)
    BY <2>4, ConcatEmpty
  <2>. QED
    BY <2>2, <2>3, <2>5
<1>5. \A i \in 1 .. n : q[i] \in Seq(Words)
  BY <1>2, <1>3
<1>. HIDE DEF q
<1>6. At(c, p, FlatTo(q, n))
  BY <1>4
<1>7. /\ FlatTo(q, 0) = <<>> /\ Len(FlatTo(q, 0)) = 0
      /\ \A i \in 1 .. n : /\ Len(FlatTo(q, i - 1)) \in Nat
                           /\ Len(FlatTo(q, i)) = Len(FlatTo(q, i - 1)) + Len(q[i])
                           /\ At(c, p + Len(FlatTo(q, i - 1)), q[i])
  BY <1>2, <1>5, <1>6, FlatLies
<1>8. /\ L[0] = 0 /\ Len(V[e]) = L[n]
      /\ \A i \in 1 .. n : L[i - 1] = Len(FlatTo(q, i - 1)) /\ L[i] = Len(FlatTo(q, i))
  BY <1>2, <1>4, <1>7
<1>. HIDE DEF L, n
<1>9. \A i \in 1 .. n : /\ h[e].kids[i] \in DOMAIN h /\ Len(V[h[e].kids[i]]) \in Nat
                        /\ L[i - 1] \in Nat /\ L[i] = L[i - 1] + Len(V[h[e].kids[i]])
                        /\ At(c, p + L[i - 1], V[h[e].kids[i]])
  <2>1. SUFFICES ASSUME NEW i \in 1 .. n
                 PROVE  /\ h[e].kids[i] \in DOMAIN h /\ Len(V[h[e].kids[i]]) \in Nat
                        /\ L[i - 1] \in Nat /\ L[i] = L[i - 1] + Len(V[h[e].kids[i]])
                        /\ At(c, p + L[i - 1], V[h[e].kids[i]])
    OBVIOUS
  <2>. DEFINE d == h[e].kids[i]
              w == V[d]
  <2>2. d \in DOMAIN h /\ w \in Seq(Words) /\ Len(w) \in Nat
    BY <1>2
  <2>3. q[i] = w
    BY <1>3
  <2>. HIDE DEF d, w
  <2>4. L[i - 1] \in Nat /\ L[i] = L[i - 1] + Len(w) /\ At(c, p + L[i - 1], w)
    BY <1>7, <1>8, <2>3
  <2>. QED
    BY <2>2, <2>4 DEF d, w
<1>10. NumbersLaid(h, V, e, c, p, L)
  BY <1>2, <1>8, <1>9 DEF NumbersLaid, n
<1>. QED
  BY <1>10

\* The numbers of a point.
FourFrom(h, V, e, c, p) ==
  /\ Len(V[e]) = 4 /\ p + 4 <= Len(c)
  /\ \A k \in 1 .. 4 : c[p + k] = h[h[e].kids[k]].val

LEMMA PointNumbers ==
  ASSUME NEW h, Shaped(h), NEW V, Written("numbers", h, V), NEW e, e \in DOMAIN h, FourNumbers(h, e),
         NEW c \in Seq(Words), NEW p \in Nat, At(c, p, V[e])
  PROVE  FourFrom(h, V, e, c, p)
<1>1. h[e].kind \in Kinds /\ Len(h[e].kids) = 4 /\ \A k \in 1 .. 4 : h[h[e].kids[k]].kind = "number"
  BY DEF FourNumbers, Kinds
<1>2. PICK L : NumbersLaid(h, V, e, c, p, L)
  BY <1>1, NumbersLie
<1>3. L[0] = 0 /\ Len(V[e]) = L[4]
  BY <1>1, <1>2 DEF NumbersLaid
<1>4. ASSUME NEW k \in 1 .. 4
      PROVE  L[k - 1] \in Nat /\ L[k] = L[k - 1] + 1 /\ c[p + L[k - 1] + 1] = h[h[e].kids[k]].val
  <2>. DEFINE d == h[e].kids[k]
  <2>1. /\ d \in DOMAIN h /\ L[k - 1] \in Nat /\ L[k] = L[k - 1] + Len(V[d]) /\ At(c, p + L[k - 1], V[d])
    BY <1>1, <1>2 DEF NumbersLaid
  <2>2. V[d] = <<h[d].val>>
    <3>1. V[d] = WordOf("numbers", h, V, d) /\ h[d].kind = "number"
      BY <1>1, <2>1 DEF Written
    <3>. HIDE DEF d
    <3>. QED
      BY <3>1 DEF WordOf, LeafOf, Kinds
  <2>. HIDE DEF d
  <2>3. Len(V[d]) = 1 /\ V[d][1] = h[d].val
    BY <2>2
  <2>4. c[p + L[k - 1] + 1] = h[d].val
    BY <2>1, <2>3 DEF At
  <2>. QED
    BY <2>1, <2>3, <2>4 DEF d
<1>5. L[1] = 1 /\ L[2] = 2 /\ L[3] = 3 /\ L[4] = 4
  <2>1. L[1] = L[1 - 1] + 1 /\ L[2] = L[2 - 1] + 1 /\ L[3] = L[3 - 1] + 1 /\ L[4] = L[4 - 1] + 1
    BY <1>4
  <2>. QED
    BY <1>3, <2>1
<1>6. \A k \in 1 .. 4 : L[k - 1] = k - 1
  BY <1>3, <1>5
<1>7. \A k \in 1 .. 4 : p + L[k - 1] + 1 = p + k
  BY <1>6
<1>8. p + 4 <= Len(c)
  <2>1. p + Len(V[e]) <= Len(c)
    BY DEF At
  <2>. QED
    BY <1>3, <1>5, <2>1
<1>. QED
  BY <1>3, <1>4, <1>5, <1>7, <1>8 DEF FourFrom

\* Those of an array of points.
NumbersAre(h, a, c) ==
  \A i \in 1 .. Len(h[a].kids) : \A k \in 1 .. 4 :
    4 * (i - 1) + k \in 1 .. Len(c) /\ c[4 * (i - 1) + k] = h[h[h[a].kids[i]].kids[k]].val

LEMMA ArrayNumbers ==
  ASSUME NEW h, Shaped(h), NEW V, Written("numbers", h, V), NEW r, r \in DOMAIN h, NEW a, HasArray(h, r, a),
         \A i \in 1 .. Len(h[a].kids) : FourNumbers(h, h[a].kids[i]), NEW c \in Seq(Words), c = V[r]
  PROVE  NumbersAre(h, a, c)
<1>. DEFINE m == Len(h[a].kids)
<1>1. At(c, 0, V[r]) /\ h[r].kind \in Kinds /\ 0 \in Nat /\ h[a].kind \in Kinds
  BY SelfLies DEF HasArray, Kinds
<1>2. PICK L : NumbersLaid(h, V, r, c, 0, L)
  BY <1>1, NumbersLie
<1>3. a \in DOMAIN h /\ At(c, 0, V[a])
  BY <1>2 DEF NumbersLaid, HasArray
<1>4. PICK M : NumbersLaid(h, V, a, c, 0, M)
  BY <1>1, <1>3, NumbersLie
<1>5. m \in Nat /\ M[0] = 0
  BY <1>4, Zenon DEF NumbersLaid
<1>6. ASSUME NEW i \in 1 .. m, M[i - 1] = 4 * (i - 1)
      PROVE  /\ M[i] = 4 * i
             /\ \A k \in 1 .. 4 : 4 * (i - 1) + k \in 1 .. Len(c) /\ c[4 * (i - 1) + k] = h[h[h[a].kids[i]].kids[k]].val
  <2>. DEFINE d == h[a].kids[i]
              p == 4 * (i - 1)
  <2>1. /\ d \in DOMAIN h /\ M[i] = M[i - 1] + Len(V[d]) /\ At(c, 0 + M[i - 1], V[d]) /\ FourNumbers(h, d)
    BY <1>4 DEF NumbersLaid
  <2>2. i \in Nat /\ p \in Nat /\ 0 + M[i - 1] = p
    BY <1>5, <1>6
  <2>3. At(c, p, V[d])
    BY <2>1, <2>2
  <2>. HIDE DEF d, p
  <2>4. /\ Len(V[d]) = 4 /\ p + 4 <= Len(c)
        /\ \A k \in 1 .. 4 : c[p + k] = h[h[d].kids[k]].val
    <3>1. FourFrom(h, V, d, c, p)
      BY <2>1, <2>2, <2>3, PointNumbers
    <3>. QED
      BY <3>1, Zenon DEF FourFrom
  <2>5. M[i] = 4 * (i - 1) + 4
    BY <1>6, <2>1, <2>4
  <2>6. M[i] = 4 * i
    BY <2>2, <2>5
  <2>7. \A k \in 1 .. 4 : p + k \in 1 .. Len(c)
    BY <2>2, <2>4
  <2>. QED
    BY <2>4, <2>6, <2>7, Zenon DEF d, p
<1>7. \A i \in 0 .. m : M[i] = 4 * i
  <2>. DEFINE T == {i \in 0 .. m : M[i] = 4 * i}
  <2>1. 0 \in T /\ \A i \in 1 .. m : i - 1 \in T => i \in T
    BY <1>5, <1>6
  <2>2. \A i \in 0 .. m : i \in T
    <3>. HIDE DEF T, m
    <3>. QED
      BY <1>5, <2>1, UpTo
  <2>. QED
    BY <2>2, Zenon
<1>8. \A i \in 1 .. m : M[i - 1] = 4 * (i - 1)
  <2>1. \A i \in 1 .. m : i - 1 \in 0 .. m
    BY <1>5
  <2>. QED
    BY <1>7, <2>1
<1>. QED
  BY <1>6, <1>8 DEF NumbersAre

(***************************************************************************)
(* What setup finds in the tree, and what is in the file.                  *)
(***************************************************************************)
\* The parser has returned.
Parsed == Blocks /\ Reading /\ Telling /\ pc = "parsed"

\* The tree says the file, in both readings.
TreeSays(c, W, V) ==
  /\ Shaped(heap) /\ ret \in DOMAIN heap /\ heap[ret].kind = "object"
  /\ read \in Seq(Tokens) /\ IsDocument(read)
  /\ c \in Seq(Words) /\ c = WithoutCommas(read)
  /\ Written("tokens", heap, W) /\ W[ret] = c
  /\ Written("numbers", heap, V) /\ V[ret] = Said("numbers", read)

LEMMA FirstLies ==
  ASSUME NEW c \in Seq(Words), NEW n \in Nat, 1 <= n, NEW q, \A i \in 1 .. n : q[i] \in Seq(Words),
         NEW p \in Nat, At(c, p, FlatTo(q, n)), NEW x, q[1] = <<x>>
  PROVE  c[p + 1] = x
<1>1. /\ FlatTo(q, 0) = <<>> /\ Len(FlatTo(q, 0)) = 0
      /\ \A i \in 1 .. n : /\ Len(FlatTo(q, i - 1)) \in Nat
                           /\ Len(FlatTo(q, i)) = Len(FlatTo(q, i - 1)) + Len(q[i])
                           /\ At(c, p + Len(FlatTo(q, i - 1)), q[i])
  BY FlatLies
<1>2. Len(FlatTo(q, 0)) = 0 /\ At(c, p + Len(FlatTo(q, 0)), q[1])
  <2>1. 1 \in 1 .. n /\ 1 - 1 = 0
    OBVIOUS
  <2>2. At(c, p + Len(FlatTo(q, 1 - 1)), q[1])
    BY <1>1, <2>1
  <2>. QED
    BY <1>1, <2>1, <2>2
<1>3. p + Len(FlatTo(q, 0)) = p
  BY <1>2
<1>4. At(c, p, <<x>>) /\ Len(<<x>>) = 1 /\ <<x>>[1] = x
  BY <1>2, <1>3
<1>. QED
  BY <1>4 DEF At

LEMMA SaidFirst ==
  ASSUME NEW r \in Seq(Tokens), r # <<>>, r[1] = "lbrace", NEW c \in Seq(Words), c = Said("tokens", r)
  PROVE  c[1] = "lbrace"
<1>. DEFINE n == Len(r)
            q == [i \in 1 .. n |-> SaidAt("tokens", r, i)]
<1>1. n \in Nat /\ 1 <= n /\ \A i \in 1 .. n : q[i] \in Seq(Words)
  BY SaidAtIs
<1>2. c = FlatTo(q, n)
  BY DEF Said, SaidTo
<1>3. q[1] = <<"lbrace">>
  BY <1>1 DEF SaidAt
<1>. HIDE DEF q, n
<1>4. At(c, 0, FlatTo(q, n)) /\ 0 \in Nat
  BY <1>2, SelfLies
<1>5. c[0 + 1] = "lbrace"
  BY <1>1, <1>3, <1>4, FirstLies
<1>. QED
  BY <1>5

LEMMA ParsedSays ==
  ASSUME Parsed, ret # Null
  PROVE  \E c, W, V : TreeSays(c, W, V)
<1>1. stack = <<>> /\ Len(stack) = 0
  BY ParsedStack DEF Parsed
<1>2. Complete(read)
  BY DEF Parsed, Reading, Reads
<1>3. IsDocument(read)
  BY <1>2 DEF Complete, Extends
<1>4. Tells(read, stack, heap, "parsed", ret)
  BY DEF Parsed, Telling
<1>5. /\ Shaped(heap) /\ read \in Seq(Tokens) /\ ret \in DOMAIN heap /\ heap[ret].kind \in EntityKinds
      /\ ToldAll(read, stack, heap, "parsed", ret)
  BY <1>4 DEF Tells
<1>6. ASSUME NEW v \in {"tokens", "numbers"}, NEW W, Written(v, heap, W), Told(v, read, stack, heap, W, "parsed", ret)
      PROVE  W[ret] = Said(v, read) /\ W[ret] \in Seq(Words)
  <2>1. W[ret] \in Seq(Words)
    BY <1>5, <1>6 DEF Written
  <2>2. Said(v, read) \in Seq(Words)
    <3>1. "comma" \in Tokens
      BY DEF Tokens, Symbols
    <3>. QED
      BY <1>5, <3>1, SaidAppend
  <2>3. PiecesTo(v, heap, W, stack, Len(stack)) = <<>>
    BY <1>1, PiecesNone
  <2>4. Said(v, read) \o <<>> = <<>> \o W[ret]
    BY <1>6, <2>3 DEF Told
  <2>. QED
    BY <2>1, <2>2, <2>4, ConcatEmpty
<1>7. PICK W : Written("tokens", heap, W) /\ Told("tokens", read, stack, heap, W, "parsed", ret)
  BY <1>5 DEF ToldAll, Views
<1>8. PICK V : Written("numbers", heap, V) /\ Told("numbers", read, stack, heap, V, "parsed", ret)
  BY <1>5 DEF ToldAll, Views
<1>. DEFINE c == Said("tokens", read)
<1>9. W[ret] = c /\ c \in Seq(Words) /\ V[ret] = Said("numbers", read)
  BY <1>6, <1>7, <1>8
<1>10. c = WithoutCommas(read)
  BY <1>5, SaidTokens
<1>. HIDE DEF c
<1>11. c[0 + 1] = "lbrace"
  <2>1. read # <<>> /\ read[1] = "lbrace"
    BY <1>3 DEF IsDocument
  <2>2. c[1] = "lbrace"
    BY <1>5, <1>9, <2>1, SaidFirst DEF c
  <2>. QED
    BY <2>2
<1>12. At(c, 0, W[ret]) /\ 0 \in Nat
  BY <1>9, SelfLies
<1>13. heap[ret].kind = "object"
  <2>1. Begins(heap, W, ret, c, 0)
    BY <1>5, <1>7, <1>9, <1>12, EntityLies
  <2>. QED
    BY <1>11, <2>1 DEF Begins
<1>14. TreeSays(c, W, V)
  BY <1>3, <1>5, <1>7, <1>8, <1>9, <1>10, <1>13 DEF TreeSays
<1>. QED
  BY <1>14

LEMMA CountIs ==
  ASSUME NEW c, NEW n \in Nat, Len(c) = 6 + 14 * n
  PROVE  PointCount(c) = n
<1>1. (6 + 14 * n - 6) \div 14 = n
  OBVIOUS
<1>. QED
  BY <1>1 DEF PointCount

\* The i-th element of the array, and what the program makes of it.
PointAmong(i) == IsPoint(points_arr.kids[i])
PointOf(i) == [n \in Coordinates |-> heap[json_object_query(points_arr.kids[i], n)].val]
PointsFound == HasPoints /\ \A i \in 1 .. Len(points_arr.kids) : PointAmong(i)

LEMMA RootHasArray ==
  ASSUME NEW a, a = heap[ret].kids[1], heap[ret].kind = "object"
  PROVE  points_arr = heap[a] /\ (HasPoints <=> ret # Null /\ HasArray(heap, ret, a))
BY DEF points_arr, HasPoints, HasArray

LEMMA FirstFour ==
  ASSUME NEW c \in Seq(Words), 4 <= Len(c), c[1] = "lbrace", c[2] = "points", c[3] = "colon", c[4] = "lsqbracket"
  PROVE  SubSeq(c, 1, 4) = <<"lbrace", "points", "colon", "lsqbracket">>
<1>. DEFINE x == SubSeq(c, 1, 4)
            t == <<"lbrace", "points", "colon", "lsqbracket">>
<1>1. x \in Seq(Words) /\ Len(x) = 4 /\ \A i \in 1 .. 4 : x[i] = c[i]
  OBVIOUS
<1>2. \A i \in 1 .. 4 : c[i] \in Words
  OBVIOUS
<1>3. t \in Seq(Words) /\ Len(t) = 4 /\ t[1] = c[1] /\ t[2] = c[2] /\ t[3] = c[3] /\ t[4] = c[4]
  BY <1>2
<1>. HIDE DEF x, t
<1>4. x = t
  <2>1. \A i \in 1 .. 4 : x[i] = t[i]
    BY <1>1, <1>3
  <2>. QED
    BY <1>1, <1>3, <2>1, SeqSame
<1>. QED
  BY <1>4 DEF x, t

\* Where setup finds points and nothing else, the file is one of points, and
\* what it reads is what the file says under each name.
LEMMA FoundIsFile ==
  ASSUME Parsed, PointsFound
  PROVE  /\ IsPointsFile(read) /\ PointCount(WithoutCommas(read)) = Len(points_arr.kids)
         /\ PointsOf(read) = [i \in 1 .. Len(points_arr.kids) |-> PointOf(i)]
<1>. DEFINE a == heap[ret].kids[1]
            m == Len(heap[a].kids)
            e(i) == heap[a].kids[i]
<1>1. ret # Null
  BY DEF PointsFound, HasPoints
<1>2. PICK c, W, V : TreeSays(c, W, V)
  BY <1>1, ParsedSays
<1>3. /\ Shaped(heap) /\ ret \in DOMAIN heap /\ read \in Seq(Tokens) /\ IsDocument(read)
      /\ c \in Seq(Words) /\ c = WithoutCommas(read)
      /\ Written("tokens", heap, W) /\ W[ret] = c
      /\ Written("numbers", heap, V) /\ V[ret] = Said("numbers", read)
  BY <1>2 DEF TreeSays
<1>4. points_arr = heap[a] /\ HasArray(heap, ret, a)
  BY <1>1, <1>2, RootHasArray DEF PointsFound, TreeSays
<1>5. a \in DOMAIN heap /\ heap[a].kind = "array" /\ m \in Nat
      /\ \A i \in 1 .. m : e(i) \in DOMAIN heap
  <2>1. ShapeOf(heap, ret)
    BY <1>3 DEF Shaped
  <2>2. a \in DOMAIN heap /\ heap[a].kind = "array"
    BY <1>4, <2>1 DEF ShapeOf, HasArray
  <2>3. m \in Nat /\ \A i \in 1 .. m : e(i) \in DOMAIN heap
    BY <1>3, <2>2, ShapeKids
  <2>. QED
    BY <2>2, <2>3
<1>6. \A i \in 1 .. m : IsPoint(e(i))
  BY <1>4 DEF PointsFound, PointAmong
<1>. HIDE DEF a, m
<1>7. \A i \in 1 .. m : FourNumbers(heap, e(i)) /\ NamesOf(e(i)) = Coordinates
  BY <1>3, <1>5, <1>6, PointHasNames
<1>8. PICK M : ArrayLies(heap, W, a, c, M)
  BY <1>3, <1>4, RootLies
<1>9. /\ Len(c) = 6 + 14 * m
      /\ \A i \in 1 .. m : PointAt(heap, e(i), c, 14 * i - 10)
  BY <1>3, <1>5, <1>7, <1>8, PointsLie DEF m
<1>10. ASSUME NEW i \in 1 .. m
       PROVE  /\ c[14 * i - 9] = "lbrace" /\ c[14 * i + 4] = "rbrace"
              /\ \A k \in 1 .. 4 : Name(c, i, k) = Called(e(i), k) /\ Value(c, i, k) = "number"
              /\ {Name(c, i, k) : k \in 1 .. 4} = Coordinates
  <2>. DEFINE p == 14 * i - 10
              d == e(i)
  <2>1. i \in Nat /\ p + 1 = 14 * i - 9 /\ p + 14 = 14 * i + 4
        /\ \A k \in 1 .. 4 : p + 3 * k - 1 = 14 * i + 3 * k - 11 /\ p + 3 * k + 1 = 14 * i + 3 * k - 9
    BY <1>5
  <2>2. PointAt(heap, d, c, p) /\ NamesOf(d) = Coordinates
    BY <1>7, <1>9
  <2>. HIDE DEF p, d
  <2>3. c[14 * i - 9] = "lbrace" /\ c[14 * i + 4] = "rbrace"
    BY <2>1, <2>2 DEF PointAt
  <2>4. \A k \in 1 .. 4 : Name(c, i, k) = Called(d, k) /\ Value(c, i, k) = "number"
    BY <2>1, <2>2 DEF PointAt, Name, Value, Called
  <2>5. {Name(c, i, k) : k \in 1 .. 4} = Coordinates
    BY <2>2, <2>4 DEF NamesOf
  <2>. QED
    BY <2>3, <2>4, <2>5 DEF d
<1>11. PointCount(c) = m
  BY <1>5, <1>9, CountIs
<1>12. SubSeq(c, 1, 4) = <<"lbrace", "points", "colon", "lsqbracket">> /\ c[Len(c) - 1] = "rsqbracket"
  <2>1. c[1] = "lbrace" /\ c[2] = "points" /\ c[3] = "colon" /\ c[4] = "lsqbracket" /\ c[Len(c) - 1] = "rsqbracket"
    BY <1>8 DEF ArrayLies
  <2>2. Len(c) >= 4
    BY <1>5, <1>9
  <2>3. Len(c) \in Nat
    BY <1>3
  <2>. QED
    BY <1>3, <2>1, <2>2, <2>3, FirstFour
<1>13. IsPointsFile(read)
  <2>1. Len(c) >= 6 /\ Len(c) = 6 + 14 * PointCount(c)
    BY <1>5, <1>9, <1>11
  <2>2. \A i \in 1 .. PointCount(c) :
           /\ c[14 * i - 9] = "lbrace" /\ c[14 * i + 4] = "rbrace"
           /\ {Name(c, i, k) : k \in 1 .. 4} = Coordinates
           /\ \A k \in 1 .. 4 : Value(c, i, k) = "number"
    BY <1>10, <1>11, Zenon
  <2>. QED
    BY <1>3, <1>12, <2>1, <2>2 DEF IsPointsFile
<1>14. ASSUME NEW i \in 1 .. m, NEW n \in Coordinates
       PROVE  4 * (i - 1) + (CHOOSE k \in 1 .. 4 : Name(c, i, k) = n) = heap[json_object_query(e(i), n)].val
  <2>. DEFINE d == e(i)
  <2>1. d \in DOMAIN heap /\ FourNumbers(heap, d) /\ NamesOf(d) = Coordinates
    BY <1>5, <1>7
  <2>2. \E k \in 1 .. 4 : Name(c, i, k) = n
    BY <1>10
  <2>3. PICK k \in 1 .. 4 : Name(c, i, k) = n /\ k = (CHOOSE j \in 1 .. 4 : Name(c, i, j) = n)
    BY <2>2
  <2>4. Called(d, k) = n
    BY <1>10, <2>3
  <2>5. json_object_query(d, n) = heap[d].kids[k]
    <3>. HIDE DEF d
    <3>. QED
      BY <1>3, <2>1, <2>4, NamesMakePoint
  <2>6. ASSUME NEW w, w = V[ret] PROVE 4 * (i - 1) + k = heap[heap[d].kids[k]].val
    <3>1. w \in Seq(Words) /\ \A j \in 1 .. Len(w) : w[j] = j
      BY <1>3, <2>6, SaidNumbers
    <3>2. \A x \in 1 .. Len(heap[a].kids) : FourNumbers(heap, heap[a].kids[x])
      BY <1>7 DEF m
    <3>3. NumbersAre(heap, a, w)
      BY <1>3, <1>4, <2>6, <3>1, <3>2, ArrayNumbers, Zenon
    <3>4. 4 * (i - 1) + k \in 1 .. Len(w) /\ w[4 * (i - 1) + k] = heap[heap[d].kids[k]].val
      BY <3>3 DEF m, NumbersAre
    <3>. QED
      BY <3>1, <3>4
  <2>7. 4 * (i - 1) + k = heap[heap[d].kids[k]].val
    BY <2>6
  <2>. QED
    BY <2>3, <2>5, <2>7
<1>15. PointsOf(read) = [i \in 1 .. m |-> [n \in Coordinates |-> heap[json_object_query(e(i), n)].val]]
  <2>. DEFINE G(x, y) == [i \in 1 .. y |-> [n \in Coordinates |-> 4 * (i - 1) + CHOOSE k \in 1 .. 4 : Name(x, i, k) = n]]
              f == G(c, m)
  <2>1. PointsOf(read) = f
    <3>1. PointsOf(read) = G(WithoutCommas(read), PointCount(WithoutCommas(read)))
      BY Zenon DEF PointsOf
    <3>. HIDE DEF G
    <3>2. G(WithoutCommas(read), PointCount(WithoutCommas(read))) = G(c, m)
      BY <1>3, <1>11
    <3>. QED
      BY <3>1, <3>2
  <2>2. f = [i \in 1 .. m |-> [n \in Coordinates |-> heap[json_object_query(e(i), n)].val]]
    <3>1. ASSUME NEW i \in 1 .. m
          PROVE  [n \in Coordinates |-> 4 * (i - 1) + CHOOSE k \in 1 .. 4 : Name(c, i, k) = n]
                   = [n \in Coordinates |-> heap[json_object_query(e(i), n)].val]
      BY <1>14, Zenon
    <3>. QED
      BY <3>1, Zenon
  <2>. QED
    BY <2>1, <2>2
<1>. QED
  BY <1>3, <1>4, <1>11, <1>13, <1>15 DEF PointOf, m

\* Where the file is one of points, setup finds them.
LEMMA FileIsFound ==
  ASSUME Parsed, IsPointsFile(read)
  PROVE  PointsFound /\ PointCount(WithoutCommas(read)) = Len(points_arr.kids)
<1>1. ret # Null
  <2>1. SUFFICES ASSUME ret = Null PROVE FALSE
    OBVIOUS
  <2>2. Wrong(read)
    BY <2>1 DEF Parsed, Reading, Reads
  <2>3. ~IsDocument(read)
    BY <2>2 DEF Wrong, Extends
  <2>. QED
    BY <2>3 DEF IsPointsFile
<1>2. PICK c, W, V : TreeSays(c, W, V)
  BY <1>1, ParsedSays
<1>3. /\ Shaped(heap) /\ ret \in DOMAIN heap /\ heap[ret].kind = "object"
      /\ c \in Seq(Words) /\ c = WithoutCommas(read) /\ Written("tokens", heap, W) /\ W[ret] = c
  BY <1>2 DEF TreeSays
<1>. DEFINE n == PointCount(c)
            a == heap[ret].kids[1]
            e(i) == heap[a].kids[i]
<1>4. /\ Len(c) >= 6 /\ Len(c) = 6 + 14 * n
      /\ SubSeq(c, 1, 4) = <<"lbrace", "points", "colon", "lsqbracket">>
      /\ c[Len(c) - 1] = "rsqbracket"
      /\ \A i \in 1 .. n :
           /\ c[14 * i - 9] = "lbrace" /\ c[14 * i + 4] = "rbrace"
           /\ {Name(c, i, k) : k \in 1 .. 4} = Coordinates
           /\ \A k \in 1 .. 4 : Value(c, i, k) = "number"
  BY <1>3 DEF IsPointsFile
<1>5. n \in Nat /\ Len(c) \in Nat
  BY <1>3, <1>4 DEF PointCount
<1>6. c[1] = "lbrace" /\ c[2] = "points" /\ c[3] = "colon" /\ c[4] = "lsqbracket"
  <2>. DEFINE x == SubSeq(c, 1, 4)
              t == <<"lbrace", "points", "colon", "lsqbracket">>
  <2>1. \A i \in 1 .. 4 : x[i] = c[i]
    BY <1>3, <1>4
  <2>2. x = t /\ t[1] = "lbrace" /\ t[2] = "points" /\ t[3] = "colon" /\ t[4] = "lsqbracket"
    BY <1>4
  <2>. HIDE DEF x, t
  <2>. QED
    BY <2>1, <2>2
<1>. HIDE DEF n
<1>7. PointWords(c, n)
  BY <1>4, <1>5, <1>6 DEF PointWords
<1>8. PointsRead(heap, ret, c, n)
  <2>1. heap[ret].kind \in EntityKinds
    BY <1>3 DEF EntityKinds, Kinds
  <2>. QED
    BY <1>3, <1>7, <2>1, PointsAreRead
<1>9. /\ HasArray(heap, ret, a) /\ Len(heap[a].kids) = n
      /\ \A i \in 1 .. n : e(i) \in DOMAIN heap /\ PointAt(heap, e(i), c, 14 * i - 10)
  BY <1>8 DEF PointsRead
<1>10. points_arr = heap[a] /\ HasPoints
  <2>. HIDE DEF a
  <2>1. a = heap[ret].kids[1]
    BY DEF a
  <2>. QED
    BY <1>1, <1>3, <1>9, <2>1, RootHasArray
<1>11. ASSUME NEW i \in 1 .. n PROVE IsPoint(e(i))
  <2>. DEFINE p == 14 * i - 10
              d == e(i)
  <2>1. i \in Nat /\ \A k \in 1 .. 4 : p + 3 * k - 1 = 14 * i + 3 * k - 11
    BY <1>5
  <2>2. d \in DOMAIN heap /\ PointAt(heap, d, c, p)
    BY <1>9
  <2>3. {Name(c, i, k) : k \in 1 .. 4} = Coordinates
    BY <1>4
  <2>. HIDE DEF p, d
  <2>4. FourNumbers(heap, d)
    BY <2>2 DEF PointAt, FourNumbers
  <2>5. \A k \in 1 .. 4 : Name(c, i, k) = Called(d, k)
    BY <2>1, <2>2 DEF PointAt, Name, Called
  <2>6. NamesOf(d) = Coordinates
    BY <2>3, <2>5 DEF NamesOf
  <2>7. IsPoint(d)
    BY <1>3, <2>2, <2>4, <2>6, NamesMakePoint
  <2>. QED
    BY <2>7 DEF d
<1>12. PointsFound
  BY <1>9, <1>10, <1>11 DEF PointsFound, PointAmong
<1>13. PointCount(WithoutCommas(read)) = n
  BY <1>3 DEF n
<1>. QED
  BY <1>9, <1>10, <1>12, <1>13

(***************************************************************************)
(* The verdict.                                                            *)
(***************************************************************************)
Surveys == {"prepare", "answers", "checksum", "elements", "ready", "validate", "finish"}
Finals == {"elements", "ready", "validate", "finish"}

\* The root was found to have an array of points.
Past == step \in Surveys \/ (step \in {"open", "allocate", "read"} /\ file.name = "checksum")

FirstPoints(k) == [i \in 1 .. k |-> PointOf(i)]

\* The first k elements are points, and are read.
ReadUpTo(k) == k \in 0 .. s.pair_cnt /\ s.points = FirstPoints(k) /\ \A i \in 1 .. k : PointAmong(i)

\* The tree is one of points, as far as it was looked at.
Surveyed ==
  /\ pc = "parsed" /\ HasPoints
  /\ s.pair_cnt = Len(points_arr.kids) /\ s.pair_cnt \in Nat
  /\ \E k \in 0 .. s.pair_cnt : ReadUpTo(k)

Survey ==
  /\ step \in {"parse", "loaded"} => s.points = <<>>
  /\ Past => Surveyed
  /\ step \in {"ready", "validate", "finish"} => ReadUpTo(s.pair_cnt)

\* What is known of the checksum, and of what was not given.
Sums ==
  /\ step \in {"start", "open", "allocate", "read", "parse", "loaded"} => "checksum" \notin denied
  /\ step = "read" => b.len = file.len
  /\ step \in Surveys =>
       IF is_valid(s.checksum) THEN "checksum" \notin denied /\ s.checksum.len = file.len ELSE "checksum" \in denied
  /\ step \in Finals =>
       /\ s.validation = is_valid(s.checksum)
       /\ is_valid(s.checksum) => s.checksum.len = s.pair_cnt + 1
  /\ step = "finish" => s.validation = TRUE
  /\ step \in Surveys \ {"prepare"} /\ s.pairs.data = MapFailed /\ s.pair_cnt > 0 => "pairs" \in denied
  /\ step \in Surveys \ {"prepare", "answers"} /\ s.answers.data = MapFailed /\ s.pair_cnt > 0 => "answers" \in denied
  /\ step # "exit" => outcome = "none"

Judged == Survey /\ Sums /\ OutcomeIsDeserved

VerdictInv == SetupInv /\ Reading /\ Telling /\ Judged

LEMMA TreeSame ==
  ASSUME UNCHANGED vars
  PROVE  /\ points_arr' = points_arr /\ HasPoints' = HasPoints /\ pc' = pc
         /\ \A i : PointOf(i)' = PointOf(i) /\ PointAmong(i)' = PointAmong(i)
<1>1. heap' = heap /\ ret' = ret /\ pc' = pc
  BY DEF vars
<1>2. points_arr' = points_arr
  BY <1>1 DEF points_arr
<1>3. HasPoints' = HasPoints
  BY <1>1, <1>2 DEF HasPoints
<1>4. \A e, n : json_object_query(e, n)' = json_object_query(e, n)
  BY <1>1 DEF json_object_query
<1>5. \A i : PointOf(i)' = PointOf(i)
  BY <1>1, <1>2, <1>4 DEF PointOf
<1>6. \A i : PointAmong(i)' = PointAmong(i)
  BY <1>1, <1>2, <1>4 DEF PointAmong, IsPoint, HasNumber
<1>. QED
  BY <1>1, <1>2, <1>3, <1>5, <1>6

LEMMA ReadSame ==
  ASSUME UNCHANGED vars, s'.points = s.points, s'.pair_cnt = s.pair_cnt, NEW k, ReadUpTo(k)
  PROVE  ReadUpTo(k)'
<1>1. \A i : PointOf(i)' = PointOf(i) /\ PointAmong(i)' = PointAmong(i)
  BY TreeSame
<1>2. FirstPoints(k)' = FirstPoints(k)
  BY <1>1 DEF FirstPoints
<1>. QED
  BY <1>1, <1>2 DEF ReadUpTo

LEMMA SurveyedSame ==
  ASSUME UNCHANGED vars, s'.points = s.points, s'.pair_cnt = s.pair_cnt, Surveyed
  PROVE  Surveyed'
<1>1. PICK k \in 0 .. s.pair_cnt : ReadUpTo(k)
  BY DEF Surveyed
<1>2. ReadUpTo(k)'
  BY <1>1, ReadSame
<1>3. points_arr' = points_arr /\ HasPoints' = HasPoints /\ pc' = pc
  BY TreeSame
<1>. QED
  BY <1>1, <1>2, <1>3 DEF Surveyed

LEMMA PastIsParsed ==
  ASSUME VerdictInv, Past
  PROVE  Parsed /\ Surveyed
BY DEF VerdictInv, SetupInv, BlocksInv, Judged, Survey, Surveyed, Parsed

\* While the program has not ended nothing is to be deserved.
LEMMA NotYet ==
  ASSUME outcome' = "none"
  PROVE  OutcomeIsDeserved'
BY DEF OutcomeIsDeserved

LEMMA SKeeps ==
  ASSUME DOMAIN s = DOMAIN Fresh, NEW f \in DOMAIN Fresh, NEW v, s' = [s EXCEPT ![f] = v]
  PROVE  s'[f] = v /\ \A x \in DOMAIN Fresh \ {f} : s'[x] = s[x]
OBVIOUS

FieldNames == {"json", "checksum", "pairs", "answers", "points", "pair_cnt", "validation"}

LEMMA FreshNames == DOMAIN Fresh = FieldNames
BY DEF Fresh, FieldNames

\* load_entire_file has returned what was read, or nothing.
LEMMA LoadedJudged ==
  ASSUME VerdictInv, step \in {"open", "read"}, UNCHANGED vars, NEW buf, Loaded(buf),
         \/ buf = NoBuffer /\ denied' = denied \cup {file.name}
         \/ is_valid(buf) /\ buf.len = file.len /\ denied' = denied,
         file'.name = file.name, file'.len = file.len
  PROVE  Judged'
<1>1. /\ DOMAIN s = DOMAIN Fresh /\ file.name \in {"json", "checksum"} /\ "checksum" \notin denied /\ outcome = "none"
      /\ file.name = "json" => s = Fresh
  BY DEF VerdictInv, SetupInv, Loading, Unset, Judged, Sums
<1>2. ~is_valid(NoBuffer)
  BY DEF is_valid, NoBuffer, Buffer
<1>3. s' = [s EXCEPT ![file.name] = buf] /\ file.name \in DOMAIN Fresh
  BY <1>1, FreshNames DEF Loaded, FieldNames
<1>4. s'[file.name] = buf /\ \A x \in DOMAIN Fresh \ {file.name} : s'[x] = s[x]
  BY <1>1, <1>3, SKeeps
<1>5. s'.points = s.points /\ s'.pair_cnt = s.pair_cnt
  BY <1>1, <1>4, FreshNames DEF FieldNames
<1>6. CASE file.name = "json" /\ step' = "exit"
  <2>1. outcome' = "rejected" /\ "json" \in denied'
    BY <1>2, <1>6 DEF Loaded
  <2>2. Survey' /\ Sums'
    BY <1>6 DEF Survey, Sums, Past, Surveys, Finals
  <2>3. OutcomeIsDeserved'
    BY <2>1 DEF OutcomeIsDeserved
  <2>. QED
    BY <2>2, <2>3 DEF Judged
<1>7. CASE file.name = "json" /\ step' \in {"parse", "loaded"}
  <2>1. outcome' = "none" /\ denied' = denied
    BY <1>1, <1>2, <1>7 DEF Loaded
  <2>2. s'.points = <<>>
    BY <1>1, <1>5, <1>7 DEF Fresh
  <2>3. Survey'
    BY <1>7, <2>2 DEF Survey, Past, Surveys
  <2>4. Sums'
    BY <1>1, <1>7, <2>1 DEF Sums, Surveys, Finals
  <2>. QED
    BY <2>1, <2>3, <2>4, NotYet DEF Judged
<1>8. CASE file.name = "checksum"
  <2>1. outcome' = "none" /\ step' = "prepare"
    BY <1>1, <1>8 DEF Loaded
  <2>2. Surveyed
    BY <1>8, PastIsParsed DEF Past, VerdictInv, Judged, Survey
  <2>3. Surveyed'
    BY <1>5, <2>2, SurveyedSame
  <2>4. Survey'
    BY <2>1, <2>3 DEF Survey
  <2>5. IF is_valid(s'.checksum) THEN "checksum" \notin denied' /\ s'.checksum.len = file'.len ELSE "checksum" \in denied'
    BY <1>1, <1>2, <1>4, <1>8
  <2>6. Sums'
    BY <2>1, <2>5 DEF Sums, Surveys, Finals, is_valid
  <2>. QED
    BY <2>1, <2>4, <2>6, NotYet DEF Judged
<1>. QED
  BY <1>1, <1>6, <1>7, <1>8 DEF Loaded

LEMMA StartJudged ==
  ASSUME VerdictInv, Start
  PROVE  Judged'
<1>1. step = "start" /\ step' = "open" /\ file' = file /\ denied' = denied /\ outcome' = outcome
  BY DEF Start
<1>2. file.name = "json" /\ "checksum" \notin denied /\ outcome = "none"
  BY <1>1 DEF VerdictInv, SetupInv, Loading, Judged, Sums
<1>3. Survey' /\ Sums'
  BY <1>1, <1>2 DEF Survey, Sums, Past, Surveys, Finals
<1>. QED
  BY <1>1, <1>2, <1>3, NotYet DEF Judged

LEMMA OpenJudged ==
  ASSUME VerdictInv, OpenFile
  PROVE  Judged'
<1>1. step = "open" /\ UNCHANGED vars
  BY DEF OpenFile
<1>2. ASSUME NEW len, file' = [file EXCEPT !.len = len, !.open = TRUE], step' = "allocate", UNCHANGED <<s, denied, outcome>>
      PROVE  Judged'
  <2>1. file'.name = file.name
    BY <1>2 DEF VerdictInv, SetupInv, Loading
  <2>2. "checksum" \notin denied' /\ outcome' = "none"
    BY <1>1, <1>2 DEF VerdictInv, Judged, Sums
  <2>3. Past' => Surveyed'
    <3>1. SUFFICES ASSUME Past' PROVE Surveyed'
      OBVIOUS
    <3>2. Past
      BY <1>1, <1>2, <2>1, <3>1 DEF Past, Surveys
    <3>. QED
      BY <1>1, <1>2, <3>2, PastIsParsed, SurveyedSame
  <2>4. Survey' /\ Sums'
    BY <1>2, <2>2, <2>3 DEF Survey, Sums, Surveys, Finals
  <2>. QED
    BY <2>2, <2>4, NotYet DEF Judged
<1>3. ASSUME Loaded(NoBuffer), UNCHANGED file, denied' = denied \cup {file.name}
      PROVE  Judged'
  BY <1>1, <1>3, LoadedJudged
<1>. QED
  BY <1>2, <1>3 DEF OpenFile

LEMMA AllocateJudged ==
  ASSUME VerdictInv, AllocateForFile
  PROVE  Judged'
<1>1. step = "allocate" /\ step' = "read" /\ UNCHANGED vars /\ UNCHANGED <<file, s, denied, outcome>> /\ b' \in Allocated(file.len)
  BY DEF AllocateForFile
<1>2. b'.len = file.len
  BY <1>1 DEF Allocated, Buffer
<1>3. "checksum" \notin denied' /\ outcome' = "none"
  BY <1>1 DEF VerdictInv, Judged, Sums
<1>4. Past' => Surveyed'
  <2>1. SUFFICES ASSUME Past' PROVE Surveyed'
    OBVIOUS
  <2>2. Past
    BY <1>1, <2>1 DEF Past, Surveys
  <2>. QED
    BY <1>1, <2>2, PastIsParsed, SurveyedSame
<1>5. Survey' /\ Sums'
  BY <1>1, <1>2, <1>3, <1>4 DEF Survey, Sums, Surveys, Finals
<1>. QED
  BY <1>3, <1>5, NotYet DEF Judged

LEMMA ReadJudged ==
  ASSUME VerdictInv, ReadFile
  PROVE  Judged'
<1>1. /\ step = "read" /\ UNCHANGED vars /\ file' = [file EXCEPT !.open = FALSE]
      /\ \/ Loaded(b) /\ denied' = denied
         \/ Loaded(NoBuffer) /\ denied' = denied \cup {file.name}
  BY DEF ReadFile
<1>2. is_valid(b) /\ b.len = file.len /\ file'.name = file.name /\ file'.len = file.len
  BY <1>1 DEF VerdictInv, SetupInv, Loading, Judged, Sums
<1>. QED
  BY <1>1, <1>2, LoadedJudged

\* What ends the program there changes nothing but where it is.
LEMMA EndJudged ==
  ASSUME step' = "exit", OutcomeIsDeserved'
  PROVE  Judged'
<1>1. Survey' /\ Sums'
  BY DEF Survey, Sums, Past, Surveys, Finals
<1>. QED
  BY <1>1 DEF Judged

LEMMA RejectIs ==
  ASSUME Reject
  PROVE  step' = "exit" /\ outcome' = "rejected" /\ read' = read /\ file' = file /\ denied' = denied
BY DEF Reject, cleanup_haversine_state

\* A rejection of what is no file of points, or has a checksum of another length.
LEMMA RejectJudged ==
  ASSUME Reject,
         \/ ~IsPointsFile(read)
         \/ "checksum" \notin denied /\ file.len # PointCount(WithoutCommas(read)) + 1
  PROVE  Judged'
<1>1. step' = "exit" /\ outcome' = "rejected" /\ read' = read /\ file' = file /\ denied' = denied
  BY RejectIs
<1>2. OutcomeIsDeserved'
  BY <1>1 DEF OutcomeIsDeserved
<1>. QED
  BY <1>1, <1>2, EndJudged

LEMMA RootJudged ==
  ASSUME VerdictInv, CheckRoot
  PROVE  Judged'
<1>1. step = "parse" /\ pc = "parsed" /\ Parsed
  BY DEF CheckRoot, VerdictInv, SetupInv, BlocksInv, Parsed
<1>2. s.points = <<>> /\ "checksum" \notin denied /\ outcome = "none" /\ DOMAIN s = DOMAIN Fresh
  BY <1>1 DEF VerdictInv, SetupInv, Loading, Judged, Survey, Sums
<1>3. CASE ~HasPoints /\ Reject
  <2>1. ~IsPointsFile(read)
    BY <1>1, <1>3, FileIsFound DEF PointsFound
  <2>. QED
    BY <1>3, <2>1, RejectJudged
<1>4. ASSUME HasPoints, s' = [s EXCEPT !.pair_cnt = Len(points_arr.kids)],
             file' = [name |-> "checksum", len |-> 0, open |-> FALSE], step' = "open",
             UNCHANGED <<vars, pages, maps, b, denied, outcome>>
      PROVE  Judged'
  <2>. DEFINE n == Len(points_arr.kids)
  <2>1. n \in Nat
    <3>. DEFINE a == heap[ret].kids[1]
    <3>1. ret # Null
      BY <1>4 DEF HasPoints
    <3>2. PICK c, W, V : TreeSays(c, W, V)
      BY <1>1, <3>1, ParsedSays
    <3>3. Shaped(heap) /\ ret \in DOMAIN heap
      BY <3>2 DEF TreeSays
    <3>4. points_arr = heap[a] /\ HasArray(heap, ret, a)
      BY <1>4, <3>1, <3>2, RootHasArray DEF TreeSays
    <3>5. a \in DOMAIN heap
      <4>1. ShapeOf(heap, ret)
        BY <3>3 DEF Shaped
      <4>. QED
        BY <3>4, <4>1 DEF ShapeOf, HasArray
    <3>. QED
      BY <3>3, <3>4, <3>5, ShapeKids
  <2>2. s'.pair_cnt = n /\ s'.points = <<>>
    BY <1>2, <1>4, FreshNames DEF FieldNames
  <2>3. points_arr' = points_arr /\ HasPoints' /\ pc' = "parsed"
    BY <1>1, <1>4, TreeSame
  <2>. HIDE DEF n
  <2>4. ReadUpTo(0)' /\ 0 \in 0 .. s'.pair_cnt
    <3>1. FirstPoints(0)' = <<>>
      BY DEF FirstPoints
    <3>2. 0 \in 0 .. n
      BY <2>1
    <3>. QED
      BY <2>2, <3>1, <3>2 DEF ReadUpTo
  <2>5. s'.pair_cnt = Len(points_arr'.kids)
    BY <2>2, <2>3 DEF n
  <2>6. Surveyed'
    BY <2>1, <2>2, <2>3, <2>4, <2>5 DEF Surveyed
  <2>7. Survey' /\ Sums'
    BY <1>2, <1>4, <2>6 DEF Survey, Sums, Surveys, Finals
  <2>. QED
    BY <1>2, <1>4, <2>7, NotYet DEF Judged
<1>. QED
  BY <1>3, <1>4 DEF CheckRoot

LEMMA FieldJudged ==
  ASSUME VerdictInv, NEW f, NEW len, NEW nx, AllocateField(f, len, nx),
         \/ step = "prepare" /\ f = "pairs" /\ nx = "answers" /\ len = 4 * s.pair_cnt
         \/ step = "answers" /\ f = "answers" /\ nx = "checksum" /\ len = s.pair_cnt
  PROVE  Judged'
<1>1. PICK buf \in Allocated(len) :
        /\ s' = [s EXCEPT ![f] = buf]
        /\ denied' = IF buf.data = MapFailed /\ len > 0 THEN denied \cup {f} ELSE denied
  BY DEF AllocateField
<1>2. UNCHANGED vars /\ file' = file /\ step' = nx /\ outcome' = outcome
  BY DEF AllocateField
<1>3. DOMAIN s = DOMAIN Fresh /\ f \in DOMAIN Fresh /\ step \in {"prepare", "answers"} /\ f \in {"pairs", "answers"}
      /\ nx \in {"answers", "checksum"}
  BY FreshNames DEF VerdictInv, SetupInv, Loading, FieldNames
<1>4. s'[f] = buf /\ \A x \in DOMAIN Fresh \ {f} : s'[x] = s[x]
  BY <1>1, <1>3, SKeeps
<1>5. s'.points = s.points /\ s'.pair_cnt = s.pair_cnt /\ s'.checksum = s.checksum
  BY <1>3, <1>4, FreshNames DEF FieldNames
<1>6. Surveyed /\ s.pair_cnt \in Nat
  BY <1>3, PastIsParsed DEF Past, Surveys, Surveyed
<1>7. Survey'
  <2>1. Surveyed'
    BY <1>2, <1>5, <1>6, SurveyedSame
  <2>. QED
    BY <1>2, <1>3, <2>1 DEF Survey
<1>8. s.pair_cnt > 0 => len > 0
  BY <1>6
<1>9. outcome' = "none" /\ step' \in Surveys /\ step' \notin Finals
  BY <1>2, <1>3 DEF VerdictInv, Judged, Sums, Surveys, Finals
<1>10. IF is_valid(s'.checksum) THEN "checksum" \notin denied' /\ s'.checksum.len = file'.len ELSE "checksum" \in denied'
  <2>1. IF is_valid(s.checksum) THEN "checksum" \notin denied /\ s.checksum.len = file.len ELSE "checksum" \in denied
    BY <1>3 DEF VerdictInv, Judged, Sums, Surveys
  <2>. QED
    BY <1>1, <1>2, <1>3, <1>5, <2>1 DEF is_valid
<1>11. s'.pairs.data = MapFailed /\ s'.pair_cnt > 0 => "pairs" \in denied'
  <2>1. CASE f = "pairs"
    BY <1>1, <1>4, <1>5, <1>8, <2>1
  <2>2. CASE f = "answers"
    <3>1. s'.pairs = s.pairs /\ step = "answers"
      BY <1>4, <2>2, FreshNames DEF FieldNames
    <3>2. s.pairs.data = MapFailed /\ s.pair_cnt > 0 => "pairs" \in denied
      BY <3>1 DEF VerdictInv, Judged, Sums, Surveys
    <3>. QED
      BY <1>1, <1>5, <3>1, <3>2
  <2>. QED
    BY <1>3, <2>1, <2>2
<1>12. step' = "checksum" => (s'.answers.data = MapFailed /\ s'.pair_cnt > 0 => "answers" \in denied')
  <2>1. SUFFICES ASSUME step' = "checksum" PROVE s'.answers.data = MapFailed /\ s'.pair_cnt > 0 => "answers" \in denied'
    OBVIOUS
  <2>2. f = "answers"
    BY <1>2, <2>1
  <2>. QED
    BY <1>1, <1>4, <1>5, <1>8, <2>2
<1>13. Sums'
  <2>1. step' \in {"answers", "checksum"}
    BY <1>2, <1>3
  <2>. QED
    BY <1>9, <1>10, <1>11, <1>12, <2>1 DEF Sums, Surveys, Finals
<1>. QED
  BY <1>7, <1>9, <1>13, NotYet DEF Judged

LEMMA ChecksumJudged ==
  ASSUME VerdictInv, CheckChecksum
  PROVE  Judged'
<1>1. step = "checksum" /\ DOMAIN s = DOMAIN Fresh
  BY DEF CheckChecksum, VerdictInv, SetupInv, Loading
<1>2. Parsed /\ Surveyed
  BY <1>1, PastIsParsed DEF Past, Surveys
<1>3. IF is_valid(s.checksum) THEN "checksum" \notin denied /\ s.checksum.len = file.len ELSE "checksum" \in denied
  BY <1>1 DEF VerdictInv, Judged, Sums, Surveys
<1>4. /\ s.pairs.data = MapFailed /\ s.pair_cnt > 0 => "pairs" \in denied
      /\ s.answers.data = MapFailed /\ s.pair_cnt > 0 => "answers" \in denied
      /\ outcome = "none"
  BY <1>1 DEF VerdictInv, Judged, Sums, Surveys
<1>5. CASE is_valid(s.checksum) /\ s.checksum.len # ChecksumLength(s.pair_cnt) /\ Reject
  <2>1. "checksum" \notin denied /\ file.len # s.pair_cnt + 1
    BY <1>3, <1>5 DEF ChecksumLength
  <2>2. IsPointsFile(read) => PointCount(WithoutCommas(read)) = s.pair_cnt
    BY <1>2, FileIsFound DEF Surveyed
  <2>. QED
    BY <1>5, <2>1, <2>2, RejectJudged
<1>6. ASSUME is_valid(s.checksum) => s.checksum.len = ChecksumLength(s.pair_cnt),
             s' = [s EXCEPT !.validation = is_valid(s.checksum)], step' = "elements",
             UNCHANGED <<vars, pages, maps, file, b, denied, outcome>>
      PROVE  Judged'
  <2>1. s'.validation = is_valid(s.checksum) /\ \A x \in DOMAIN Fresh \ {"validation"} : s'[x] = s[x]
    <3>1. "validation" \in DOMAIN Fresh /\ s' = [s EXCEPT !["validation"] = is_valid(s.checksum)]
      BY <1>6, FreshNames DEF FieldNames
    <3>. QED
      BY <1>1, <3>1, SKeeps
  <2>2. /\ s'.points = s.points /\ s'.pair_cnt = s.pair_cnt /\ s'.checksum = s.checksum
        /\ s'.pairs = s.pairs /\ s'.answers = s.answers
    BY <2>1, FreshNames DEF FieldNames
  <2>3. Survey'
    BY <1>2, <1>6, <2>2, SurveyedSame DEF Survey
  <2>4. is_valid(s.checksum) => s'.checksum.len = s'.pair_cnt + 1
    BY <1>6, <2>2 DEF ChecksumLength
  <2>5. is_valid(s'.checksum) = is_valid(s.checksum)
    BY <2>2 DEF is_valid
  <2>6. Sums'
    BY <1>3, <1>4, <1>6, <2>1, <2>2, <2>4, <2>5 DEF Sums, Surveys, Finals
  <2>. QED
    BY <1>4, <1>6, <2>3, <2>6, NotYet DEF Judged
<1>. QED
  BY <1>5, <1>6 DEF CheckChecksum

LEMMA PointJudged ==
  ASSUME VerdictInv, ReadPoint
  PROVE  Judged'
<1>1. step = "elements" /\ Len(s.points) < s.pair_cnt /\ DOMAIN s = DOMAIN Fresh
  BY DEF ReadPoint, VerdictInv, SetupInv, Loading
<1>2. Parsed /\ Surveyed
  BY <1>1, PastIsParsed DEF Past, Surveys
<1>3. PICK k \in 0 .. s.pair_cnt : ReadUpTo(k)
  BY <1>2 DEF Surveyed
<1>4. s.pair_cnt \in Nat /\ k \in Nat /\ s.points = FirstPoints(k)
  BY <1>2, <1>3 DEF Surveyed, ReadUpTo
<1>5. Len(s.points) = k
  BY <1>4 DEF FirstPoints
<1>6. k < s.pair_cnt /\ k + 1 \in 1 .. s.pair_cnt /\ s.pair_cnt = Len(points_arr.kids)
  BY <1>1, <1>2, <1>4, <1>5 DEF Surveyed
<1>. DEFINE e == points_arr.kids[Len(s.points) + 1]
<1>7. e = points_arr.kids[k + 1]
  BY <1>5
<1>8. (IsPoint(e) <=> PointAmong(k + 1)) /\ [n \in Coordinates |-> heap[json_object_query(e, n)].val] = PointOf(k + 1)
  BY <1>7 DEF PointAmong, PointOf
<1>9. \/ ~IsPoint(e) /\ Reject
      \/ s.pairs.data = MapFailed /\ Die("crashed")
      \/ /\ IsPoint(e)
         /\ s' = [s EXCEPT !.points = Append(@, [n \in Coordinates |-> heap[json_object_query(e, n)].val])]
         /\ UNCHANGED <<vars, pages, maps, file, b, step, denied, outcome>>
  BY DEF ReadPoint
<1>. HIDE DEF e
<1>10. CASE ~IsPoint(e) /\ Reject
  <2>1. ~PointsFound
    BY <1>6, <1>8, <1>10 DEF PointsFound
  <2>2. ~IsPointsFile(read)
    BY <1>2, <2>1, FileIsFound
  <2>. QED
    BY <1>10, <2>2, RejectJudged
<1>11. CASE s.pairs.data = MapFailed /\ Die("crashed")
  <2>1. s.pair_cnt > 0
    BY <1>4, <1>6
  <2>2. "pairs" \in denied
    BY <1>1, <1>11, <2>1 DEF VerdictInv, Judged, Sums, Surveys
  <2>3. step' = "exit" /\ outcome' = "crashed" /\ denied' = denied
    BY <1>11 DEF Die
  <2>4. OutcomeIsDeserved'
    BY <2>2, <2>3 DEF OutcomeIsDeserved
  <2>. QED
    BY <2>3, <2>4, EndJudged
<1>12. CASE /\ IsPoint(e)
            /\ s' = [s EXCEPT !.points = Append(@, [n \in Coordinates |-> heap[json_object_query(e, n)].val])]
            /\ UNCHANGED <<vars, pages, maps, file, b, step, denied, outcome>>
  <2>. DEFINE v == Append(s.points, PointOf(k + 1))
  <2>1. "points" \in DOMAIN Fresh /\ s' = [s EXCEPT !["points"] = v]
    BY <1>8, <1>12, FreshNames DEF FieldNames
  <2>. HIDE DEF v
  <2>2. s'.points = v /\ \A x \in DOMAIN Fresh \ {"points"} : s'[x] = s[x]
    BY <1>1, <2>1, SKeeps
  <2>3. /\ s'.pair_cnt = s.pair_cnt /\ s'.checksum = s.checksum /\ s'.validation = s.validation
        /\ s'.pairs = s.pairs /\ s'.answers = s.answers
    BY <2>2, FreshNames DEF FieldNames
  <2>4. v = FirstPoints(k + 1)
    <3>. DEFINE P(i) == PointOf(i)
    <3>1. s.points = [i \in 1 .. k |-> P(i)] /\ v = Append(s.points, P(k + 1))
      BY <1>4 DEF FirstPoints, v
    <3>2. FirstPoints(k + 1) = [i \in 1 .. k + 1 |-> P(i)]
      BY DEF FirstPoints
    <3>. HIDE DEF P
    <3>3. Append([i \in 1 .. k |-> P(i)], P(k + 1)) = [i \in 1 .. k + 1 |-> P(i)]
      BY <1>4
    <3>. QED
      BY <3>1, <3>2, <3>3
  <2>5. \A i : PointOf(i)' = PointOf(i) /\ PointAmong(i)' = PointAmong(i)
    BY <1>12, TreeSame
  <2>6. FirstPoints(k + 1)' = FirstPoints(k + 1)
    BY <2>5 DEF FirstPoints
  <2>7. \A i \in 1 .. k + 1 : PointAmong(i)
    BY <1>3, <1>4, <1>8, <1>12 DEF ReadUpTo
  <2>8. k + 1 \in 0 .. s'.pair_cnt
    BY <1>4, <1>6, <2>3
  <2>9. ReadUpTo(k + 1)'
    BY <2>2, <2>4, <2>5, <2>6, <2>7, <2>8 DEF ReadUpTo
  <2>10. points_arr' = points_arr /\ HasPoints' = HasPoints /\ pc' = pc
    BY <1>12, TreeSame
  <2>11. Surveyed'
    BY <1>2, <2>3, <2>8, <2>9, <2>10 DEF Surveyed
  <2>12. step' = "elements" /\ outcome' = outcome /\ file' = file /\ denied' = denied
    BY <1>1, <1>12
  <2>13. Survey'
    BY <2>11, <2>12 DEF Survey
  <2>14. /\ Sums /\ is_valid(s'.checksum) = is_valid(s.checksum)
    BY <2>3 DEF VerdictInv, Judged, is_valid
  <2>15. Sums'
    BY <1>1, <2>3, <2>12, <2>14 DEF Sums, Surveys, Finals
  <2>. QED
    BY <1>1, <2>12, <2>13, <2>14, <2>15, NotYet DEF Judged, Sums
<1>. QED
  BY <1>9, <1>10, <1>11, <1>12

\* Where setup has succeeded, what it has is what is in the file.
FileFacts ==
  /\ IsPointsFile(read) /\ s.points = PointsOf(read) /\ s.pair_cnt = PointCount(WithoutCommas(read))
  /\ Len(s.points) = s.pair_cnt

LEMMA ReadyFacts ==
  ASSUME VerdictInv, step \in {"ready", "validate", "finish"}
  PROVE  FileFacts
<1>1. Parsed /\ Surveyed
  BY PastIsParsed DEF Past, Surveys
<1>2. ReadUpTo(s.pair_cnt)
  BY DEF VerdictInv, Judged, Survey
<1>3. s.pair_cnt \in Nat /\ s.pair_cnt = Len(points_arr.kids) /\ HasPoints
  BY <1>1 DEF Surveyed
<1>4. PointsFound
  BY <1>2, <1>3 DEF ReadUpTo, PointsFound
<1>5. /\ IsPointsFile(read) /\ PointCount(WithoutCommas(read)) = Len(points_arr.kids)
      /\ PointsOf(read) = [i \in 1 .. Len(points_arr.kids) |-> PointOf(i)]
  BY <1>1, <1>4, FoundIsFile
<1>6. s.points = FirstPoints(s.pair_cnt)
  BY <1>2 DEF ReadUpTo
<1>7. FirstPoints(s.pair_cnt) = PointsOf(read)
  BY <1>3, <1>5 DEF FirstPoints
<1>8. Len(s.points) = s.pair_cnt
  BY <1>3, <1>6 DEF FirstPoints
<1>. QED
  BY <1>3, <1>5, <1>6, <1>7, <1>8 DEF FileFacts

LEMMA ClientJudged ==
  ASSUME VerdictInv, step \in {"elements", "ready", "validate"}, step' \in {"ready", "validate", "finish"},
         UNCHANGED vars, UNCHANGED <<file, s, denied, outcome>>, ReadUpTo(s.pair_cnt),
         step' = "finish" => s.validation = TRUE
  PROVE  Judged'
<1>1. Surveyed /\ Sums
  BY PastIsParsed DEF Past, Surveys, VerdictInv, Judged
<1>2. s' = s /\ file' = file /\ denied' = denied /\ outcome' = outcome
  OBVIOUS
<1>3. Surveyed' /\ ReadUpTo(s.pair_cnt)'
  BY <1>1, <1>2, SurveyedSame, ReadSame
<1>4. Survey'
  BY <1>3 DEF Survey
<1>5. Sums'
  BY <1>1, <1>2 DEF Sums, Surveys, Finals
<1>. QED
  BY <1>1, <1>2, <1>4, <1>5, NotYet DEF Judged, Sums

LEMMA ReturnJudged ==
  ASSUME VerdictInv, SetupReturns
  PROVE  Judged'
<1>1. step = "elements" /\ step' = "ready" /\ UNCHANGED vars /\ UNCHANGED <<file, s, denied, outcome>> /\ Len(s.points) = s.pair_cnt
  BY DEF SetupReturns
<1>2. Surveyed
  BY <1>1, PastIsParsed DEF Past, Surveys
<1>3. PICK k \in 0 .. s.pair_cnt : ReadUpTo(k)
  BY <1>2 DEF Surveyed
<1>4. k \in Nat /\ s.points = FirstPoints(k)
  BY <1>2, <1>3 DEF Surveyed, ReadUpTo
<1>5. Len(s.points) = k
  BY <1>4 DEF FirstPoints
<1>. QED
  BY <1>1, <1>3, <1>5, ClientJudged

LEMMA CalculateJudged ==
  ASSUME VerdictInv, Calculate
  PROVE  Judged'
<1>1. step = "ready" /\ ReadUpTo(s.pair_cnt)
  BY DEF Calculate, VerdictInv, Judged, Survey
<1>2. CASE s.pair_cnt > 0 /\ s.answers.data = MapFailed /\ Die("crashed")
  <2>1. "answers" \in denied
    BY <1>1, <1>2 DEF VerdictInv, Judged, Sums, Surveys
  <2>2. step' = "exit" /\ outcome' = "crashed" /\ denied' = denied
    BY <1>2 DEF Die
  <2>3. OutcomeIsDeserved'
    BY <2>1, <2>2 DEF OutcomeIsDeserved
  <2>. QED
    BY <2>2, <2>3, EndJudged
<1>3. CASE step' = "validate" /\ UNCHANGED <<vars, pages, maps, file, b, s, denied, outcome>>
  BY <1>1, <1>3, ClientJudged
<1>. QED
  BY <1>2, <1>3 DEF Calculate

LEMMA ValidateJudged ==
  ASSUME VerdictInv, Validate
  PROVE  Judged'
<1>1. step = "validate" /\ ReadUpTo(s.pair_cnt)
  BY DEF Validate, VerdictInv, Judged, Survey
<1>2. s.validation = is_valid(s.checksum)
  BY <1>1 DEF VerdictInv, Judged, Sums, Finals
<1>3. CASE ~s.validation /\ Die("aborted")
  <2>1. "checksum" \in denied
    BY <1>1, <1>2, <1>3 DEF VerdictInv, Judged, Sums, Surveys
  <2>2. IsPointsFile(read)
    BY <1>1, ReadyFacts DEF FileFacts
  <2>3. step' = "exit" /\ outcome' = "aborted" /\ denied' = denied /\ read' = read
    BY <1>3 DEF Die, vars
  <2>4. OutcomeIsDeserved'
    BY <2>1, <2>2, <2>3 DEF OutcomeIsDeserved
  <2>. QED
    BY <2>3, <2>4, EndJudged
<1>4. CASE s.validation /\ step' = "finish" /\ UNCHANGED <<vars, pages, maps, file, b, s, denied, outcome>>
  <2>1. s.validation = TRUE
    BY <1>2, <1>4, Zenon DEF is_valid
  <2>. QED
    BY <1>1, <1>4, <2>1, ClientJudged
<1>. QED
  BY <1>3, <1>4 DEF Validate

LEMMA FinishJudged ==
  ASSUME VerdictInv, Finish
  PROVE  Judged'
<1>1. /\ step' = "exit" /\ read' = read /\ file' = file /\ denied' = denied /\ step \in {"finish", "loaded"}
      /\ outcome' = IF step = "finish" THEN "validated" ELSE "tokenized"
  BY DEF Finish, cleanup_haversine_state
<1>2. CASE step = "finish"
  <2>1. FileFacts
    BY <1>2, ReadyFacts
  <2>2. "checksum" \notin denied /\ file.len = s.pair_cnt + 1
    BY <1>2 DEF VerdictInv, Judged, Sums, Surveys, Finals
  <2>3. OutcomeIsDeserved'
    BY <1>1, <1>2, <2>1, <2>2 DEF FileFacts, OutcomeIsDeserved
  <2>. QED
    BY <1>1, <2>3, EndJudged
<1>3. CASE step = "loaded"
  <2>1. OutcomeIsDeserved'
    BY <1>1, <1>3 DEF OutcomeIsDeserved
  <2>. QED
    BY <1>1, <2>1, EndJudged
<1>. QED
  BY <1>1, <1>2, <1>3

LEMMA SameJudged ==
  ASSUME VerdictInv, UNCHANGED allvars
  PROVE  Judged'
<1>1. UNCHANGED vars /\ UNCHANGED <<file, b, s, step, denied, outcome>> /\ read' = read
  BY DEF allvars, hvars, vars
<1>2. Survey /\ Sums /\ OutcomeIsDeserved
  BY DEF VerdictInv, Judged
<1>3. (Past' => Surveyed') /\ (step' \in {"ready", "validate", "finish"} => ReadUpTo(s.pair_cnt)')
  BY <1>1, <1>2, SurveyedSame, ReadSame DEF Survey, Past
<1>4. Survey'
  BY <1>1, <1>2, <1>3 DEF Survey
<1>5. Sums' /\ OutcomeIsDeserved'
  BY <1>1, <1>2 DEF Sums, OutcomeIsDeserved
<1>. QED
  BY <1>4, <1>5 DEF Judged

LEMMA ParseJudged ==
  ASSUME VerdictInv, ParseFile
  PROVE  Judged'
<1>1. step = "parse" /\ UNCHANGED <<file, s, step, denied, outcome>>
  BY DEF ParseFile, hvars
<1>2. Survey /\ Sums
  BY DEF VerdictInv, Judged
<1>3. Survey' /\ Sums' /\ outcome' = "none"
  BY <1>1, <1>2 DEF Survey, Sums, Past, Surveys, Finals
<1>. QED
  BY <1>3, NotYet DEF Judged

LEMMA VerdictStep ==
  ASSUME VerdictInv, [Next]_allvars
  PROVE  Judged'
<1>1. CASE AllocatePairs \/ AllocateAnswers
  BY <1>1, FieldJudged DEF AllocatePairs, AllocateAnswers
<1>2. CASE Terminating \/ UNCHANGED allvars
  BY <1>2, SameJudged DEF Terminating
<1>. QED
  BY <1>1, <1>2, StartJudged, OpenJudged, AllocateJudged, ReadJudged, ParseJudged, RootJudged, ChecksumJudged,
     PointJudged, ReturnJudged, CalculateJudged, ValidateJudged, FinishJudged, Zenon DEF Next, Run

LEMMA VerdictStart == StateInit => Judged
<1>. SUFFICES ASSUME StateInit PROVE Judged
  OBVIOUS
<1>1. file.name = "json" /\ step = "start" /\ denied = {} /\ outcome = "none"
  BY DEF StateInit
<1>2. Survey /\ Sums /\ OutcomeIsDeserved
  BY <1>1 DEF Survey, Sums, OutcomeIsDeserved, Past, Surveys, Finals
<1>. QED
  BY <1>2 DEF Judged

\* Once setup is past the root, the tree is one of points as far as it was
\* looked at, and the points are those; what is known of the checksum is what
\* was given of it; and a program that has ended has ended as it had to
\* (setup_haversine_state, its checks and its early returns).
THEOREM VerdictIsRight == Spec => []Judged
<1>1. SetupInv /\ Reading /\ Telling /\ Judged /\ [Next]_allvars => Judged'
  BY VerdictStep DEF VerdictInv
<1>. QED
  BY <1>1, VerdictStart, SetupIsRight, ReadingIsRight, TreeSaysWhatWasRead, PTL DEF Spec

LEMMA VerdictTakesTheFile == VerdictInv => PairsAreTheFiles
<1>. SUFFICES ASSUME VerdictInv, step \in {"ready", "validate", "finish"}
              PROVE  /\ IsPointsFile(read)
                     /\ s.points = PointsOf(read)
                     /\ s.validation => s.checksum.len = Len(s.points) + 1
  BY DEF PairsAreTheFiles
<1>1. FileFacts
  BY ReadyFacts
<1>2. s.validation = is_valid(s.checksum) /\ (is_valid(s.checksum) => s.checksum.len = s.pair_cnt + 1)
  BY DEF VerdictInv, Judged, Sums, Finals
<1>3. s.validation => s.checksum.len = s.pair_cnt + 1
  BY <1>2, Zenon
<1>. QED
  BY <1>1, <1>3 DEF FileFacts

\* When setup succeeds, the file is one of points, and the pairs are its points,
\* in order and each number under its name, whatever the order of the fields
\* (haversine_state.hpp:118-151); and if there are answers to validate against,
\* there is one for each, and their sum.
THEOREM PairsAreThoseOfTheFile == Spec => []PairsAreTheFiles
<1>1. SetupInv /\ Reading /\ Telling /\ Judged => PairsAreTheFiles
  BY VerdictTakesTheFile DEF VerdictInv
<1>. QED
  BY <1>1, VerdictIsRight, SetupIsRight, ReadingIsRight, TreeSaysWhatWasRead, PTL

\* The program rejects no file of points with a checksum of the right length or
\* none, validates no other, and dies only without memory or, in the assert of
\* validate_haversine_distances, without a checksum.
THEOREM EveryOutcomeIsDeserved == Spec => []OutcomeIsDeserved
<1>1. Judged => OutcomeIsDeserved
  BY DEF Judged
<1>. QED
  BY <1>1, VerdictIsRight, PTL

(***************************************************************************)
(* What is printed of the tree, and what it reads as.                      *)
(***************************************************************************)
\* Induction over the tree: a block after its kids.
LEMMA KidsFirst ==
  ASSUME NEW h, NEW n, Shaped(h), HeapSound(h, n), NEW T,
         \A c \in DOMAIN h : (\A i \in 1 .. Len(h[c].kids) : h[c].kids[i] \in T) => c \in T
  PROVE  \A c \in DOMAIN h : c \in T
<1>. DEFINE D == {k \in Nat : \E c \in DOMAIN h : k = n - c /\ c \notin T}
<1>1. n \in Nat /\ DOMAIN h \in SUBSET (1 .. n)
  BY DEF HeapSound, HeapOk
<1>2. SUFFICES ASSUME D # {} PROVE FALSE
  <2>1. ASSUME NEW c \in DOMAIN h, c \notin T PROVE n - c \in D
    <3>1. n - c \in Nat
      BY <1>1
    <3>. QED
      BY <2>1, <3>1
  <2>. QED
    BY <2>1
<1>3. PICK k \in D : \A j \in D : k <= j
  <2>1. D \in SUBSET Nat
    OBVIOUS
  <2>. HIDE DEF D
  <2>. QED
    BY <1>2, <2>1, LeastNatural
<1>4. PICK c \in DOMAIN h : k = n - c /\ c \notin T
  BY <1>3
<1>5. ASSUME NEW i \in 1 .. Len(h[c].kids) PROVE h[c].kids[i] \in T
  <2>. DEFINE d == h[c].kids[i]
  <2>1. h[c].kids \in Seq(Nat \ {0}) /\ d \in DOMAIN h
    BY DEF Shaped, ShapeOf
  <2>2. d \in KidsOf(h)[c]
    BY <2>1 DEF KidsOf, Range
  <2>3. c < d
    BY <2>2, HeapLeafy
  <2>4. n \in Nat /\ c \in Nat /\ d \in Nat /\ d <= n
    BY <1>1, <2>1
  <2>. HIDE DEF d
  <2>5. n - d \in Nat /\ ~ (k <= n - d)
    BY ONLY <1>4, <2>3, <2>4
  <2>6. n - d \notin D
    BY <1>3, <2>5
  <2>7. d \in T
    BY <2>1, <2>5, <2>6
  <2>. QED
    BY <2>7 DEF d
<1>. HIDE DEF D
<1>. QED
  BY <1>4, <1>5

\* The items of a list, as print_json prints them, each with a comma.
PrintedItems(h, P, c) == [i \in 1 .. Len(h[c].kids) |-> ItemOf("printed", h, P, c, i)]

LEMMA PrintedList ==
  ASSUME NEW h, NEW P, Written("printed", h, P), NEW c \in DOMAIN h, h[c].kind \in Kinds
  PROVE  P[c] = <<Opener(h[c].kind)>> \o FlatTo(PrintedItems(h, P, c), Len(h[c].kids)) \o <<Closer(h[c].kind)>>
<1>1. P[c] = WordOf("printed", h, P, c)
  BY DEF Written
<1>. QED
  BY <1>1 DEF WordOf, ListWord, ItemsOf, Mark, PrintedItems

PrintsLeaf(h, P, c) ==
  /\ h[c].kind = "string" => P[c] = Bare[TextIn(h, c)]
  /\ h[c].kind \in Literals => P[c] = <<h[c].kind>>

LEMMA TextIs ==
  ASSUME NEW h, Shaped(h), NEW c \in DOMAIN h, h[c].kind = "string"
  PROVE  TextIn(h, c) \in Strings
<1>1. ShapeOf(h, c)
  BY DEF Shaped
<1>2. h[c].names[1] \in DOMAIN h /\ h[h[c].names[1]].kind = "text"
  BY <1>1 DEF ShapeOf
<1>. QED
  BY <1>2 DEF Shaped, ShapeOf, TextIn

LEMMA PrintedLeaf ==
  ASSUME NEW h, NEW P, Written("printed", h, P), NEW c \in DOMAIN h
  PROVE  PrintsLeaf(h, P, c)
<1>1. P[c] = WordOf("printed", h, P, c)
  BY DEF Written
<1>. QED
  BY <1>1 DEF WordOf, LeafOf, StringOf, PrintsLeaf, Kinds, Literals

LEMMA FieldTokens ==
  ASSUME NEW h, Shaped(h), NEW c \in DOMAIN h, NEW i \in 1 .. Len(h[c].kids), NEW v, v # "numbers"
  PROVE  FieldOf(v, h, c, i) = FieldOf("tokens", h, c, i)
         /\ IF h[c].kind = "object"
            THEN \E x \in Strings : FieldOf(v, h, c, i) = <<x>> \o <<"colon">>
            ELSE FieldOf(v, h, c, i) = <<>>
<1>1. CASE h[c].kind = "object"
  <2>. DEFINE x == h[h[c].names[i]].val
  <2>1. h[c].names[i] \in DOMAIN h /\ h[h[c].names[i]].kind = "text"
    BY <1>1 DEF Shaped, ShapeOf
  <2>2. x \in Strings
    BY <2>1 DEF Shaped, ShapeOf
  <2>3. FieldOf(v, h, c, i) = <<x>> \o <<"colon">> /\ FieldOf("tokens", h, c, i) = <<x>> \o <<"colon">>
    BY <1>1 DEF FieldOf, NameOf, Mark
  <2>. HIDE DEF x
  <2>. QED
    BY <1>1, <2>2, <2>3
<1>2. CASE h[c].kind # "object"
  BY <1>2 DEF FieldOf
<1>. QED
  BY <1>1, <1>2

LEMMA ItemTokens ==
  ASSUME NEW h, Shaped(h), NEW P, NEW c \in DOMAIN h, NEW i \in 1 .. Len(h[c].kids), P[h[c].kids[i]] \in Seq(Tokens)
  PROVE  /\ FieldOf("printed", h, c, i) \in Seq(Tokens)
         /\ ItemOf("printed", h, P, c, i) = (FieldOf("printed", h, c, i) \o P[h[c].kids[i]]) \o <<"comma">>
         /\ ItemOf("printed", h, P, c, i) \in Seq(Tokens)
<1>. DEFINE f == FieldOf("printed", h, c, i)
            w == P[h[c].kids[i]]
<1>1. f \in Seq(Tokens)
  <2>1. CASE h[c].kind = "object"
    <3>1. PICK x \in Strings : f = <<x>> \o <<"colon">>
      BY <2>1, FieldTokens
    <3>2. x \in Tokens /\ "colon" \in Tokens
      BY DEF Tokens, Symbols
    <3>3. <<x>> \in Seq(Tokens) /\ <<"colon">> \in Seq(Tokens)
      BY <3>2
    <3>. QED
      BY <3>1, <3>3, ConcatIs
  <2>2. CASE h[c].kind # "object"
    <3>1. f = <<>>
      BY <2>2, FieldTokens
    <3>2. <<>> \in Seq(Tokens)
      OBVIOUS
    <3>. HIDE DEF f
    <3>. QED
      BY <3>1, <3>2
  <2>. QED
    BY <2>1, <2>2
<1>2. ItemOf("printed", h, P, c, i) = (f \o w) \o <<"comma">>
  BY DEF ItemOf, Sep
<1>. HIDE DEF f
<1>3. <<"comma">> \in Seq(Tokens)
  BY DEF Tokens, Symbols
<1>4. f \o w \in Seq(Tokens)
  BY <1>1, ConcatIs
<1>5. (f \o w) \o <<"comma">> \in Seq(Tokens)
  BY <1>3, <1>4, ConcatIs
<1>. QED
  BY <1>1, <1>2, <1>5 DEF f

\* What is printed of an entity are tokens.
LEMMA PrintedTokens ==
  ASSUME NEW h, NEW n, Shaped(h), HeapSound(h, n), NEW P, Written("printed", h, P)
  PROVE  \A c \in DOMAIN h : h[c].kind \in EntityKinds => P[c] \in Seq(Tokens)
<1>. DEFINE T == {c \in DOMAIN h : h[c].kind \in EntityKinds => P[c] \in Seq(Tokens)}
<1>1. ASSUME NEW c \in DOMAIN h, \A i \in 1 .. Len(h[c].kids) : h[c].kids[i] \in T, h[c].kind \in EntityKinds
      PROVE  P[c] \in Seq(Tokens)
  <2>1. CASE h[c].kind \in Kinds
    <3>. DEFINE m == Len(h[c].kids)
                q == PrintedItems(h, P, c)
                op == Opener(h[c].kind)
                cl == Closer(h[c].kind)
    <3>1. m \in Nat
      BY ShapeKids
    <3>2. ASSUME NEW i \in 1 .. m PROVE q[i] \in Seq(Tokens)
      <4>1. P[h[c].kids[i]] \in Seq(Tokens)
        BY <1>1 DEF Shaped, ShapeOf
      <4>2. ItemOf("printed", h, P, c, i) \in Seq(Tokens)
        BY <4>1, ItemTokens
      <4>. QED
        BY <4>2 DEF PrintedItems
    <3>3. P[c] = (<<op>> \o FlatTo(q, m)) \o <<cl>>
      BY <2>1, PrintedList
    <3>4. <<op>> \in Seq(Tokens) /\ <<cl>> \in Seq(Tokens)
      BY DEF Opener, Closer, Tokens, Symbols
    <3>. HIDE DEF m, q, op, cl
    <3>5. FlatTo(q, m) \in Seq(Tokens)
      <4>1. m \in 0 .. m
        BY <3>1
      <4>. QED
        BY <3>1, <3>2, <4>1, FlatToIs
    <3>6. <<op>> \o FlatTo(q, m) \in Seq(Tokens)
      BY <3>4, <3>5, ConcatIs
    <3>. QED
      BY <3>3, <3>4, <3>6, ConcatIs
  <2>2. CASE h[c].kind \notin Kinds
    <3>1. PrintsLeaf(h, P, c)
      BY PrintedLeaf
    <3>2. CASE h[c].kind = "string"
      <4>1. TextIn(h, c) \in Strings /\ P[c] = Bare[TextIn(h, c)]
        BY <3>1, <3>2, TextIs DEF PrintsLeaf
      <4>. QED
        BY <4>1, BareIs
    <3>3. CASE h[c].kind \in Literals
      <4>1. P[c] = <<h[c].kind>> /\ \A x \in Literals : <<x>> \in Seq(Tokens)
        BY <3>1, <3>3 DEF Tokens, PrintsLeaf
      <4>. QED
        BY <3>3, <4>1
    <3>. QED
      BY <1>1, <2>2, <3>2, <3>3 DEF EntityKinds
  <2>. QED
    BY <2>1, <2>2
<1>2. \A c \in DOMAIN h : (\A i \in 1 .. Len(h[c].kids) : h[c].kids[i] \in T) => c \in T
  BY <1>1
<1>. HIDE DEF T
<1>3. \A c \in DOMAIN h : c \in T
  BY <1>2, KidsFirst
<1>. QED
  BY <1>3 DEF T

\* Parts put together up to m, and those after it.
Parted(X, q, r, m, n, e) ==
  /\ m \in Nat /\ n \in Nat /\ e \in Nat /\ e = m + n
  /\ \A i \in 1 .. e : q[i] \in Seq(X)
  /\ \A i \in 1 .. n : r[i] = q[m + i]

LEMMA FlatSplit ==
  ASSUME NEW X, NEW q, NEW r, NEW m, NEW n, NEW e, Parted(X, q, r, m, n, e)
  PROVE  FlatTo(q, e) = FlatTo(q, m) \o FlatTo(r, n)
<1>0. /\ m \in Nat /\ n \in Nat /\ e \in Nat /\ e = m + n
      /\ \A i \in 1 .. e : q[i] \in Seq(X)
      /\ \A i \in 1 .. n : r[i] = q[m + i]
  BY DEF Parted
<1>1. m \in 0 .. e /\ \A i \in 1 .. n : m + i \in 1 .. e /\ m + (i - 1) = (m + i) - 1
  BY <1>0
<1>2. /\ FlatTo(q, 0) = <<>>
      /\ \A k \in 0 .. e : FlatTo(q, k) \in Seq(X)
      /\ \A k \in 1 .. e : FlatTo(q, k) = FlatTo(q, k - 1) \o q[k]
  <2>1. ASSUME NEW j \in Nat, NEW p, \A i \in 1 .. j : p[i] \in Seq(X)
        PROVE  /\ FlatTo(p, 0) = <<>>
               /\ \A k \in 0 .. j : FlatTo(p, k) \in Seq(X)
               /\ \A k \in 1 .. j : FlatTo(p, k) = FlatTo(p, k - 1) \o p[k]
    BY <2>1, FlatToIs
  <2>. QED
    BY <1>0, <2>1
<1>3. \A i \in 1 .. n : r[i] \in Seq(X)
  BY <1>0, <1>1
<1>4. /\ FlatTo(r, 0) = <<>>
      /\ \A k \in 0 .. n : FlatTo(r, k) \in Seq(X)
      /\ \A k \in 1 .. n : FlatTo(r, k) = FlatTo(r, k - 1) \o r[k]
  <2>1. ASSUME NEW j \in Nat, NEW p, \A i \in 1 .. j : p[i] \in Seq(X)
        PROVE  /\ FlatTo(p, 0) = <<>>
               /\ \A k \in 0 .. j : FlatTo(p, k) \in Seq(X)
               /\ \A k \in 1 .. j : FlatTo(p, k) = FlatTo(p, k - 1) \o p[k]
    BY <2>1, FlatToIs
  <2>. QED
    BY <1>0, <1>3, <2>1
<1>. DEFINE T == {k \in 0 .. n : FlatTo(q, m + k) = FlatTo(q, m) \o FlatTo(r, k)}
<1>5. 0 \in T
  <2>1. FlatTo(q, m) \o <<>> = FlatTo(q, m)
    BY <1>1, <1>2, ConcatEmpty
  <2>2. m + 0 = m /\ 0 \in 0 .. n
    BY <1>0
  <2>. QED
    BY <1>4, <2>1, <2>2
<1>6. ASSUME NEW i \in 1 .. n, i - 1 \in T PROVE i \in T
  <2>1. FlatTo(q, m + (i - 1)) = FlatTo(q, m) \o FlatTo(r, i - 1)
    BY <1>6
  <2>2. FlatTo(q, m + i) = FlatTo(q, m + (i - 1)) \o q[m + i]
    BY <1>1, <1>2
  <2>3. FlatTo(q, m) \in Seq(X) /\ FlatTo(r, i - 1) \in Seq(X) /\ r[i] \in Seq(X) /\ r[i] = q[m + i]
    <3>1. i - 1 \in 0 .. n
      BY <1>0
    <3>. QED
      BY <1>0, <1>1, <1>2, <1>3, <1>4, <3>1
  <2>4. (FlatTo(q, m) \o FlatTo(r, i - 1)) \o r[i] = FlatTo(q, m) \o (FlatTo(r, i - 1) \o r[i])
    <3>. DEFINE u == FlatTo(q, m)
                v == FlatTo(r, i - 1)
                w == r[i]
    <3>1. u \in Seq(X) /\ v \in Seq(X) /\ w \in Seq(X)
      BY <2>3
    <3>. HIDE DEF u, v, w
    <3>2. (u \o v) \o w = u \o (v \o w)
      BY <3>1, ConcatThree
    <3>. QED
      BY <3>2 DEF u, v, w
  <2>5. FlatTo(r, i) = FlatTo(r, i - 1) \o r[i]
    BY <1>4
  <2>6. i \in 0 .. n
    BY <1>0
  <2>. QED
    BY <2>1, <2>2, <2>3, <2>4, <2>5, <2>6
<1>. HIDE DEF T
<1>7. \A k \in 0 .. n : k \in T
  BY <1>0, <1>5, <1>6, UpTo
<1>8. n \in 0 .. n
  BY <1>0
<1>. QED
  BY <1>0, <1>7, <1>8 DEF T

\* Tokens that are put together say what each of them says.
LEMMA SaidConcat ==
  ASSUME NEW a \in Seq(Tokens), NEW b1 \in Seq(Tokens)
  PROVE  Said("tokens", a \o b1) = Said("tokens", a) \o Said("tokens", b1)
<1>. DEFINE m == Len(a)
            n == Len(b1)
            ab == a \o b1
            e == Len(ab)
            p == [i \in 1 .. m |-> SaidAt("tokens", a, i)]
            q == [i \in 1 .. e |-> SaidAt("tokens", ab, i)]
            r == [i \in 1 .. n |-> SaidAt("tokens", b1, i)]
<1>1. /\ m \in Nat /\ n \in Nat /\ e \in Nat /\ ab \in Seq(Tokens) /\ e = m + n
      /\ \A i \in 1 .. m : ab[i] = a[i]
      /\ \A i \in 1 .. n : ab[m + i] = b1[i]
  BY ConcatIs
<1>. HIDE DEF ab
<1>2. \A i \in 1 .. e : q[i] \in Seq(Words)
  BY <1>1, SaidAtIs
<1>3. \A i \in 1 .. n : r[i] = q[m + i]
  <2>1. ASSUME NEW i \in 1 .. n PROVE SaidAt("tokens", b1, i) = SaidAt("tokens", ab, m + i)
    BY <1>1 DEF SaidAt
  <2>2. \A i \in 1 .. n : m + i \in 1 .. e
    BY <1>1
  <2>. QED
    BY <2>1, <2>2
<1>4. [i \in 1 .. m |-> p[i]] = [i \in 1 .. m |-> q[i]]
  <2>1. \A i \in 1 .. m : SaidAt("tokens", a, i) = SaidAt("tokens", ab, i)
    BY <1>1 DEF SaidAt
  <2>2. \A i \in 1 .. m : i \in 1 .. e
    BY <1>1
  <2>. QED
    BY <2>1, <2>2
<1>5. Said("tokens", ab) = FlatTo(q, e) /\ Said("tokens", a) = FlatTo(p, m) /\ Said("tokens", b1) = FlatTo(r, n)
  BY <1>1, Zenon DEF Said, SaidTo
<1>. HIDE DEF p, q, r
<1>6. FlatTo(p, m) = FlatTo(q, m)
  BY <1>4, Zenon DEF FlatTo
<1>. HIDE DEF m, n, e
<1>7. FlatTo(q, e) = FlatTo(q, m) \o FlatTo(r, n)
  <2>1. Parted(Words, q, r, m, n, e)
    BY <1>1, <1>2, <1>3 DEF Parted
  <2>. QED
    BY <2>1, FlatSplit
<1>. QED
  BY <1>5, <1>6, <1>7 DEF ab

LEMMA SaidNone == Said("tokens", <<>>) = <<>>
<1>1. Len(<<>>) = 0 /\ [i \in 1 .. 0 |-> [i1 \in 1 .. 0 |-> SaidAt("tokens", <<>>, i1)][i]] = <<>>
  OBVIOUS
<1>. QED
  BY <1>1, FlatEmpty DEF Said, SaidTo, FlatTo

LEMMA SaidOne ==
  ASSUME NEW t \in Tokens
  PROVE  Said("tokens", <<t>>) = IF t = "comma" THEN <<>> ELSE <<t>>
<1>. DEFINE e == <<>>
<1>1. e \in Seq(Tokens) /\ Append(e, t) = <<t>> /\ Len(e) = 0 /\ Append(e, t)[1] = t
  OBVIOUS
<1>2. /\ Said("tokens", Append(e, t)) = Said("tokens", e) \o SaidAt("tokens", Append(e, t), Len(e) + 1)
      /\ SaidAt("tokens", Append(e, t), Len(e) + 1) \in Seq(Words)
  BY <1>1, SaidAppend
<1>3. SaidAt("tokens", Append(e, t), Len(e) + 1) = IF t = "comma" THEN <<>> ELSE <<t>>
  BY <1>1 DEF SaidAt
<1>4. Said("tokens", e) = <<>>
  BY SaidNone
<1>. QED
  BY <1>1, <1>2, <1>3, <1>4, ConcatEmpty

LEMMA SaidFlat ==
  ASSUME NEW n \in Nat, NEW p, \A i \in 1 .. n : p[i] \in Seq(Tokens),
         NEW q, \A i \in 1 .. n : q[i] = Said("tokens", p[i])
  PROVE  Said("tokens", FlatTo(p, n)) = FlatTo(q, n)
<1>. DEFINE T == {k \in 0 .. n : Said("tokens", FlatTo(p, k)) = FlatTo(q, k)}
<1>1. /\ FlatTo(p, 0) = <<>>
      /\ \A k \in 0 .. n : FlatTo(p, k) \in Seq(Tokens)
      /\ \A k \in 1 .. n : FlatTo(p, k) = FlatTo(p, k - 1) \o p[k]
  BY FlatToIs
<1>2. \A i \in 1 .. n : q[i] \in Seq(Words)
  <2>1. "comma" \in Tokens
    BY DEF Tokens, Symbols
  <2>. QED
    BY <2>1, SaidAppend
<1>3. FlatTo(q, 0) = <<>> /\ \A k \in 1 .. n : FlatTo(q, k) = FlatTo(q, k - 1) \o q[k]
  BY <1>2, FlatToIs
<1>4. 0 \in T
  <2>1. 0 \in 0 .. n
    OBVIOUS
  <2>. QED
    BY <1>1, <1>3, <2>1, SaidNone
<1>5. ASSUME NEW i \in 1 .. n, i - 1 \in T PROVE i \in T
  <2>1. Said("tokens", FlatTo(p, i - 1)) = FlatTo(q, i - 1) /\ i - 1 \in 0 .. n /\ i \in 0 .. n
    BY <1>5
  <2>2. Said("tokens", FlatTo(p, i - 1) \o p[i]) = Said("tokens", FlatTo(p, i - 1)) \o Said("tokens", p[i])
    BY <1>1, <2>1, SaidConcat
  <2>. QED
    BY <1>1, <1>3, <2>1, <2>2
<1>. HIDE DEF T
<1>6. \A k \in 0 .. n : k \in T
  BY <1>4, <1>5, UpTo
<1>7. n \in 0 .. n
  OBVIOUS
<1>. QED
  BY <1>6, <1>7 DEF T

\* What is printed of an item of a list says its name, if it has one, and its entity.
SaidItems(h, P, c) == [i \in 1 .. Len(h[c].kids) |-> FieldOf("tokens", h, c, i) \o Said("tokens", P[h[c].kids[i]])]

LEMMA FieldSays ==
  ASSUME NEW h, Shaped(h), NEW c \in DOMAIN h, NEW i \in 1 .. Len(h[c].kids)
  PROVE  Said("tokens", FieldOf("printed", h, c, i)) = FieldOf("tokens", h, c, i)
<1>. DEFINE f == FieldOf("printed", h, c, i)
<1>0. f = FieldOf("tokens", h, c, i)
  BY FieldTokens
<1>1. CASE h[c].kind = "object"
  <2>1. PICK x \in Strings : f = <<x>> \o <<"colon">>
    BY <1>1, FieldTokens
  <2>2. x \in Tokens /\ "colon" \in Tokens /\ x # "comma"
    BY StringsAssumption DEF Tokens, Symbols
  <2>3. Said("tokens", <<x>>) = <<x>> /\ Said("tokens", <<"colon">>) = <<"colon">>
    BY <2>2, SaidOne
  <2>4. <<x>> \in Seq(Tokens) /\ <<"colon">> \in Seq(Tokens)
    BY <2>2
  <2>5. Said("tokens", <<x>> \o <<"colon">>) = Said("tokens", <<x>>) \o Said("tokens", <<"colon">>)
    BY <2>4, SaidConcat
  <2>. QED
    BY <1>0, <2>1, <2>3, <2>5
<1>2. CASE h[c].kind # "object"
  BY <1>0, <1>2, FieldTokens, SaidNone
<1>. QED
  BY <1>1, <1>2

LEMMA ItemSays ==
  ASSUME NEW h, Shaped(h), NEW P, NEW c \in DOMAIN h, NEW i \in 1 .. Len(h[c].kids), P[h[c].kids[i]] \in Seq(Tokens)
  PROVE  /\ PrintedItems(h, P, c)[i] \in Seq(Tokens)
         /\ SaidItems(h, P, c)[i] = Said("tokens", PrintedItems(h, P, c)[i])
<1>. DEFINE f == FieldOf("printed", h, c, i)
            w == P[h[c].kids[i]]
            q == SaidItems(h, P, c)[i]
            p == PrintedItems(h, P, c)[i]
<1>1. f \in Seq(Tokens) /\ p = (f \o w) \o <<"comma">> /\ p \in Seq(Tokens)
  BY ItemTokens DEF PrintedItems
<1>2. Said("tokens", f) = FieldOf("tokens", h, c, i)
  BY FieldSays
<1>3. q = Said("tokens", f) \o Said("tokens", w)
  BY <1>2 DEF SaidItems
<1>4. w \in Seq(Tokens)
  OBVIOUS
<1>. HIDE DEF f, w, p, q
<1>5. "comma" \in Tokens /\ <<"comma">> \in Seq(Tokens)
  BY DEF Tokens, Symbols
<1>6. Said("tokens", <<"comma">>) = <<>>
  BY <1>5, SaidOne
<1>7. f \o w \in Seq(Tokens)
  BY <1>1, <1>4, ConcatIs
<1>8. Said("tokens", (f \o w) \o <<"comma">>) = Said("tokens", f \o w) \o Said("tokens", <<"comma">>)
  BY <1>5, <1>7, SaidConcat
<1>9. Said("tokens", f \o w) = Said("tokens", f) \o Said("tokens", w)
  BY <1>1, <1>4, SaidConcat
<1>10. Said("tokens", f \o w) \in Seq(Words)
  BY <1>5, <1>7, SaidAppend
<1>11. Said("tokens", f \o w) \o <<>> = Said("tokens", f \o w)
  BY <1>10, ConcatEmpty
<1>. QED
  BY <1>1, <1>3, <1>6, <1>8, <1>9, <1>11 DEF p, q

\* What is printed of a list says its brackets and its items.
LEMMA ListSays ==
  ASSUME NEW h, Shaped(h), NEW P, Written("printed", h, P), NEW c \in DOMAIN h, h[c].kind \in Kinds,
         \A i \in 1 .. Len(h[c].kids) : P[h[c].kids[i]] \in Seq(Tokens)
  PROVE  /\ Said("tokens", P[c]) = (<<Opener(h[c].kind)>> \o FlatTo(SaidItems(h, P, c), Len(h[c].kids))) \o <<Closer(h[c].kind)>>
         /\ \A i \in 1 .. Len(h[c].kids) : SaidItems(h, P, c)[i] \in Seq(Words)
<1>. DEFINE m == Len(h[c].kids)
            p == PrintedItems(h, P, c)
            q == SaidItems(h, P, c)
            op == Opener(h[c].kind)
            cl == Closer(h[c].kind)
<1>1. m \in Nat
  BY ShapeKids
<1>2. ASSUME NEW i \in 1 .. m PROVE p[i] \in Seq(Tokens) /\ q[i] = Said("tokens", p[i])
  BY ItemSays
<1>3. P[c] = (<<op>> \o FlatTo(p, m)) \o <<cl>>
  BY PrintedList
<1>4. op \in Tokens /\ cl \in Tokens /\ op # "comma" /\ cl # "comma"
  BY DEF Opener, Closer, Tokens, Symbols
<1>. HIDE DEF m, p, q, op, cl
<1>5. Said("tokens", FlatTo(p, m)) = FlatTo(q, m)
  BY <1>1, <1>2, SaidFlat
<1>6. FlatTo(p, m) \in Seq(Tokens)
  <2>1. m \in 0 .. m
    BY <1>1
  <2>2. \A k \in 0 .. m : FlatTo(p, k) \in Seq(Tokens)
    BY <1>1, <1>2, FlatToIs
  <2>. QED
    BY <2>1, <2>2
<1>7. Said("tokens", <<op>>) = <<op>> /\ Said("tokens", <<cl>>) = <<cl>>
  BY <1>4, SaidOne
<1>8. <<op>> \in Seq(Tokens) /\ <<cl>> \in Seq(Tokens)
  BY <1>4
<1>9. <<op>> \o FlatTo(p, m) \in Seq(Tokens)
  BY <1>6, <1>8, ConcatIs
<1>10. Said("tokens", <<op>> \o FlatTo(p, m)) = <<op>> \o FlatTo(q, m)
  <2>1. Said("tokens", <<op>> \o FlatTo(p, m)) = Said("tokens", <<op>>) \o Said("tokens", FlatTo(p, m))
    BY <1>6, <1>8, SaidConcat
  <2>. QED
    BY <1>5, <1>7, <2>1
<1>11. Said("tokens", (<<op>> \o FlatTo(p, m)) \o <<cl>>)
         = Said("tokens", <<op>> \o FlatTo(p, m)) \o Said("tokens", <<cl>>)
  BY <1>8, <1>9, SaidConcat
<1>12. \A i \in 1 .. m : q[i] \in Seq(Words)
  <2>1. "comma" \in Tokens
    BY DEF Tokens, Symbols
  <2>. QED
    BY <1>2, <2>1, SaidAppend
<1>. QED
  BY <1>3, <1>7, <1>10, <1>11, <1>12 DEF m, p, q, op, cl

\* Without strings, what is printed says what was read: only commas are put in.
LEMMA PrintedSays ==
  ASSUME NEW h, NEW n, Shaped(h), HeapSound(h, n), NEW P, Written("printed", h, P), NEW W, Written("tokens", h, W),
         \A c \in DOMAIN h : h[c].kind # "string"
  PROVE  \A c \in DOMAIN h : h[c].kind \in EntityKinds => Said("tokens", P[c]) = W[c]
<1>. DEFINE T == {c \in DOMAIN h : h[c].kind \in EntityKinds => Said("tokens", P[c]) = W[c]}
<1>1. \A c \in DOMAIN h : h[c].kind \in EntityKinds => P[c] \in Seq(Tokens)
  BY PrintedTokens
<1>2. ASSUME NEW c \in DOMAIN h, \A i \in 1 .. Len(h[c].kids) : h[c].kids[i] \in T, h[c].kind \in EntityKinds
      PROVE  Said("tokens", P[c]) = W[c]
  <2>1. CASE h[c].kind \in Kinds
    <3>. DEFINE m == Len(h[c].kids)
                p == SaidItems(h, P, c)
                q == [i \in 1 .. m |-> ItemOf("tokens", h, W, c, i)]
                op == Opener(h[c].kind)
                cl == Closer(h[c].kind)
    <3>1. ASSUME NEW i \in 1 .. m PROVE P[h[c].kids[i]] \in Seq(Tokens) /\ Said("tokens", P[h[c].kids[i]]) = W[h[c].kids[i]]
      BY <1>1, <1>2 DEF Shaped, ShapeOf
    <3>2. Said("tokens", P[c]) = (<<op>> \o FlatTo(p, m)) \o <<cl>> /\ \A i \in 1 .. m : p[i] \in Seq(Words)
      BY <2>1, <3>1, ListSays
    <3>3. W[c] = (<<op>> \o FlatTo(q, m)) \o <<cl>>
      BY <2>1 DEF Written, WordOf, ListWord, ItemsOf, Mark
    <3>4. ASSUME NEW i \in 1 .. m PROVE p[i] = q[i]
      <4>1. p[i] = FieldOf("tokens", h, c, i) \o W[h[c].kids[i]]
        BY <3>1 DEF SaidItems
      <4>2. q[i] = p[i] \o <<>>
        BY <4>1 DEF ItemOf, Sep
      <4>3. p[i] \o <<>> = p[i]
        BY <3>2, ConcatEmpty
      <4>. QED
        BY <4>2, <4>3
    <3>. HIDE DEF p, q, m, op, cl
    <3>5. FlatTo(p, m) = FlatTo(q, m)
      <4>1. [i \in 1 .. m |-> p[i]] = [i \in 1 .. m |-> q[i]]
        BY <3>4, Zenon
      <4>. QED
        BY <4>1, Zenon DEF FlatTo
    <3>. QED
      BY <3>2, <3>3, <3>5
  <2>2. CASE h[c].kind \in Literals
    <3>. DEFINE x == h[c].kind
    <3>1. P[c] = <<x>>
      BY <2>2, PrintedLeaf DEF PrintsLeaf
    <3>2. W[c] = <<x>>
      BY <2>2 DEF Written, WordOf, LeafOf, Kinds, Literals
    <3>3. x \in Tokens /\ x # "comma"
      BY <2>2 DEF Tokens, Literals
    <3>. HIDE DEF x
    <3>. QED
      BY <3>1, <3>2, <3>3, SaidOne
  <2>. QED
    BY <1>2, <2>1, <2>2 DEF EntityKinds
<1>3. \A c \in DOMAIN h : (\A i \in 1 .. Len(h[c].kids) : h[c].kids[i] \in T) => c \in T
  BY <1>2
<1>. HIDE DEF T
<1>4. \A c \in DOMAIN h : c \in T
  BY <1>3, KidsFirst
<1>. QED
  BY <1>4 DEF T

(***************************************************************************)
(* With strings it does not: a string loses its quotes, so every string    *)
(* that is printed is the name of a field.                                 *)
(***************************************************************************)
\* Every string of w is the name of a field.
Named(w) == \A i \in 1 .. Len(w) : w[i] \in Strings => i + 1 <= Len(w) /\ w[i + 1] = "colon"

LEMMA NamedConcat ==
  ASSUME NEW a \in Seq(Words), NEW b1 \in Seq(Words), Named(a), Named(b1)
  PROVE  Named(a \o b1)
<1>. DEFINE w == a \o b1
            m == Len(a)
            n == Len(b1)
<1>1. m \in Nat /\ n \in Nat /\ Len(w) = m + n /\ (\A i \in 1 .. m : w[i] = a[i]) /\ \A i \in 1 .. n : w[m + i] = b1[i]
  BY ConcatIs
<1>2. /\ \A i \in 1 .. m : a[i] \in Strings => i + 1 <= m /\ a[i + 1] = "colon"
      /\ \A i \in 1 .. n : b1[i] \in Strings => i + 1 <= n /\ b1[i + 1] = "colon"
  BY DEF Named
<1>. HIDE DEF w, m, n
<1>3. ASSUME NEW i \in 1 .. m + n, w[i] \in Strings PROVE i + 1 <= m + n /\ w[i + 1] = "colon"
  <2>1. CASE i <= m
    <3>1. i \in 1 .. m
      BY <1>1, <2>1
    <3>2. i + 1 <= m /\ a[i + 1] = "colon"
      BY <1>1, <1>2, <1>3, <3>1
    <3>3. i + 1 \in 1 .. m /\ i + 1 <= m + n
      BY <1>1, <3>1, <3>2
    <3>. QED
      BY <1>1, <3>2, <3>3
  <2>2. CASE ~ (i <= m)
    <3>. DEFINE j == i - m
    <3>1. j \in 1 .. n /\ i = m + j /\ j + 1 \in Nat
      BY <1>1, <2>2
    <3>. HIDE DEF j
    <3>2. b1[j] \in Strings
      BY <1>1, <1>3, <3>1
    <3>3. j + 1 <= n /\ b1[j + 1] = "colon"
      BY <1>2, <3>1, <3>2
    <3>4. j + 1 \in 1 .. n /\ m + (j + 1) = i + 1 /\ i + 1 <= m + n
      BY <1>1, <3>1, <3>3
    <3>. QED
      BY <1>1, <3>3, <3>4
  <2>. QED
    BY <2>1, <2>2
<1>. QED
  BY <1>1, <1>3 DEF Named, w

LEMMA NamedFlat ==
  ASSUME NEW n \in Nat, NEW q, \A i \in 1 .. n : q[i] \in Seq(Words), \A i \in 1 .. n : Named(q[i])
  PROVE  Named(FlatTo(q, n)) /\ FlatTo(q, n) \in Seq(Words)
<1>. DEFINE T == {k \in 0 .. n : Named(FlatTo(q, k))}
<1>1. /\ FlatTo(q, 0) = <<>>
      /\ \A k \in 0 .. n : FlatTo(q, k) \in Seq(Words)
      /\ \A k \in 1 .. n : FlatTo(q, k) = FlatTo(q, k - 1) \o q[k]
  BY FlatToIs
<1>2. 0 \in T
  <2>1. Named(<<>>) /\ 0 \in 0 .. n
    BY DEF Named
  <2>. QED
    BY <1>1, <2>1
<1>3. ASSUME NEW i \in 1 .. n, i - 1 \in T PROVE i \in T
  <2>1. i - 1 \in 0 .. n /\ i \in 0 .. n /\ Named(FlatTo(q, i - 1))
    BY <1>3
  <2>2. Named(FlatTo(q, i - 1) \o q[i])
    BY <1>1, <2>1, NamedConcat
  <2>. QED
    BY <1>1, <2>1, <2>2
<1>. HIDE DEF T
<1>4. \A k \in 0 .. n : k \in T
  BY <1>2, <1>3, UpTo
<1>5. n \in 0 .. n
  OBVIOUS
<1>. QED
  BY <1>1, <1>4, <1>5 DEF T

LEMMA NamedVain ==
  ASSUME NEW u \in Seq(Words \ Strings)
  PROVE  Named(u) /\ u \in Seq(Words)
BY DEF Named

\* What has no string in it says none.
LEMMA BareSays ==
  ASSUME NEW u \in Seq(Tokens \ Strings)
  PROVE  Named(Said("tokens", u)) /\ Said("tokens", u) \in Seq(Words)
<1>. DEFINE n == Len(u)
            q == [i \in 1 .. n |-> SaidAt("tokens", u, i)]
<1>1. n \in Nat /\ n \in 0 .. n
  OBVIOUS
<1>2. ASSUME NEW i \in 1 .. n PROVE q[i] \in Seq(Words \ Strings)
  <2>1. u[i] \in Words \ Strings
    BY BracketsAreWords
  <2>2. q[i] = IF u[i] = "comma" THEN <<>> ELSE <<u[i]>>
    BY DEF SaidAt
  <2>3. <<u[i]>> \in Seq(Words \ Strings) /\ <<>> \in Seq(Words \ Strings)
    <3>. DEFINE X == Words \ Strings
    <3>1. u[i] \in X
      BY <2>1
    <3>. HIDE DEF X
    <3>2. <<u[i]>> \in Seq(X) /\ <<>> \in Seq(X)
      BY <3>1
    <3>. QED
      BY <3>2 DEF X
  <2>. HIDE DEF q
  <2>. QED
    BY <2>2, <2>3, Zenon
<1>3. Said("tokens", u) = FlatTo(q, n)
  BY Zenon DEF Said, SaidTo
<1>. HIDE DEF n, q
<1>4. \A k \in 0 .. n : FlatTo(q, k) \in Seq(Words \ Strings)
  BY <1>1, <1>2, FlatToIs
<1>. QED
  BY <1>1, <1>3, <1>4, NamedVain

\* A name and its colon, before what has all its strings named.
LEMMA FieldNamed ==
  ASSUME NEW h, Shaped(h), NEW c \in DOMAIN h, NEW i \in 1 .. Len(h[c].kids)
  PROVE  Named(FieldOf("tokens", h, c, i)) /\ FieldOf("tokens", h, c, i) \in Seq(Words)
<1>. DEFINE f == FieldOf("tokens", h, c, i)
<1>1. CASE h[c].kind = "object"
  <2>1. PICK x \in Strings : f = <<x>> \o <<"colon">>
    BY <1>1, FieldTokens
  <2>3. x \in Words /\ "colon" \in Words /\ "colon" \notin Strings
    BY BracketsAreWords, StringsAssumption DEF Symbols
  <2>. HIDE DEF f
  <2>4. <<x>> \in Seq(Words) /\ <<"colon">> \in Seq(Words)
    BY <2>3
  <2>5. f \in Seq(Words) /\ Len(f) = 2 /\ f[1] = x /\ f[2] = "colon"
    <3>. DEFINE a == <<x>>
                b1 == <<"colon">>
    <3>1. Len(a) = 1 /\ Len(b1) = 1 /\ a[1] = x /\ b1[1] = "colon" /\ a \in Seq(Words) /\ b1 \in Seq(Words)
      BY <2>4
    <3>2. f = a \o b1
      BY <2>1
    <3>. HIDE DEF a, b1
    <3>. QED
      BY <3>1, <3>2, ConcatIs
  <2>6. Named(f)
    BY <2>3, <2>5 DEF Named
  <2>. QED
    BY <2>5, <2>6 DEF f
<1>2. CASE h[c].kind # "object"
  <2>1. f = <<>>
    BY <1>2, FieldTokens
  <2>2. Named(<<>>) /\ <<>> \in Seq(Words)
    BY DEF Named
  <2>. QED
    BY <2>1, <2>2
<1>. QED
  BY <1>1, <1>2

LEMMA PrintedNamed ==
  ASSUME NEW h, NEW n, Shaped(h), HeapSound(h, n), NEW P, Written("printed", h, P)
  PROVE  \A c \in DOMAIN h : h[c].kind \in EntityKinds => Named(Said("tokens", P[c]))
<1>. DEFINE T == {c \in DOMAIN h : h[c].kind \in EntityKinds => Named(Said("tokens", P[c]))}
<1>1. \A c \in DOMAIN h : h[c].kind \in EntityKinds => P[c] \in Seq(Tokens)
  BY PrintedTokens
<1>2. ASSUME NEW c \in DOMAIN h, \A i \in 1 .. Len(h[c].kids) : h[c].kids[i] \in T, h[c].kind \in EntityKinds
      PROVE  Named(Said("tokens", P[c]))
  <2>1. CASE h[c].kind \in Kinds
    <3>. DEFINE m == Len(h[c].kids)
                p == SaidItems(h, P, c)
                op == Opener(h[c].kind)
                cl == Closer(h[c].kind)
    <3>1. ASSUME NEW i \in 1 .. m PROVE P[h[c].kids[i]] \in Seq(Tokens) /\ Named(Said("tokens", P[h[c].kids[i]]))
      BY <1>1, <1>2 DEF Shaped, ShapeOf
    <3>2. Said("tokens", P[c]) = (<<op>> \o FlatTo(p, m)) \o <<cl>> /\ \A i \in 1 .. m : p[i] \in Seq(Words)
      BY <2>1, <3>1, ListSays
    <3>3. ASSUME NEW i \in 1 .. m PROVE Named(p[i])
      <4>. DEFINE f == FieldOf("tokens", h, c, i)
                  w == Said("tokens", P[h[c].kids[i]])
      <4>1. p[i] = f \o w
        BY DEF SaidItems
      <4>2. Named(f) /\ f \in Seq(Words)
        BY FieldNamed
      <4>3. Named(w) /\ w \in Seq(Words)
        <5>1. "comma" \in Tokens
          BY DEF Tokens, Symbols
        <5>. QED
          BY <3>1, <5>1, SaidAppend
      <4>. HIDE DEF f, w, p
      <4>. QED
        BY <4>1, <4>2, <4>3, NamedConcat
    <3>4. m \in Nat
      BY ShapeKids
    <3>5. op \in Words \ Strings /\ cl \in Words \ Strings
      BY BracketsAreWords, StringsAssumption DEF Opener, Closer, Symbols
    <3>. HIDE DEF p, m, op, cl
    <3>6. Named(FlatTo(p, m)) /\ FlatTo(p, m) \in Seq(Words)
      BY <3>2, <3>3, <3>4, NamedFlat
    <3>7. /\ Named(<<op>>) /\ <<op>> \in Seq(Words)
          /\ Named(<<cl>>) /\ <<cl>> \in Seq(Words)
      <4>1. ASSUME NEW X, NEW t \in X PROVE <<t>> \in Seq(X)
        OBVIOUS
      <4>2. <<op>> \in Seq(Words \ Strings) /\ <<cl>> \in Seq(Words \ Strings)
        BY <3>5, <4>1, Zenon
      <4>. QED
        BY <4>2, NamedVain
    <3>8. Named(<<op>> \o FlatTo(p, m)) /\ <<op>> \o FlatTo(p, m) \in Seq(Words)
      BY <3>6, <3>7, NamedConcat, ConcatIs
    <3>9. Named((<<op>> \o FlatTo(p, m)) \o <<cl>>)
      BY <3>7, <3>8, NamedConcat
    <3>. QED
      BY <3>2, <3>9
  <2>2. CASE h[c].kind = "string"
    <3>1. TextIn(h, c) \in Strings /\ P[c] = Bare[TextIn(h, c)]
      BY <2>2, TextIs, PrintedLeaf DEF PrintsLeaf
    <3>. QED
      BY <3>1, BareIs, BareSays
  <2>3. CASE h[c].kind \in Literals
    <3>1. P[c] = <<h[c].kind>>
      BY <2>3, PrintedLeaf DEF PrintsLeaf
    <3>2. h[c].kind \in Tokens \ Strings
      BY <2>3, StringsAssumption DEF Tokens
    <3>3. P[c] \in Seq(Tokens \ Strings)
      BY <3>1, <3>2
    <3>. QED
      BY <3>3, BareSays
  <2>. QED
    BY <1>2, <2>1, <2>2, <2>3 DEF EntityKinds
<1>3. \A c \in DOMAIN h : (\A i \in 1 .. Len(h[c].kids) : h[c].kids[i] \in T) => c \in T
  BY <1>2
<1>. HIDE DEF T
<1>4. \A c \in DOMAIN h : c \in T
  BY <1>3, KidsFirst
<1>. QED
  BY <1>4 DEF T

(***************************************************************************)
(* No document has an error in it.                                         *)
(***************************************************************************)
\* No error in w from a to b1.
NoError(w, a, b1) == \A j \in a .. b1 : w[j] # "error"

\* The entities and the lists of up to m tokens.
CleanEntities(w, m) ==
  \A a, b1 \in 1 .. Len(w) : b1 < a + m /\ Derives("entity", w, a, b1) => NoError(w, a, b1)
CleanLists(w, m) ==
  \A kind \in Kinds : \A L \in 0 .. Len(w) : \A e \in 1 .. Len(w) :
    L < e /\ e <= L + m /\ ItemAt(w, L, kind, e) => NoError(w, L + 1, e - 1)

LEMMA EntityClean ==
  ASSUME NEW w \in Seq(Tokens), NEW m \in Nat, CleanLists(w, m)
  PROVE  CleanEntities(w, m + 1)
<1>. SUFFICES ASSUME NEW a \in 1 .. Len(w), NEW b1 \in 1 .. Len(w), b1 < a + (m + 1), Derives("entity", w, a, b1),
                     NEW j \in a .. b1
              PROVE  w[j] # "error"
  BY DEF CleanEntities, NoError
<1>1. b1 \in 0 .. Len(w)
  OBVIOUS
<1>2. CASE a = b1 /\ w[a] \in Literals \cup Strings
  <2>1. j = a
    BY <1>2
  <2>. QED
    BY <1>2, <2>1, TokensApart DEF Final
<1>3. ASSUME NEW kind \in Kinds, a < b1, w[a] = Opener(kind), w[b1] = Closer(kind),
             Derives(ListOf(kind), w, a + 1, b1 - 1)
      PROVE  w[j] # "error"
  <2>1. a \in 0 .. Len(w) /\ b1 <= a + m
    OBVIOUS
  <2>2. NoError(w, a + 1, b1 - 1)
    BY <1>3, <2>1 DEF CleanLists, ItemAt
  <2>3. j = a \/ j = b1 \/ j \in a + 1 .. b1 - 1
    OBVIOUS
  <2>4. w[a] # "error" /\ w[b1] # "error"
    BY <1>3 DEF Opener, Closer
  <2>. QED
    BY <2>2, <2>3, <2>4 DEF NoError
<1>. QED
  BY <1>1, <1>2, <1>3, EntityIs

LEMMA ListClean ==
  ASSUME NEW w \in Seq(Tokens), NEW m \in Nat, CleanLists(w, m)
  PROVE  CleanLists(w, m + 1)
<1>. SUFFICES ASSUME NEW kind \in Kinds, NEW L \in 0 .. Len(w), NEW e \in 1 .. Len(w), L < e, e <= L + (m + 1),
                     ItemAt(w, L, kind, e)
              PROVE  NoError(w, L + 1, e - 1)
  BY DEF CleanLists
<1>0. Len(w) \in Nat /\ L \in Nat
  OBVIOUS
<1>1. CleanEntities(w, m + 1)
  BY EntityClean
\* A value and what follows it.
<1>2. ASSUME NEW K \in Nat, L <= K, K < e, ValueAt(w, K, kind, e) PROVE NoError(w, K + 1, e - 1)
  <2>1. PICK k \in K + 1 .. e - 1 : Derives("entity", w, K + 1, k) /\ Follows(w, k, kind, e)
    BY <1>2 DEF ValueAt
  <2>2. K + 1 \in 1 .. Len(w) /\ k \in 1 .. Len(w) /\ k < (K + 1) + (m + 1)
    BY <1>0, <1>2, <2>1
  <2>3. NoError(w, K + 1, k)
    BY <1>1, <2>1, <2>2 DEF CleanEntities
  <2>4. k + 1 < e => w[k + 1] = "comma" /\ NoError(w, k + 2, e - 1)
    <3>1. SUFFICES ASSUME k + 1 < e PROVE w[k + 1] = "comma" /\ NoError(w, k + 2, e - 1)
      OBVIOUS
    <3>2. w[k + 1] = "comma" /\ Derives(ListOf(kind), w, k + 2, e - 1)
      BY <2>1, <3>1 DEF Follows
    <3>3. k + 1 \in 0 .. Len(w) /\ (k + 1) + 1 = k + 2 /\ e <= (k + 1) + m
      BY <1>0, <1>2, <2>1, <2>2, <3>1
    <3>4. ItemAt(w, k + 1, kind, e)
      BY <3>2, <3>3 DEF ItemAt
    <3>5. NoError(w, (k + 1) + 1, e - 1)
      BY <3>1, <3>3, <3>4 DEF CleanLists
    <3>. QED
      BY <3>2, <3>3, <3>5
  <2>5. ASSUME NEW j \in K + 1 .. e - 1 PROVE w[j] # "error"
    <3>1. j \in K + 1 .. k \/ (j = k + 1 /\ k + 1 < e) \/ (j \in k + 2 .. e - 1 /\ k + 1 < e)
      BY <1>0, <1>2, <2>1
    <3>. QED
      BY <2>3, <2>4, <3>1 DEF NoError
  <2>. QED
    BY <2>5 DEF NoError
<1>3. CASE L + 1 = e
  BY <1>3 DEF NoError
<1>4. CASE kind = "object" /\ L + 1 < e
  <2>1. w[L + 1] \in Strings /\ ColonAt(w, L + 1, kind, e)
    BY <1>0, <1>4, FieldsIs
  <2>2. (L + 1) + 1 < e /\ w[(L + 1) + 1] = "colon" /\ ValueAt(w, (L + 1) + 1, kind, e)
    BY <2>1 DEF ColonAt
  <2>3. (L + 1) + 1 = L + 2 /\ L + 2 \in Nat /\ L <= L + 2 /\ L + 2 < e
    BY <1>0, <2>2
  <2>4. NoError(w, (L + 2) + 1, e - 1)
    BY <1>2, <2>2, <2>3
  <2>5. ASSUME NEW j \in L + 1 .. e - 1 PROVE w[j] # "error"
    <3>1. j = L + 1 \/ j = L + 2 \/ j \in (L + 2) + 1 .. e - 1
      BY <1>0
    <3>. QED
      BY <2>1, <2>2, <2>3, <2>4, <3>1, TokensApart DEF NoError, Final
  <2>. QED
    BY <2>5 DEF NoError
<1>5. CASE kind = "array" /\ L + 1 < e
  <2>1. ValueAt(w, L, kind, e)
    BY <1>0, <1>5, ElementsIs
  <2>. QED
    BY <1>0, <1>2, <2>1
<1>. QED
  BY <1>0, <1>3, <1>4, <1>5 DEF Kinds

LEMMA DocumentIsClean ==
  ASSUME NEW w \in Seq(Tokens), IsDocument(w)
  PROVE  \A j \in 1 .. Len(w) : w[j] # "error"
<1>. DEFINE n == Len(w)
            T == {m \in 0 .. n : CleanLists(w, m)}
<1>1. n \in Nat /\ n \in 1 .. n /\ 1 \in 1 .. n
  BY DEF IsDocument
<1>2. 0 \in T
  BY <1>1 DEF CleanLists
<1>3. ASSUME NEW i \in 1 .. n, i - 1 \in T PROVE i \in T
  <2>1. i - 1 \in Nat /\ (i - 1) + 1 = i /\ i \in 0 .. n /\ CleanLists(w, i - 1)
    BY <1>3
  <2>2. CleanLists(w, (i - 1) + 1)
    BY <2>1, ListClean
  <2>. QED
    BY <2>1, <2>2
<1>. HIDE DEF T
<1>4. \A i \in 0 .. n : i \in T
  BY <1>1, <1>2, <1>3, UpTo
<1>5. CleanLists(w, n)
  BY <1>1, <1>4 DEF T
<1>6. CleanEntities(w, n + 1)
  BY <1>1, <1>5, EntityClean
<1>7. NoError(w, 1, n)
  BY <1>1, <1>6 DEF CleanEntities, IsDocument
<1>. QED
  BY <1>7 DEF NoError

\* The list that owns an entity of a finished parse.
LEMMA OwnerOf ==
  ASSUME Parsed, Shaped(heap), NEW c \in DOMAIN heap, ~ IsLeaf(heap[c]), c # ret
  PROVE  \E d \in DOMAIN heap : \E i \in 1 .. Len(heap[d].kids) :
           heap[d].kids[i] = c /\ heap[d].kind \in Kinds /\ ~ IsLeaf(heap[d]) /\ d < c
<1>1. stack = <<>> /\ Ownership(Live(stack, heap, pc, ret), heap, superseded)
  BY ParsedStack DEF Parsed, Blocks, ParserInv
<1>2. PICK x \in Live(stack, heap, pc, ret) : x[3] = c
  <2>1. c \notin superseded
    BY <1>1 DEF Ownership
  <2>. QED
    BY <1>1, <2>1 DEF Ownership, Owned
<1>3. x \notin StackLive(stack)
  BY <1>1 DEF StackLive
<1>4. x \notin RetLive(pc, ret)
  BY <1>2 DEF RetLive, NonNull, RetOut
<1>5. x \in HeapLive(heap) /\ Sound(x, heap)
  BY <1>1, <1>2, <1>3, <1>4 DEF Live, Ownership
<1>6. PICK d : d = From(x) /\ d \in DOMAIN heap /\ x \in BlockOut(d, heap[d]) /\ x[1] \in {"names", "kids", "items"}
  BY <1>5, HeapLiveAt
<1>7. x[1] = "kids" /\ d < c
  BY <1>2, <1>5, <1>6 DEF Sound
<1>8. x \in KidsOut(d, heap[d])
  BY <1>6, <1>7 DEF BlockOut, NamesOut
<1>9. PICK i \in DOMAIN heap[d].kids : heap[d].kids[i] = c
  BY <1>2, <1>8 DEF KidsOut
<1>10. heap[d].kids \in Seq(Nat \ {0}) /\ (heap[d].kind \notin Kinds => heap[d].kids = <<>>)
  BY <1>6 DEF Shaped, ShapeOf
<1>11. i \in 1 .. Len(heap[d].kids) /\ heap[d].kind \in Kinds /\ ~ IsLeaf(heap[d])
  BY <1>9, <1>10 DEF IsLeaf
<1>. QED
  BY <1>6, <1>7, <1>9, <1>11

\* Whatever entity of a finished parse points to anything is said, and printed,
\* with the root: it has an owner, and so has the list that owns it, up to the root.
LEMMA AllIsSaid ==
  ASSUME Parsed, Shaped(heap), ret \in DOMAIN heap, NEW v \in {"tokens", "printed"}, NEW P, Written(v, heap, P)
  PROVE  \A c \in DOMAIN heap : ~ IsLeaf(heap[c]) => \E p \in Nat : At(P[ret], p, P[c])
<1>. DEFINE T == {c \in DOMAIN heap : ~ IsLeaf(heap[c]) /\ ~ \E p \in Nat : At(P[ret], p, P[c])}
<1>0. P[ret] \in Seq(Words)
  BY DEF Written
<1>1. HeapSound(heap, allocs)
  BY BlocksSound DEF Parsed
<1>2. DOMAIN heap \in SUBSET (1 .. allocs) /\ allocs \in Nat
  BY <1>1 DEF HeapSound, HeapOk
<1>3. SUFFICES ASSUME T # {} PROVE FALSE
  OBVIOUS
<1>4. PICK c \in T : \A d \in T : c <= d
  <2>1. T \in SUBSET Nat
    BY <1>2
  <2>. HIDE DEF T
  <2>. QED
    BY <1>3, <2>1, LeastNatural
<1>5. c \in DOMAIN heap /\ ~ IsLeaf(heap[c]) /\ ~ \E p \in Nat : At(P[ret], p, P[c])
  BY <1>4
<1>6. \A d \in DOMAIN heap : ~ IsLeaf(heap[d]) /\ d < c => \E p \in Nat : At(P[ret], p, P[d])
  <2>1. ASSUME NEW d \in DOMAIN heap, ~ IsLeaf(heap[d]), d < c PROVE d \notin T
    <3>1. ~ (c <= d)
      BY <1>2, <1>5, <2>1
    <3>. HIDE DEF T
    <3>. QED
      BY <1>4, <3>1
  <2>. QED
    BY <2>1
<1>. HIDE DEF T
<1>7. c # ret
  <2>1. At(P[ret], 0, P[ret]) /\ 0 \in Nat
    BY <1>0, SelfLies
  <2>. QED
    BY <1>5, <2>1
<1>80. PICK d \in DOMAIN heap : \E i \in 1 .. Len(heap[d].kids) :
        heap[d].kids[i] = c /\ heap[d].kind \in Kinds /\ ~ IsLeaf(heap[d]) /\ d < c
  BY <1>5, <1>7, OwnerOf
<1>8. PICK i \in 1 .. Len(heap[d].kids) :
        heap[d].kids[i] = c /\ heap[d].kind \in Kinds /\ ~ IsLeaf(heap[d]) /\ d < c
  BY <1>80
<1>9. PICK p \in Nat : At(P[ret], p, P[d])
  BY <1>6, <1>8
<1>10. \E q \in Nat : At(P[ret], q, P[c])
  <2>. DEFINE w == P[ret]
              k == IF heap[d].kind = "object" THEN 2 ELSE 0
  <2>1. w \in Seq(Words) /\ At(w, p, P[d])
    BY <1>0, <1>9
  <2>2. k \in Nat
    OBVIOUS
  <2>. HIDE DEF w
  <2>3. PICK L : Laid(v, heap, P, d, w, p, L)
    BY <1>8, <2>1, ListLies
  <2>. DEFINE q == p + 1 + L[i - 1]
  <2>4. q \in Nat /\ At(w, q, ItemOf(v, heap, P, d, i))
    <3>1. L[i - 1] \in Nat /\ At(w, p + 1 + L[i - 1], ItemOf(v, heap, P, d, i))
      BY <1>8, <2>3 DEF Laid
    <3>. QED
      BY <3>1
  <2>. HIDE DEF q
  <2>5. ASSUME NEW j, j = k PROVE ItemFacts(v, heap, P, d, i, w, q, j)
    BY <1>8, <2>1, <2>4, <2>5, ItemLies
  <2>6. ItemFacts(v, heap, P, d, i, w, q, k)
    BY <2>5
  <2>7. At(w, q + k, P[heap[d].kids[i]])
    BY <2>6 DEF ItemFacts
  <2>8. q + k \in Nat
    BY <2>2, <2>4
  <2>. QED
    BY <1>8, <2>7, <2>8 DEF w
<1>. QED
  BY <1>5, <1>10

\* A string points to its text, so it is said, and printed, with the root.
LEMMA StringIsSaid ==
  ASSUME Parsed, Shaped(heap), ret \in DOMAIN heap, NEW v \in {"tokens", "printed"}, NEW P, Written(v, heap, P),
         NEW c \in DOMAIN heap, heap[c].kind = "string"
  PROVE  ~ IsLeaf(heap[c]) /\ \E p \in Nat : At(P[ret], p, P[c])
<1>1. ~ IsLeaf(heap[c])
  <2>. DEFINE nm == heap[c].names
  <2>1. Len(nm) = 1 /\ Len(<<>>) = 0
    BY DEF Shaped, ShapeOf
  <2>. HIDE DEF nm
  <2>2. nm # <<>>
    BY ONLY <2>1
  <2>. QED
    BY <2>2 DEF nm, IsLeaf
<1>. QED
  BY <1>1, AllIsSaid

\* What was read has a string that is no name then.
LEMMA StringUnnamed ==
  ASSUME Parsed, Shaped(heap), ret \in DOMAIN heap, heap[ret].kind = "object", NEW W, Written("tokens", heap, W),
         NEW c \in DOMAIN heap, heap[c].kind = "string"
  PROVE  ~ Named(W[ret])
<1>. DEFINE w == W[ret]
<1>1. ~ IsLeaf(heap[c]) /\ c # ret
  BY StringIsSaid
<1>20. PICK d \in DOMAIN heap : \E i \in 1 .. Len(heap[d].kids) :
        heap[d].kids[i] = c /\ heap[d].kind \in Kinds /\ ~ IsLeaf(heap[d]) /\ d < c
  BY <1>1, OwnerOf
<1>2. PICK i \in 1 .. Len(heap[d].kids) :
        heap[d].kids[i] = c /\ heap[d].kind \in Kinds /\ ~ IsLeaf(heap[d]) /\ d < c
  BY <1>20
<1>3. PICK p \in Nat : At(w, p, W[d])
  BY <1>2, AllIsSaid
<1>4. w \in Seq(Words)
  BY DEF Written
<1>5. W[c] = <<TextIn(heap, c)>> /\ TextIn(heap, c) \in Strings
  BY TextIs DEF Written, WordOf, LeafOf, StringOf, Kinds
<1>. HIDE DEF w
<1>6. PICK L : Laid("tokens", heap, W, d, w, p, L)
  BY <1>2, <1>3, <1>4, ListLies
<1>. DEFINE k == IF heap[d].kind = "object" THEN 2 ELSE 0
            n == Len(heap[d].kids)
            x == p + L[i] + 1
<1>7. ASSUME NEW j \in 1 .. n, NEW k1, k1 = k PROVE LaidFacts(heap, W, d, j, w, p, L, k1)
  BY <1>2, <1>4, <1>6, <1>7, LaidItem
<1>8. \A j \in 1 .. n : LaidFacts(heap, W, d, j, w, p, L, k)
  BY <1>7
<1>9. k \in Nat /\ n \in Nat /\ i \in 1 .. n /\ i \in Nat
  BY <1>2, ShapeKids
<1>10. /\ L[i - 1] \in Nat /\ L[i] = L[i - 1] + k + 1
       /\ At(w, p + 1 + L[i - 1] + k, W[c])
  <2>1. LaidFacts(heap, W, d, i, w, p, L, k)
    BY <1>8, <1>9
  <2>2. Len(W[c]) = 1
    BY <1>5
  <2>. QED
    BY <1>2, <2>1, <2>2 DEF LaidFacts, ItemFacts
<1>11. L[i] \in Nat /\ x \in 1 .. Len(w) /\ w[x] \in Strings
  <2>. DEFINE y == p + 1 + L[i - 1] + k
  <2>1. y \in Nat /\ x = y + 1
    BY <1>9, <1>10
  <2>. HIDE DEF y
  <2>2. Len(W[c]) = 1 /\ W[c][1] = TextIn(heap, c) /\ 1 \in 1 .. Len(W[c])
    BY <1>5
  <2>3. y + 1 <= Len(w) /\ w[y + 1] = TextIn(heap, c)
    BY <1>10, <2>2 DEF At, y
  <2>4. Len(w) \in Nat
    BY <1>4
  <2>. HIDE DEF k, x
  <2>. QED
    BY <1>5, <1>9, <1>10, <2>1, <2>3, <2>4
<1>12. w[x + 1] # "colon"
  <2>1. CASE i = n
    <3>1. w[p + L[n] + 2] = Closer(heap[d].kind)
      BY <1>6 DEF Laid
    <3>2. x + 1 = p + L[n] + 2
      BY <1>11, <2>1
    <3>. QED
      BY <3>1, <3>2 DEF Closer
  <2>2. CASE i # n
    <3>. DEFINE j == i + 1
                y == p + 1 + L[i]
    <3>1. j \in 1 .. n /\ j - 1 = i
      BY <1>9, <2>2
    <3>2. y \in Nat /\ y + 1 = x + 1
      BY <1>11
    <3>3. ItemFacts("tokens", heap, W, d, j, w, p + 1 + L[j - 1], k)
      BY <1>8, <3>1 DEF LaidFacts
    <3>4. ItemFacts("tokens", heap, W, d, j, w, y, k)
      BY <3>1, <3>3
    <3>. HIDE DEF j, y, x
    <3>5. CASE heap[d].kind = "object"
      <4>1. w[y + 1] \in Strings
        BY <3>4, <3>5 DEF ItemFacts
      <4>. QED
        BY <3>2, <4>1, StringsAssumption DEF Symbols
    <3>6. CASE heap[d].kind # "object"
      <4>. DEFINE b1 == heap[d].kids[j]
      <4>1. b1 \in DOMAIN heap /\ heap[b1].kind \in EntityKinds /\ At(w, y + 0, W[b1])
        BY <3>4, <3>6 DEF ItemFacts
      <4>2. y + 0 = y
        BY <3>2
      <4>. HIDE DEF b1
      <4>3. Begins(heap, W, b1, w, y)
        BY <1>4, <3>2, <4>1, <4>2, EntityLies
      <4>. QED
        BY <3>2, <4>3 DEF Begins
    <3>. QED
      BY <3>5, <3>6
  <2>. QED
    BY <2>1, <2>2
<1>. HIDE DEF x
<1>. QED
  BY <1>11, <1>12 DEF Named, w

\* What is printed is no document if the text of a string has an error in it.
LEMMA ErrorIsNoDocument ==
  ASSUME Parsed, Shaped(heap), ret \in DOMAIN heap, heap[ret].kind \in EntityKinds, NEW P, Written("printed", heap, P),
         NEW c \in DOMAIN heap, heap[c].kind = "string", NEW k \in 1 .. Len(Bare[TextIn(heap, c)]),
         Bare[TextIn(heap, c)][k] = "error"
  PROVE  ~ IsDocument(P[ret])
<1>1. HeapSound(heap, allocs)
  BY BlocksSound DEF Parsed
<1>. DEFINE u == Bare[TextIn(heap, c)]
            w == P[ret]
<1>2. w \in Seq(Tokens) /\ u \in Seq(Tokens)
  BY <1>1, PrintedTokens, TextIs, BareIs
<1>3. PICK p \in Nat : At(w, p, P[c])
  BY StringIsSaid
<1>4. P[c] = u
  <2>1. PrintsLeaf(heap, P, c)
    BY PrintedLeaf
  <2>. QED
    BY <2>1 DEF PrintsLeaf
<1>. HIDE DEF u, w
<1>5. k \in 1 .. Len(u) /\ u[k] = "error"
  BY DEF u
<1>6. p + Len(u) <= Len(w) /\ w[p + k] = "error"
  BY <1>3, <1>4, <1>5 DEF At
<1>7. p + k \in 1 .. Len(w)
  BY <1>2, <1>5, <1>6
<1>8. ~ IsDocument(w)
  BY <1>2, <1>6, <1>7, DocumentIsClean
<1>. QED
  BY <1>8 DEF w

(***************************************************************************)
(* If every string reads as a number or a word, or there is none, what is  *)
(* printed of an entity is one: the comma after each item goes before the  *)
(* next one, or before the end of the list.                                *)
(***************************************************************************)
PlainTexts(h) == \A c \in DOMAIN h : h[c].kind = "string" => Bare[TextIn(h, c)] \in {<<l>> : l \in Literals}

LEMMA PrintsLiteral ==
  ASSUME NEW h, PlainTexts(h), NEW P, Written("printed", h, P), NEW c \in DOMAIN h, h[c].kind \in Literals \cup {"string"}
  PROVE  \E x \in Literals : P[c] = <<x>>
<1>1. PrintsLeaf(h, P, c)
  BY PrintedLeaf
<1>2. CASE h[c].kind = "string"
  BY <1>1, <1>2 DEF PrintsLeaf, PlainTexts
<1>3. CASE h[c].kind \in Literals
  BY <1>1, <1>3 DEF PrintsLeaf
<1>. QED
  BY <1>2, <1>3

EntityDerived(w, P, c, p) == Derives("entity", w, p + 1, p + Len(P[c]))

LEMMA PrintedLong ==
  ASSUME NEW h, Shaped(h), PlainTexts(h), NEW P, Written("printed", h, P), NEW c \in DOMAIN h, h[c].kind \in EntityKinds
  PROVE  Len(P[c]) \in Nat /\ 1 <= Len(P[c])
<1>1. P[c] \in Seq(Words)
  BY DEF Written
<1>2. CASE h[c].kind \in Kinds
  <2>. DEFINE w == P[c]
  <2>1. At(w, 0, P[c]) /\ 0 \in Nat /\ w \in Seq(Words)
    BY <1>1, SelfLies
  <2>. HIDE DEF w
  <2>2. PICK L : Laid("printed", h, P, c, w, 0, L)
    BY <1>2, <2>1, ListLies
  <2>. QED
    BY <2>2 DEF Laid
<1>3. CASE h[c].kind \notin Kinds
  <2>1. PICK x \in Literals : P[c] = <<x>>
    BY <1>3, PrintsLiteral DEF EntityKinds
  <2>. DEFINE u == P[c]
  <2>2. Len(<<x>>) = 1 /\ u = <<x>>
    BY <2>1
  <2>. HIDE DEF u
  <2>3. Len(u) \in Nat /\ 1 <= Len(u)
    BY ONLY <2>2
  <2>. QED
    BY <2>3 DEF u
<1>. QED
  BY <1>2, <1>3

\* An item with its comma, before a list of items.
LEMMA ItemDerived ==
  ASSUME NEW w \in Seq(Tokens), NEW kind \in Kinds, NEW q \in Nat, NEW k \in {0, 2}, kind = "object" <=> k = 2,
         NEW z \in Nat, q + k + 1 <= z, NEW e \in 1 .. Len(w), z + 1 < e,
         kind = "object" => w[q + 1] \in Strings /\ w[q + 2] = "colon",
         Derives("entity", w, q + k + 1, z), w[z + 1] = "comma", ItemAt(w, z + 1, kind, e)
  PROVE  ItemAt(w, q, kind, e)
<1>1. Follows(w, z, kind, e)
  <2>1. (z + 1) + 1 = z + 2 /\ z < e
    OBVIOUS
  <2>. QED
    BY <2>1 DEF Follows, ItemAt
<1>2. ValueAt(w, q + k, kind, e)
  <2>1. z \in (q + k) + 1 .. e - 1
    OBVIOUS
  <2>. QED
    BY <1>1, <2>1 DEF ValueAt
<1>3. q < e /\ q + 1 < e /\ q + k + 1 < e
  OBVIOUS
<1>4. CASE kind = "object"
  <2>1. k = 2 /\ q + 2 < e /\ q + 2 = (q + 1) + 1 /\ w[q + 1] \in Strings /\ w[(q + 1) + 1] = "colon"
    BY <1>4
  <2>2. ColonAt(w, q + 1, "object", e)
    BY <1>2, <1>4, <2>1 DEF ColonAt
  <2>. QED
    BY <1>3, <1>4, <2>1, <2>2, FieldsIs
<1>5. CASE kind = "array"
  <2>1. k = 0 /\ q + k = q
    BY <1>5
  <2>2. ValueAt(w, q, "array", e)
    BY <1>2, <1>5, <2>1
  <2>. QED
    BY <1>3, <1>5, <2>2, ElementsIs
<1>. QED
  BY <1>4, <1>5 DEF Kinds

\* A list lies in w, and each of its items is an entity wherever it lies.
LEMMA ListDerived ==
  ASSUME NEW h, Shaped(h), PlainTexts(h), NEW P, Written("printed", h, P), NEW w \in Seq(Tokens),
         NEW c \in DOMAIN h, h[c].kind \in Kinds, NEW p \in Nat, At(w, p, P[c]),
         \A i \in 1 .. Len(h[c].kids) : \A a \in Nat : At(w, a, P[h[c].kids[i]]) => EntityDerived(w, P, h[c].kids[i], a)
  PROVE  EntityDerived(w, P, c, p)
<1>. DEFINE n == Len(h[c].kids)
            kind == h[c].kind
            k == IF kind = "object" THEN 2 ELSE 0
<1>1. w \in Seq(Words)
  <2>1. Tokens \subseteq Words
    BY BracketsAreWords
  <2>. QED
    BY <2>1
<1>2. PICK L : Laid("printed", h, P, c, w, p, L)
  BY <1>1, ListLies
<1>. DEFINE e == p + L[n] + 2
<1>3. /\ n \in Nat /\ L[0] = 0 /\ L[n] \in Nat
      /\ w[p + 1] = Opener(kind) /\ w[e] = Closer(kind) /\ Len(P[c]) = L[n] + 2 /\ e <= Len(w)
      /\ \A i \in 1 .. n : /\ L[i - 1] \in Nat /\ L[i] = L[i - 1] + Len(ItemOf("printed", h, P, c, i))
                           /\ At(w, p + 1 + L[i - 1], ItemOf("printed", h, P, c, i))
  BY <1>2 DEF Laid
<1>4. e \in 1 .. Len(w) /\ e = p + L[n] + 2 /\ p + 1 < e /\ e = p + Len(P[c]) /\ Len(w) \in Nat
  <2>. DEFINE t == L[n]
              m == Len(w)
              o == Len(P[c])
  <2>1. t \in Nat /\ p \in Nat /\ m \in Nat /\ e = p + t + 2 /\ e <= m /\ o = t + 2
    BY <1>3
  <2>. HIDE DEF t, m, o, e
  <2>2. e \in 1 .. m /\ p + 1 < e /\ e = p + o
    BY ONLY <2>1
  <2>. QED
    BY <2>1, <2>2 DEF t, m, o
<1>5. kind \in Kinds /\ k \in {0, 2} /\ (kind = "object" <=> k = 2)
  BY DEF Kinds
<1>. HIDE DEF e
\* The item i, given the items after it.
<1>6. ASSUME NEW i \in 1 .. n, L[i] \in Nat, L[i] <= L[n], ItemAt(w, p + 1 + L[i], kind, e)
      PROVE  L[i - 1] \in Nat /\ L[i - 1] <= L[n] /\ ItemAt(w, p + 1 + L[i - 1], kind, e)
  <2>. DEFINE q == p + 1 + L[i - 1]
              d == h[c].kids[i]
              z == q + k + Len(P[d])
  <2>1. q \in Nat /\ L[i - 1] \in Nat /\ At(w, q, ItemOf("printed", h, P, c, i)) /\ q = p + 1 + L[i - 1]
        /\ L[i] = L[i - 1] + Len(ItemOf("printed", h, P, c, i))
    BY <1>3
  <2>. HIDE DEF q
  <2>2. ASSUME NEW j, j = k PROVE ItemFacts("printed", h, P, c, i, w, q, j)
    BY <1>1, <2>1, <2>2, ItemLies
  <2>3. ItemFacts("printed", h, P, c, i, w, q, k)
    BY <2>2
  <2>4. /\ d \in DOMAIN h /\ h[d].kind \in EntityKinds
        /\ kind = "object" => w[q + 1] \in Strings /\ w[q + 2] = "colon"
        /\ At(w, q + k, P[d]) /\ At(w, z, <<"comma">>)
        /\ Len(ItemOf("printed", h, P, c, i)) = k + Len(P[d]) + Len(<<"comma">>)
    BY <2>3 DEF ItemFacts, Sep
  <2>5. Len(P[d]) \in Nat /\ 1 <= Len(P[d])
    BY <2>4, PrintedLong
  <2>6. q + k \in Nat
    BY <1>5, <2>1
  <2>7. EntityDerived(w, P, d, q + k)
    BY <2>4, <2>6
  <2>8. Len(<<"comma">>) = 1 /\ <<"comma">>[1] = "comma"
    OBVIOUS
  <2>9. w[z + 1] = "comma"
    BY <2>4, <2>8 DEF At
  <2>10. Derives("entity", w, q + k + 1, z)
    BY <2>7 DEF EntityDerived
  <2>. DEFINE x == Len(P[d])
              o == Len(ItemOf("printed", h, P, c, i))
  <2>11. x \in Nat /\ 1 <= x /\ o = k + x + 1 /\ L[i] = L[i - 1] + o /\ z = q + k + x
    BY <2>1, <2>4, <2>5, <2>8
  <2>. HIDE DEF d, x, o, z, k
  <2>12. z \in Nat /\ q + k + 1 <= z /\ z + 1 = p + 1 + L[i] /\ z + 1 < e /\ L[i - 1] <= L[n]
    <3>. DEFINE a == L[i]
                a0 == L[i - 1]
                t == L[n]
    <3>1. a \in Nat /\ a0 \in Nat /\ t \in Nat /\ a <= t /\ p \in Nat /\ k \in Nat /\ q \in Nat
      BY <1>3, <1>5, <1>6, <2>1
    <3>2. a = a0 + o /\ q = p + 1 + a0 /\ e = p + t + 2
      BY <1>4, <2>1, <2>11
    <3>. HIDE DEF a, a0, t
    <3>3. z \in Nat /\ q + k + 1 <= z /\ z + 1 = p + 1 + a /\ z + 1 < e /\ a0 <= t
      BY ONLY <2>11, <3>1, <3>2
    <3>. QED
      BY <3>3 DEF a, a0, t
  <2>13. ItemAt(w, z + 1, kind, e)
    BY <1>6, <2>12
  <2>14. kind = "object" => w[q + 1] \in Strings /\ w[q + 2] = "colon"
    BY <2>4
  <2>. HIDE DEF kind
  <2>15. ItemAt(w, q, kind, e)
    BY <1>4, <1>5, <2>1, <2>9, <2>10, <2>12, <2>13, <2>14, ItemDerived
  <2>. QED
    BY <2>1, <2>12, <2>15
<1>7. ItemAt(w, p + 1 + L[n], kind, e)
  <2>1. p + 1 + L[n] \in Nat /\ (p + 1 + L[n]) + 1 = e /\ p + 1 + L[n] < e
    <3>. DEFINE t == L[n]
    <3>1. t \in Nat /\ p \in Nat /\ e = p + t + 2
      BY <1>3, <1>4
    <3>. HIDE DEF t
    <3>2. p + 1 + t \in Nat /\ (p + 1 + t) + 1 = e /\ p + 1 + t < e
      BY ONLY <3>1
    <3>. QED
      BY <3>2 DEF t
  <2>2. kind = "object" \/ kind = "array"
    BY <1>5 DEF Kinds
  <2>. HIDE DEF kind
  <2>. QED
    BY <1>4, <2>1, <2>2, FieldsIs, ElementsIs
<1>. DEFINE T == {j \in 0 .. n : /\ L[n - j] \in Nat /\ L[n - j] <= L[n]
                                 /\ ItemAt(w, p + 1 + L[n - j], kind, e)}
<1>8. 0 \in T
  <2>1. n - 0 = n /\ 0 \in 0 .. n
    BY <1>3
  <2>. QED
    BY <1>3, <1>7, <2>1
<1>9. ASSUME NEW j \in 1 .. n, j - 1 \in T PROVE j \in T
  <2>. DEFINE i == n - (j - 1)
  <2>1. i \in 1 .. n /\ i - 1 = n - j /\ j \in 0 .. n
    BY <1>3
  <2>2. L[i] \in Nat /\ L[i] <= L[n] /\ ItemAt(w, p + 1 + L[i], kind, e)
    BY <1>9
  <2>. HIDE DEF i
  <2>3. L[i - 1] \in Nat /\ L[i - 1] <= L[n] /\ ItemAt(w, p + 1 + L[i - 1], kind, e)
    BY <1>6, <2>1, <2>2
  <2>. QED
    BY <2>1, <2>3
<1>. HIDE DEF T
<1>10. \A j \in 0 .. n : j \in T
  BY <1>3, <1>8, <1>9, UpTo
<1>11. ItemAt(w, p + 1, kind, e)
  <2>1. n \in T
    BY <1>3, <1>10
  <2>2. n - n = 0
    BY <1>3
  <2>3. ItemAt(w, p + 1 + L[n - n], kind, e)
    BY <2>1 DEF T
  <2>4. p + 1 + L[n - n] = p + 1
    BY <1>3, <2>2
  <2>. QED
    BY <2>3, <2>4
<1>12. p + 1 \in 1 .. Len(w) /\ e \in 0 .. Len(w)
  BY <1>4
<1>13. Derives("entity", w, p + 1, e)
  <2>1. Derives(ListOf(kind), w, (p + 1) + 1, e - 1)
    BY <1>11 DEF ItemAt
  <2>. HIDE DEF kind
  <2>. QED
    BY <1>3, <1>4, <1>5, <1>12, <2>1, EntityIs
<1>. QED
  BY <1>4, <1>13 DEF EntityDerived

LEMMA PrintedDerives ==
  ASSUME NEW h, NEW n, Shaped(h), HeapSound(h, n), NEW P, Written("printed", h, P), NEW w \in Seq(Tokens),
         PlainTexts(h)
  PROVE  \A c \in DOMAIN h : h[c].kind \in EntityKinds => \A p \in Nat : At(w, p, P[c]) => EntityDerived(w, P, c, p)
<1>. DEFINE T == {c \in DOMAIN h : h[c].kind \in EntityKinds => \A p \in Nat : At(w, p, P[c]) => EntityDerived(w, P, c, p)}
<1>1. ASSUME NEW c \in DOMAIN h, \A i \in 1 .. Len(h[c].kids) : h[c].kids[i] \in T, h[c].kind \in EntityKinds,
             NEW p \in Nat, At(w, p, P[c])
      PROVE  EntityDerived(w, P, c, p)
  <2>1. CASE h[c].kind \in Kinds
    <3>1. \A i \in 1 .. Len(h[c].kids) : \A a \in Nat : At(w, a, P[h[c].kids[i]]) => EntityDerived(w, P, h[c].kids[i], a)
      BY <1>1 DEF Shaped, ShapeOf
    <3>. HIDE DEF T
    <3>. QED
      BY <1>1, <2>1, <3>1, ListDerived
  <2>2. CASE h[c].kind \in Literals \cup {"string"}
    <3>1. PICK x \in Literals : P[c] = <<x>>
      BY <2>2, PrintsLiteral
    <3>2. Len(<<x>>) = 1 /\ <<x>>[1] = x
      OBVIOUS
    <3>3. Len(P[c]) = 1 /\ p + 1 <= Len(w) /\ w[p + 1] = x
      BY <1>1, <3>1, <3>2 DEF At
    <3>4. p + 1 \in 1 .. Len(w) /\ p + 1 \in 0 .. Len(w) /\ w[p + 1] \in Literals
      BY <3>3
    <3>5. Derives("entity", w, p + 1, p + 1)
      BY <3>4, EntityIs
    <3>. QED
      BY <3>3, <3>5 DEF EntityDerived
  <2>. QED
    BY <1>1, <2>1, <2>2 DEF EntityKinds
<1>2. \A c \in DOMAIN h : (\A i \in 1 .. Len(h[c].kids) : h[c].kids[i] \in T) => c \in T
  BY <1>1
<1>. HIDE DEF T
<1>3. \A c \in DOMAIN h : c \in T
  BY <1>2, KidsFirst
<1>. QED
  BY <1>3 DEF T

LEMMA PrintedIsDocument ==
  ASSUME NEW h, NEW n, Shaped(h), HeapSound(h, n), NEW P, Written("printed", h, P),
         PlainTexts(h), NEW e \in DOMAIN h, h[e].kind = "object"
  PROVE  IsDocument(P[e])
<1>. DEFINE w == P[e]
<1>1. h[e].kind \in EntityKinds /\ h[e].kind \in Kinds
  BY DEF EntityKinds, Kinds
<1>2. w \in Seq(Tokens) /\ w = P[e]
  BY <1>1, PrintedTokens
<1>3. w \in Seq(Words)
  BY DEF Written
<1>. HIDE DEF w
<1>4. At(w, 0, P[e]) /\ 0 \in Nat
  BY <1>2, <1>3, SelfLies
<1>5. EntityDerived(w, P, e, 0)
  BY <1>1, <1>2, <1>4, PrintedDerives
<1>6. PICK L : Laid("printed", h, P, e, w, 0, L)
  BY <1>1, <1>3, <1>4, ListLies
<1>7. w[0 + 1] = "lbrace"
  BY <1>6 DEF Laid, Opener
<1>8. Len(P[e]) \in Nat /\ 1 <= Len(P[e])
  BY <1>1, PrintedLong
<1>9. w # <<>>
  BY <1>2, <1>8
<1>10. Derives("entity", w, 1, Len(w))
  <2>1. 0 + 1 = 1 /\ 0 + Len(P[e]) = Len(w)
    BY <1>2, <1>8
  <2>. QED
    BY <1>5, <2>1 DEF EntityDerived
<1>. QED
  BY <1>2, <1>7, <1>9, <1>10 DEF IsDocument

(***************************************************************************)
(* What print_json prints is what is put together of the blocks.           *)
(***************************************************************************)
\* What Printed says of a block.
PrintedBy(h, U, c) ==
  LET ent == h[c]
      name(i) == IF ent.kind = "object" THEN <<h[ent.names[i]].val, "colon">> ELSE <<>>
      list == FlattenSeq([i \in DOMAIN ent.kids |-> name(i) \o U[ent.kids[i]] \o PutComma(FALSE)])
  IN  CASE ent.kind = "object" -> <<"lbrace">> \o list \o <<"rbrace">>
        [] ent.kind = "array" -> <<"lsqbracket">> \o list \o <<"rsqbracket">>
        [] ent.kind = "string" -> Bare[h[ent.names[1]].val]
        [] OTHER -> <<ent.kind>>

LEMMA PrintedFrom ==
  ASSUME NEW e
  PROVE  Printed(e) = (CHOOSE U : U = [c \in DOMAIN heap |-> PrintedBy(heap, U, c)])[e] \o PutComma(TRUE)
BY Zenon DEF Printed, PrintedBy

LEMMA PrintedByIs ==
  ASSUME NEW h, Shaped(h), NEW U, NEW c \in DOMAIN h
  PROVE  PrintedBy(h, U, c) = WordOf("printed", h, U, c)
<1>. DEFINE name(i) == IF h[c].kind = "object" THEN <<h[h[c].names[i]].val, "colon">> ELSE <<>>
            L == [i \in DOMAIN h[c].kids |-> name(i) \o U[h[c].kids[i]] \o PutComma(FALSE)]
<1>1. ShapeOf(h, c)
  BY DEF Shaped
<1>2. DOMAIN h[c].kids = 1 .. Len(h[c].kids)
  BY <1>1 DEF ShapeOf
<1>3. ASSUME NEW i \in 1 .. Len(h[c].kids)
      PROVE  name(i) \o U[h[c].kids[i]] \o PutComma(FALSE) = ItemOf("printed", h, U, c, i)
  <2>1. name(i) = FieldOf("printed", h, c, i)
    <3>1. CASE h[c].kind = "object"
      <4>. DEFINE x == h[h[c].names[i]].val
      <4>1. h[c].names[i] \in DOMAIN h /\ h[h[c].names[i]].kind = "text"
        BY <1>1, <3>1 DEF ShapeOf
      <4>2. x \in Words /\ "colon" \in Words
        BY <4>1, BracketsAreWords DEF Shaped, ShapeOf
      <4>3. FieldOf("printed", h, c, i) = <<x>> \o <<"colon">>
        BY <3>1 DEF FieldOf, NameOf, Mark
      <4>4. name(i) = <<x, "colon">>
        BY <3>1
      <4>. HIDE DEF x, name
      <4>5. <<x, "colon">> \o <<>> = (<<x>> \o <<"colon">>) \o <<>> \o <<>> /\ <<>> \in Seq(Words)
        BY <4>2, TwoMarks
      <4>6. <<x, "colon">> \in Seq(Words) /\ <<x>> \in Seq(Words) /\ <<"colon">> \in Seq(Words)
        BY <4>2
      <4>7. <<x>> \o <<"colon">> \in Seq(Words)
        BY <4>6, ConcatIs
      <4>. QED
        BY <4>3, <4>4, <4>5, <4>6, <4>7, ConcatEmpty
    <3>2. CASE h[c].kind # "object"
      BY <3>2 DEF FieldOf
    <3>. QED
      BY <3>1, <3>2
  <2>2. PutComma(FALSE) = Sep("printed")
    BY DEF PutComma, Sep
  <2>. HIDE DEF name
  <2>. QED
    BY <2>1, <2>2 DEF ItemOf
<1>4. ListedAs("printed", h, U, c, L)
  BY <1>2, <1>3 DEF ListedAs
<1>5. FlattenSeq(L) = ItemsOf("printed", h, U, c)
  BY <1>4, ListIs, Zenon
<1>6. PrintedBy(h, U, c) = CASE h[c].kind = "object" -> <<"lbrace">> \o FlattenSeq(L) \o <<"rbrace">>
                             [] h[c].kind = "array" -> <<"lsqbracket">> \o FlattenSeq(L) \o <<"rsqbracket">>
                             [] h[c].kind = "string" -> Bare[h[h[c].names[1]].val]
                             [] OTHER -> <<h[c].kind>>
  BY Zenon DEF PrintedBy
<1>. HIDE DEF L
<1>7. CASE h[c].kind \in Kinds
  <2>1. WordOf("printed", h, U, c) = <<Opener(h[c].kind)>> \o FlattenSeq(L) \o <<Closer(h[c].kind)>>
    BY <1>5, <1>7 DEF WordOf, ListWord, Mark
  <2>. QED
    BY <1>6, <1>7, <2>1 DEF Kinds, Opener, Closer
<1>8. CASE h[c].kind \notin Kinds
  <2>1. WordOf("printed", h, U, c) = IF h[c].kind = "string" THEN Bare[h[h[c].names[1]].val] ELSE <<h[c].kind>>
    BY <1>8 DEF WordOf, LeafOf, StringOf, TextIn
  <2>. QED
    BY <1>6, <1>8, <2>1 DEF Kinds
<1>. QED
  BY <1>7, <1>8

LEMMA PrintedIs ==
  ASSUME Blocks, Shaped(heap), NEW P, Written("printed", heap, P), NEW e \in DOMAIN heap
  PROVE  Printed(e) = P[e]
<1>. DEFINE Is(U) == U = [c \in DOMAIN heap |-> PrintedBy(heap, U, c)]
            U0 == CHOOSE U : Is(U)
<1>1. Printed(e) = U0[e] \o PutComma(TRUE)
  BY PrintedFrom
<1>2. Is(P)
  <2>1. ASSUME NEW c \in DOMAIN heap PROVE P[c] = PrintedBy(heap, P, c)
    BY PrintedByIs DEF Written
  <2>2. P = [c \in DOMAIN heap |-> P[c]]
    BY DEF Written
  <2>. QED
    BY <2>1, <2>2, Zenon
<1>3. Is(U0)
  BY <1>2, Zenon
<1>. HIDE DEF U0
<1>4. ASSUME NEW c \in DOMAIN heap PROVE U0[c] = WordOf("printed", heap, U0, c)
  <2>1. U0[c] = PrintedBy(heap, U0, c)
    BY <1>3
  <2>. QED
    BY <2>1, PrintedByIs
<1>5. HeapSound(heap, allocs)
  BY BlocksSound
<1>. HIDE DEF Is
<1>6. U0[e] = P[e]
  BY <1>4, <1>5, WordsAgree
<1>7. P[e] \in Seq(Words) /\ PutComma(TRUE) = <<>>
  BY DEF Written, PutComma
<1>. QED
  BY <1>1, <1>6, <1>7, ConcatEmpty

LEMMA ParsedPrints ==
  ASSUME Parsed, ret # Null
  PROVE  ReprintReads
<1>1. PICK c, W, V : TreeSays(c, W, V)
  BY ParsedSays
<1>2. /\ Shaped(heap) /\ ret \in DOMAIN heap /\ heap[ret].kind = "object" /\ heap[ret].kind \in EntityKinds
      /\ c = WithoutCommas(read) /\ Written("tokens", heap, W) /\ W[ret] = c
  BY <1>1 DEF TreeSays, EntityKinds, Kinds
<1>3. ToldAll(read, stack, heap, "parsed", ret)
  BY DEF Parsed, Telling, Tells
<1>4. PICK P : Written("printed", heap, P)
  BY <1>3 DEF ToldAll, Views
<1>5. HeapSound(heap, allocs) /\ Blocks
  BY BlocksSound DEF Parsed
<1>6. Printed(ret) = P[ret]
  BY <1>2, <1>4, <1>5, PrintedIs
<1>7. P[ret] \in Seq(Tokens) /\ WithoutCommas(P[ret]) = Said("tokens", P[ret])
  BY <1>2, <1>4, <1>5, PrintedTokens, SaidTokens
<1>. DEFINE strs == {y \in DOMAIN heap : heap[y].kind = "string"}
            texts == {heap[heap[x].names[1]].val : x \in strs}
<1>8. texts = {} => IsDocument(Printed(ret)) /\ WithoutCommas(Printed(ret)) = WithoutCommas(read)
  <2>1. SUFFICES ASSUME texts = {} PROVE IsDocument(P[ret]) /\ WithoutCommas(P[ret]) = WithoutCommas(read)
    BY <1>6
  <2>2. \A b1 \in DOMAIN heap : heap[b1].kind # "string"
    BY <2>1
  <2>3. PlainTexts(heap)
    BY <2>2 DEF PlainTexts
  <2>4. IsDocument(P[ret])
    BY <1>2, <1>4, <1>5, <2>3, PrintedIsDocument
  <2>5. Said("tokens", P[ret]) = W[ret]
    BY <1>2, <1>4, <1>5, <2>2, PrintedSays
  <2>. QED
    BY <1>2, <1>7, <2>4, <2>5
<1>9. WithoutCommas(Printed(ret)) = WithoutCommas(read) => texts = {}
  <2>1. SUFFICES ASSUME W[ret] = Said("tokens", P[ret]), NEW b1 \in strs PROVE FALSE
    BY <1>2, <1>6, <1>7
  <2>2. ~ Named(W[ret])
    BY <1>2, StringUnnamed
  <2>3. Named(Said("tokens", P[ret]))
    BY <1>2, <1>4, <1>5, PrintedNamed
  <2>. QED
    BY <2>1, <2>2, <2>3
<1>10. (\A t \in texts : Bare[t] \in {<<l>> : l \in Literals}) => IsDocument(Printed(ret))
  <2>1. SUFFICES ASSUME \A t \in texts : Bare[t] \in {<<l>> : l \in Literals} PROVE IsDocument(P[ret])
    BY <1>6
  <2>2. ASSUME NEW b1 \in DOMAIN heap, heap[b1].kind = "string" PROVE TextIn(heap, b1) \in texts
    BY <2>2 DEF TextIn
  <2>3. PlainTexts(heap)
    BY <2>1, <2>2 DEF PlainTexts
  <2>. QED
    BY <1>2, <1>4, <1>5, <2>3, PrintedIsDocument
<1>11. (\E t \in texts : "error" \in Range(Bare[t])) => ~IsDocument(Printed(ret))
  <2>1. SUFFICES ASSUME NEW b1 \in strs, "error" \in Range(Bare[TextIn(heap, b1)]) PROVE ~ IsDocument(P[ret])
    BY <1>6 DEF TextIn
  <2>2. PICK k \in DOMAIN Bare[TextIn(heap, b1)] : Bare[TextIn(heap, b1)][k] = "error"
    BY <2>1 DEF Range
  <2>3. TextIn(heap, b1) \in Strings
    BY <1>2, TextIs
  <2>4. k \in 1 .. Len(Bare[TextIn(heap, b1)])
    BY <2>2, <2>3, BareIs
  <2>. QED
    BY <1>2, <1>4, <2>2, <2>4, ErrorIsNoDocument
<1>. HIDE DEF strs
<1>. QED
  BY <1>8, <1>9, <1>10, <1>11 DEF ReprintReads, strs

\* What -reprint prints of any file that was parsed is a document with the same
\* tokens but for the commas exactly if no value in it is a string: a string is
\* printed without its quotes, and every list with a comma after its last item,
\* which the parser accepts.  It is a document nevertheless if every string looks
\* like a number or a word of JSON, and none if the text of one makes no sense.
THEOREM ReprintIsRead == Spec => []ReprintReads
<1>1. Blocks /\ Reading /\ Telling => ReprintReads
  <2>1. SUFFICES ASSUME Blocks, Reading, Telling, pc = "parsed", ret # Null PROVE ReprintReads
    BY DEF ReprintReads
  <2>2. Parsed
    BY <2>1 DEF Parsed
  <2>. QED
    BY <2>1, <2>2, ParsedPrints
<1>2. BlocksInv /\ Reading /\ Telling => ReprintReads
  BY <1>1 DEF BlocksInv
<1>. QED
  BY <1>2, BlocksAreOwned, ReadingIsRight, TreeSaysWhatWasRead, PTL
=============================================================================
