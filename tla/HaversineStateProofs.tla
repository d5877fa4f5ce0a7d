------------------------- MODULE HaversineStateProofs -------------------------
(***************************************************************************)
(* What haversine_perf_test acquires, for every file, every alphabet and   *)
(* every failure of open, mmap and read: each block of the parser has one  *)
(* owner, each mapping one buffer, and what ends by itself leaves nothing. *)
(*                                                                         *)
(* The blocks.  OneOwner counts pointers to a block; the proof works with  *)
(* the set of live pointers instead (Live), which has for each block that  *)
(* is not superseded exactly one that goes to it (Owned).  The inductive   *)
(* invariant ParserInv needs more than that.  An error frees the tree of   *)
(* an entity, a function recursive in its blocks: that there is one at     *)
(* all, and that what it frees is what is reached from the entity, needs   *)
(* that kids are older than their parents (HeapOk: a call allocates its    *)
(* entity before it reads its items, so the number of a kid is larger) and *)
(* that strings and arrays of items lead nowhere.  That nothing is left    *)
(* when the last root is gone (NoRootNoBlock) follows from the order, too: *)
(* the oldest block left would have an older owner.                        *)
(*                                                                         *)
(* The mappings.  Holds gives for each name, that of a field of            *)
(* haversine_state_t or the b of load_entire_file, the buffer held under   *)
(* it; every mapping is that of one of them.  SetupInv adds what is        *)
(* not yet allocated at each step.                                         *)
(*                                                                         *)
(* The document.  What is read begins a document, and an extension of it   *)
(* is one exactly if it goes on as the calls on the stack expect: there    *)
(* are places where the open lists are closed, one within the other, with  *)
(* the rest of each before its place (Fits).  Every token keeps this       *)
(* equivalence, or contradicts what is expected, and then no extension is  *)
(* a document (OpenAt, Wrong).  That the grammar has the rules at all, a   *)
(* function recursive in parts of the sequence, is that monotone rules     *)
(* have a least set (RulesExist).                                          *)
(*                                                                         *)
(* The tree.  At every step the open lists, outermost first, each with its *)
(* bracket, its items so far and the name that waits, say what was read    *)
(* without its commas (Told); what a block says is a sequence that is that *)
(* of its kids put together (Written).  A push changes the items of one    *)
(* block only, and that block is the kid of none: this needs the order of  *)
(* the blocks and that each has one owner.                                 *)
(***************************************************************************)
EXTENDS HaversineState, FiniteSetTheorems, WellFoundedInduction, TLAPS

(***************************************************************************)
(* Pointers and blocks.                                                    *)
(***************************************************************************)

\* Every pointer of L points to a block of B, and every block of B has one.
Owned(L, B) ==
  /\ \A x \in L : x[3] \in B
  /\ \A x, y \in L : x[3] = y[3] => x = y
  /\ \A c \in B : \E x \in L : x[3] = c

\* A block is allocated, and x points to it.
LEMMA OwnedMore ==
  ASSUME NEW L, NEW B, Owned(L, B), NEW x, x[3] \notin B
  PROVE  Owned(L \cup {x}, B \cup {x[3]})
BY Zenon DEF Owned

\* A pointer moves.
LEMMA OwnedMoved ==
  ASSUME NEW L, NEW B, Owned(L, B), NEW x \in L, NEW y, y[3] = x[3]
  PROVE  Owned((L \ {x}) \cup {y}, B)
<1>1. \A z \in (L \ {x}) \cup {y} : z[3] \in B
  BY Zenon DEF Owned
<1>2. ASSUME NEW u \in (L \ {x}) \cup {y}, NEW v \in (L \ {x}) \cup {y}, u[3] = v[3] PROVE u = v
  BY <1>2, Zenon DEF Owned
<1>3. ASSUME NEW c \in B PROVE \E z \in (L \ {x}) \cup {y} : z[3] = c
  BY Zenon DEF Owned
<1>. QED
  BY <1>1, <1>2, <1>3 DEF Owned

\* A block and the pointer to it go, or it is counted no more.
LEMMA OwnedFewer ==
  ASSUME NEW L, NEW B, Owned(L, B), NEW x \in L
  PROVE  Owned(L \ {x}, B \ {x[3]})
<1>1. \A z \in L \ {x} : z[3] \in B \ {x[3]}
  BY Zenon DEF Owned
<1>2. ASSUME NEW u \in L \ {x}, NEW v \in L \ {x}, u[3] = v[3] PROVE u = v
  BY <1>2, Zenon DEF Owned
<1>3. ASSUME NEW c \in B \ {x[3]} PROVE \E z \in L \ {x} : z[3] = c
  BY Zenon DEF Owned
<1>. QED
  BY <1>1, <1>2, <1>3 DEF Owned

\* The blocks T are all that is reached from x, through the pointers O: they
\* can go together.
Reached(T, O, x) ==
  /\ x \notin O /\ x[3] \in T
  /\ \A y \in O : y[3] \in T
  /\ \A c \in T : c = x[3] \/ \E y \in O : y[3] = c

LEMMA OwnedFreed ==
  ASSUME NEW L, NEW B, Owned(L, B), NEW x \in L, NEW T, NEW O \in SUBSET L, Reached(T, O, x)
  PROVE  Owned(L \ (O \cup {x}), B \ T)
<1>1. ASSUME NEW z \in L \ (O \cup {x}) PROVE z[3] \in B \ T
  <2>1. z[3] \in B /\ z # x /\ z \notin O /\ z \in L
    BY DEF Owned
  <2>2. z[3] # x[3]
    BY <2>1 DEF Owned
  <2>3. \A y \in O : z[3] # y[3]
    BY <2>1 DEF Owned
  <2>. QED
    BY <2>1, <2>2, <2>3 DEF Reached
<1>2. ASSUME NEW u \in L \ (O \cup {x}), NEW v \in L \ (O \cup {x}), u[3] = v[3] PROVE u = v
  BY <1>2, Zenon DEF Owned
<1>3. ASSUME NEW c \in B \ T PROVE \E z \in L \ (O \cup {x}) : z[3] = c
  <2>1. PICK z \in L : z[3] = c
    BY DEF Owned
  <2>2. z \notin O \cup {x}
    BY <2>1 DEF Reached
  <2>. QED
    BY <2>1, <2>2
<1>. QED
  BY <1>1, <1>2, <1>3 DEF Owned

(***************************************************************************)
(* The pointers by where they lie: in the frames of the stack, in what a   *)
(* call returned, and in the blocks of the heap.                           *)
(***************************************************************************)
FrameOut(i, f) == {<<"frame", i, f.ent>>, <<"name", i, f.name>>}
RetOut(p, r) == IF p \in {"returned", "parsed"} THEN {<<"ret", 0, r>>} ELSE {}
NamesOut(c, blk) == {<<"names", <<c, i>>, blk.names[i]>> : i \in DOMAIN blk.names}
KidsOut(c, blk) == {<<"kids", <<c, i>>, blk.kids[i]>> : i \in DOMAIN blk.kids}
BlockOut(c, blk) == NamesOut(c, blk) \cup KidsOut(c, blk) \cup {<<"items", c, blk.items>>}

NonNull(X) == {x \in X : x[3] # Null}

StackLive(st) == UNION {NonNull(FrameOut(i, st[i])) : i \in DOMAIN st}
RetLive(p, r) == NonNull(RetOut(p, r))
HeapLive(h) == UNION {NonNull(BlockOut(c, h[c])) : c \in DOMAIN h}
Live(st, h, p, r) == StackLive(st) \cup RetLive(p, r) \cup HeapLive(h)

LEMMA LivePointers == Live(stack, heap, pc, ret) = {x \in Pointers : x[3] # Null}
<1>. DEFINE F == {<<"frame", i, stack[i].ent>> : i \in DOMAIN stack}
            N == {<<"name", i, stack[i].name>> : i \in DOMAIN stack}
            H == UNION {BlockOut(c, heap[c]) : c \in DOMAIN heap}
<1>1. Pointers = F \cup N \cup RetOut(pc, ret) \cup H
  BY Zenon DEF Pointers, RetOut, BlockOut, NamesOut, KidsOut
<1>2. StackLive(stack) = {x \in F \cup N : x[3] # Null}
  BY DEF StackLive, NonNull, FrameOut
<1>3. HeapLive(heap) = {x \in H : x[3] # Null}
  BY DEF HeapLive, NonNull
<1>. HIDE DEF F, N, H
<1>. QED
  BY <1>1, <1>2, <1>3, Zenon DEF Live, RetLive, NonNull


(***************************************************************************)
(* What the pointers become when the heap and the stack change.            *)
(***************************************************************************)
\* The block a pointer lies in.
From(x) == IF x[1] = "items" THEN x[2] ELSE x[2][1]

LEMMA BlockOutFrom ==
  ASSUME NEW c, NEW blk, NEW x \in BlockOut(c, blk)
  PROVE  x[1] \in {"names", "kids", "items"} /\ From(x) = c
<1>1. CASE x \in NamesOut(c, blk)
  BY <1>1 DEF NamesOut, From
<1>2. CASE x \in KidsOut(c, blk)
  BY <1>2 DEF KidsOut, From
<1>3. CASE x = <<"items", c, blk.items>>
  BY <1>3 DEF From
<1>. QED
  BY <1>1, <1>2, <1>3 DEF BlockOut

LEMMA HeapLiveIs ==
  ASSUME NEW h, NEW x
  PROVE  x \in HeapLive(h) <=> \E c \in DOMAIN h : x \in BlockOut(c, h[c]) /\ x[3] # Null
BY DEF HeapLive, NonNull

LEMMA HeapLiveAt ==
  ASSUME NEW h, NEW x \in HeapLive(h)
  PROVE  /\ From(x) \in DOMAIN h /\ x \in BlockOut(From(x), h[From(x)]) /\ x[3] # Null
         /\ x[1] \in {"names", "kids", "items"}
<1>1. PICK c \in DOMAIN h : x \in BlockOut(c, h[c]) /\ x[3] # Null
  BY HeapLiveIs
<1>2. x[1] \in {"names", "kids", "items"} /\ From(x) = c
  BY ONLY <1>1, BlockOutFrom
<1>. QED
  BY ONLY <1>1, <1>2

LEMMA WithIs ==
  ASSUME NEW h, NEW c, NEW blk
  PROVE  /\ DOMAIN With(h, c, blk) = DOMAIN h \cup {c}
         /\ With(h, c, blk)[c] = blk
         /\ \A d \in DOMAIN h : d # c => With(h, c, blk)[d] = h[d]
BY DEF With

LEMMA WithoutIs ==
  ASSUME NEW h, NEW T
  PROVE  /\ DOMAIN Without(h, T) = DOMAIN h \ T
         /\ \A d \in DOMAIN h \ T : Without(h, T)[d] = h[d]
BY DEF Without, Restrict

\* Block c gets new contents, or it is allocated.
LEMMA HeapLiveWith ==
  ASSUME NEW h, NEW c, NEW blk
  PROVE  /\ c \notin DOMAIN h => HeapLive(With(h, c, blk)) = HeapLive(h) \cup NonNull(BlockOut(c, blk))
         /\ c \in DOMAIN h => HeapLive(With(h, c, blk))
                                = (HeapLive(h) \ BlockOut(c, h[c])) \cup NonNull(BlockOut(c, blk))
<1>. DEFINE g == With(h, c, blk)
<1>0. g = With(h, c, blk)
  OBVIOUS
<1>. HIDE DEF g
<1>1. DOMAIN g = DOMAIN h \cup {c} /\ g[c] = blk /\ \A d \in DOMAIN h : d # c => g[d] = h[d]
  <2>1. DOMAIN With(h, c, blk) = DOMAIN h \cup {c}
    BY WithIs
  <2>2. With(h, c, blk)[c] = blk
    BY DEF With
  <2>3. ASSUME NEW d \in DOMAIN h, d # c PROVE With(h, c, blk)[d] = h[d]
    BY <2>3 DEF With
  <2>. QED
    BY <1>0, <2>1, <2>2, <2>3
<1>2. ASSUME NEW x \in HeapLive(g) PROVE x \in NonNull(BlockOut(c, blk)) \/ (x \in HeapLive(h) /\ From(x) # c)
  <2>1. From(x) \in DOMAIN g /\ x \in BlockOut(From(x), g[From(x)]) /\ x[3] # Null
    BY HeapLiveAt
  <2>2. CASE From(x) = c
    <3>1. x \in BlockOut(c, blk) /\ x[3] # Null
      BY ONLY <1>1, <2>1, <2>2
    <3>. QED
      BY ONLY <3>1 DEF NonNull
  <2>3. CASE From(x) # c
    <3>1. From(x) \in DOMAIN h /\ h[From(x)] = g[From(x)]
      BY ONLY <1>1, <2>1, <2>3
    <3>2. From(x) \in DOMAIN h /\ x \in BlockOut(From(x), h[From(x)]) /\ x[3] # Null
      BY ONLY <3>1, <2>1
    <3>. QED
      BY ONLY <3>2, <2>3, HeapLiveIs
  <2>. QED
    BY <2>2, <2>3
<1>3. ASSUME NEW x \in HeapLive(h), From(x) # c PROVE x \in HeapLive(g)
  <2>1. From(x) \in DOMAIN h /\ x \in BlockOut(From(x), h[From(x)]) /\ x[3] # Null
    BY HeapLiveAt
  <2>. QED
    BY <1>1, <1>3, <2>1, HeapLiveIs
<1>4. ASSUME NEW x \in NonNull(BlockOut(c, blk)) PROVE x \in HeapLive(g)
  <2>1. x \in BlockOut(c, g[c]) /\ x[3] # Null /\ c \in DOMAIN g
    BY <1>1 DEF NonNull
  <2>. QED
    BY <2>1, HeapLiveIs
<1>5. ASSUME NEW x \in HeapLive(h) PROVE From(x) # c <=> (c \in DOMAIN h => x \notin BlockOut(c, h[c]))
  BY HeapLiveAt, BlockOutFrom
<1>. QED
  BY <1>0, <1>2, <1>3, <1>4, <1>5

\* What blocks T point to.
OutOf(h, T) == {x \in HeapLive(h) : From(x) \in T}

LEMMA HeapLiveWithout ==
  ASSUME NEW h, NEW T
  PROVE  HeapLive(Without(h, T)) = HeapLive(h) \ OutOf(h, T)
<1>. DEFINE g == Without(h, T)
<1>1. DOMAIN g = DOMAIN h \ T /\ \A d \in DOMAIN h \ T : g[d] = h[d]
  BY WithoutIs
<1>. HIDE DEF g
<1>2. ASSUME NEW x \in HeapLive(g) PROVE x \in HeapLive(h) /\ From(x) \notin T
  <2>1. From(x) \in DOMAIN g /\ x \in BlockOut(From(x), g[From(x)]) /\ x[3] # Null
    BY HeapLiveAt
  <2>. QED
    BY <1>1, <2>1, HeapLiveIs
<1>3. ASSUME NEW x \in HeapLive(h), From(x) \notin T PROVE x \in HeapLive(g)
  <2>1. From(x) \in DOMAIN h /\ x \in BlockOut(From(x), h[From(x)]) /\ x[3] # Null
    BY HeapLiveAt
  <2>. QED
    BY <1>1, <1>3, <2>1, HeapLiveIs
<1>4. g = Without(h, T)
  BY DEF g
<1>. QED
  BY <1>2, <1>3, <1>4 DEF OutOf

Frames == [kind : {"object", "array"}, ent : Nat \ {0}, name : Nat]

\* The frame a pointer of the stack lies in.
LEMMA FrameOutFrom ==
  ASSUME NEW i, NEW f, NEW x \in FrameOut(i, f)
  PROVE  x[1] \in {"frame", "name"} /\ x[2] = i
BY DEF FrameOut

LEMMA StackLiveIs ==
  ASSUME NEW st, NEW x
  PROVE  x \in StackLive(st) <=> \E i \in DOMAIN st : x \in FrameOut(i, st[i]) /\ x[3] # Null
BY DEF StackLive, NonNull

LEMMA StackLiveAt ==
  ASSUME NEW st, NEW x \in StackLive(st)
  PROVE  /\ x[2] \in DOMAIN st /\ x \in FrameOut(x[2], st[x[2]]) /\ x[3] # Null
         /\ x[1] \in {"frame", "name"}
<1>1. PICK i \in DOMAIN st : x \in FrameOut(i, st[i]) /\ x[3] # Null
  BY StackLiveIs
<1>2. x[1] \in {"frame", "name"} /\ x[2] = i
  BY ONLY <1>1, FrameOutFrom
<1>. QED
  BY ONLY <1>1, <1>2

\* Stacks that agree but in frame k, which q has perhaps not.
Agree(q, t, k) ==
  /\ DOMAIN t = DOMAIN q \cup {k}
  /\ \A i \in DOMAIN q : i # k => t[i] = q[i]

LEMMA StackLiveAgree ==
  ASSUME NEW q, NEW t, NEW k, Agree(q, t, k)
  PROVE  /\ \A x \in StackLive(t) : x[2] # k => x \in StackLive(q)
         /\ \A x \in StackLive(q) : x[2] # k => x \in StackLive(t)
<1>1. ASSUME NEW x \in StackLive(t), x[2] # k PROVE x \in StackLive(q)
  <2>1. x[2] \in DOMAIN t /\ x \in FrameOut(x[2], t[x[2]]) /\ x[3] # Null
    BY StackLiveAt
  <2>2. x[2] \in DOMAIN q /\ t[x[2]] = q[x[2]]
    BY <1>1, <2>1 DEF Agree
  <2>3. x[2] \in DOMAIN q /\ x \in FrameOut(x[2], q[x[2]]) /\ x[3] # Null
    BY ONLY <2>1, <2>2
  <2>. QED
    BY ONLY <2>3, StackLiveIs
<1>2. ASSUME NEW x \in StackLive(q), x[2] # k PROVE x \in StackLive(t)
  <2>1. x[2] \in DOMAIN q /\ x \in FrameOut(x[2], q[x[2]]) /\ x[3] # Null
    BY StackLiveAt
  <2>2. x[2] \in DOMAIN t /\ t[x[2]] = q[x[2]]
    BY <1>2, <2>1 DEF Agree
  <2>3. x[2] \in DOMAIN t /\ x \in FrameOut(x[2], t[x[2]]) /\ x[3] # Null
    BY ONLY <2>1, <2>2
  <2>. QED
    BY ONLY <2>3, StackLiveIs
<1>. QED
  BY <1>1, <1>2

LEMMA StackLiveWith ==
  ASSUME NEW q, NEW t, NEW k, Agree(q, t, k)
  PROVE  StackLive(t) = {x \in StackLive(q) : x[2] # k} \cup NonNull(FrameOut(k, t[k]))
<1>1. ASSUME NEW x \in StackLive(t), x[2] = k PROVE x \in NonNull(FrameOut(k, t[k]))
  <2>1. x[2] \in DOMAIN t /\ x \in FrameOut(x[2], t[x[2]]) /\ x[3] # Null
    BY StackLiveAt
  <2>2. x \in FrameOut(k, t[k]) /\ x[3] # Null
    BY ONLY <1>1, <2>1
  <2>. QED
    BY ONLY <2>2 DEF NonNull
<1>2. ASSUME NEW x \in NonNull(FrameOut(k, t[k])) PROVE x \in StackLive(t)
  <2>1. k \in DOMAIN t
    BY DEF Agree
  <2>2. x \in FrameOut(k, t[k]) /\ x[3] # Null
    BY DEF NonNull
  <2>. QED
    BY ONLY <2>1, <2>2, StackLiveIs
<1>3. /\ \A x \in StackLive(t) : x[2] # k => x \in StackLive(q)
      /\ \A x \in StackLive(q) : x[2] # k => x \in StackLive(t)
  BY StackLiveAgree
<1>. QED
  BY ONLY <1>1, <1>2, <1>3

\* The last frame.
LEMMA FrontIs ==
  ASSUME NEW st \in Seq(Frames), st # <<>>
  PROVE  /\ Len(st) \in Nat \ {0} /\ DOMAIN st = 1 .. Len(st)
         /\ Last(st) = st[Len(st)] /\ Last(st) \in Frames
         /\ Front(st) \in Seq(Frames) /\ Len(Front(st)) = Len(st) - 1
         /\ DOMAIN Front(st) = 1 .. Len(st) - 1
         /\ \A i \in 1 .. Len(st) - 1 : Front(st)[i] = st[i]
<1>. DEFINE n == Len(st)
<1>1. n \in Nat \ {0} /\ DOMAIN st = 1 .. n /\ n - 1 \in Nat
  OBVIOUS
<1>2. Last(st) = st[n] /\ st[n] \in Frames
  BY <1>1 DEF Last
<1>3. \A i \in 1 .. n - 1 : i \in 1 .. n /\ st[i] \in Frames
  BY <1>1
<1>4. SubSeq(st, 1, n - 1) \in Seq(Frames)
  BY <1>1, <1>3
<1>5. Len(SubSeq(st, 1, n - 1)) = n - 1
  BY <1>1
<1>6. \A i \in 1 .. n - 1 : SubSeq(st, 1, n - 1)[i] = st[i]
  BY <1>1
<1>7. Front(st) = SubSeq(st, 1, n - 1)
  BY DEF Front
<1>. QED
  BY <1>1, <1>2, <1>4, <1>5, <1>6, <1>7

LEMMA StackLiveAppend ==
  ASSUME NEW st \in Seq(Frames), NEW f \in Frames
  PROVE  /\ Append(st, f) \in Seq(Frames) /\ Append(st, f) # <<>>
         /\ Len(Append(st, f)) = Len(st) + 1 /\ Last(Append(st, f)) = f
         /\ \A i \in 1 .. Len(st) : Append(st, f)[i] = st[i]
         /\ StackLive(Append(st, f)) = StackLive(st) \cup NonNull(FrameOut(Len(st) + 1, f))
<1>. DEFINE t == Append(st, f)
            n == Len(st)
<1>1. /\ n \in Nat /\ DOMAIN st = 1 .. n /\ t \in Seq(Frames) /\ Len(t) = n + 1 /\ DOMAIN t = 1 .. n + 1
      /\ t[n + 1] = f /\ \A i \in 1 .. n : t[i] = st[i]
  OBVIOUS
<1>2. Last(t) = f /\ t # <<>>
  BY <1>1 DEF Last
<1>. HIDE DEF t, n
<1>3. Agree(st, t, n + 1)
  BY <1>1 DEF Agree
<1>4. StackLive(t) = {x \in StackLive(st) : x[2] # n + 1} \cup NonNull(FrameOut(n + 1, f))
  BY <1>1, <1>3, StackLiveWith
<1>5. \A x \in StackLive(st) : x[2] # n + 1
  BY <1>1, StackLiveAt
<1>. QED
  BY <1>1, <1>2, <1>4, <1>5 DEF t, n

LEMMA StackLiveFront ==
  ASSUME NEW st \in Seq(Frames), st # <<>>
  PROVE  StackLive(Front(st)) = StackLive(st) \ FrameOut(Len(st), Last(st))
<1>. DEFINE t == Front(st)
            n == Len(st)
<1>1. /\ n \in Nat \ {0} /\ DOMAIN st = 1 .. n /\ Last(st) = st[n] /\ DOMAIN t = 1 .. n - 1
      /\ \A i \in 1 .. n - 1 : t[i] = st[i]
  BY FrontIs
<1>. HIDE DEF t, n
<1>2. Agree(t, st, n)
  BY <1>1 DEF Agree
<1>3. StackLive(st) = {x \in StackLive(t) : x[2] # n} \cup NonNull(FrameOut(n, Last(st)))
  BY <1>1, <1>2, StackLiveWith
<1>4. \A x \in StackLive(t) : x[2] # n
  BY <1>1, StackLiveAt
<1>5. \A x \in FrameOut(n, Last(st)) : x[2] = n
  BY FrameOutFrom
<1>6. StackLive(t) = StackLive(st) \ FrameOut(n, Last(st))
  BY <1>3, <1>4, <1>5 DEF NonNull
<1>. QED
  BY <1>6 DEF t, n

\* The name in the last frame is set or taken.
LEMMA StackLiveName ==
  ASSUME NEW st \in Seq(Frames), st # <<>>, NEW v \in Nat
  PROVE  LET t == [st EXCEPT ![Len(st)].name = v]
         IN  /\ t \in Seq(Frames) /\ t # <<>> /\ Len(t) = Len(st)
             /\ Last(t) = [Last(st) EXCEPT !.name = v]
             /\ \A i \in 1 .. Len(st) : t[i].ent = st[i].ent
             /\ StackLive(t) = (StackLive(st) \ {<<"name", Len(st), Last(st).name>>})
                                 \cup NonNull({<<"name", Len(st), v>>})
<1>. DEFINE t == [st EXCEPT ![Len(st)].name = v]
            n == Len(st)
            f == Last(st)
<1>1. n \in Nat \ {0} /\ DOMAIN st = 1 .. n /\ f = st[n] /\ f \in Frames
  BY FrontIs
<1>2. /\ t \in Seq(Frames) /\ Len(t) = n /\ DOMAIN t = 1 .. n
      /\ \A i \in 1 .. n : i # n => t[i] = st[i]
      /\ t[n] = [f EXCEPT !.name = v]
  BY <1>1 DEF Frames
<1>3. t # <<>> /\ Last(t) = [f EXCEPT !.name = v]
  BY <1>1, <1>2 DEF Last
<1>. HIDE DEF t, n, f
<1>4. t[n].ent = f.ent /\ t[n].name = v
  BY <1>1, <1>2 DEF Frames
<1>5. \A i \in 1 .. n : t[i].ent = st[i].ent
  BY <1>1, <1>2, <1>4
<1>6. Agree(st, t, n)
  BY <1>1, <1>2 DEF Agree
<1>7. StackLive(t) = {x \in StackLive(st) : x[2] # n} \cup NonNull(FrameOut(n, t[n]))
  BY <1>6, StackLiveWith
<1>8. Agree(st, st, n)
  BY <1>1 DEF Agree
<1>9. StackLive(st) = {x \in StackLive(st) : x[2] # n} \cup NonNull(FrameOut(n, f))
  BY <1>1, <1>8, StackLiveWith
<1>10. /\ NonNull(FrameOut(n, t[n])) = NonNull({<<"frame", n, f.ent>>}) \cup NonNull({<<"name", n, v>>})
       /\ NonNull(FrameOut(n, f)) = NonNull({<<"frame", n, f.ent>>}) \cup NonNull({<<"name", n, f.name>>})
  BY <1>4 DEF NonNull, FrameOut
<1>11. StackLive(t) = (StackLive(st) \ {<<"name", n, f.name>>}) \cup NonNull({<<"name", n, v>>})
  <2>. DEFINE A == {x \in StackLive(st) : x[2] # n}
  <2>1. <<"name", n, f.name>> \notin A
    OBVIOUS
  <2>2. <<"name", n, f.name>> \notin NonNull({<<"frame", n, f.ent>>})
    BY DEF NonNull
  <2>3. NonNull({<<"name", n, f.name>>}) \subseteq {<<"name", n, f.name>>}
    BY DEF NonNull
  <2>. HIDE DEF A
  <2>4. StackLive(t) = A \cup NonNull({<<"frame", n, f.ent>>}) \cup NonNull({<<"name", n, v>>})
    BY <1>7, <1>10 DEF A
  <2>5. StackLive(st) = A \cup NonNull({<<"frame", n, f.ent>>}) \cup NonNull({<<"name", n, f.name>>})
    BY <1>9, <1>10 DEF A
  <2>. QED
    BY ONLY <2>1, <2>2, <2>3, <2>4, <2>5
<1>. QED
  BY <1>2, <1>3, <1>5, <1>11 DEF t, n, f

(***************************************************************************)
(* The blocks that deallocate frees.                                       *)
(***************************************************************************)
\* Every set of naturals has a least element.
LEMMA LeastNatural ==
  ASSUME NEW T \in SUBSET Nat, T # {}
  PROVE  \E x \in T : \A y \in T : x <= y
<1>. DEFINE R == OpToRel(<, Nat)
<1>1. IsWellFoundedOn(R, Nat)
  BY NatLessThanWellFounded
<1>2. \A y, x \in Nat : y < x => <<y, x>> \in R
  BY DEF OpToRel
<1>. HIDE DEF R
<1>3. PICK x \in T : \A y \in T : ~ (<<y, x>> \in R)
  BY <1>1, WFMin
<1>4. ASSUME NEW y \in T PROVE ~ (y < x)
  <2>1. y \in Nat /\ x \in Nat
    OBVIOUS
  <2>. QED
    BY <2>1, <1>2, <1>3, Zenon
<1>. QED
  BY <1>4


\* D are the blocks; a block points to the leaves N and to the blocks K.
Leafy(D, N, K) ==
  /\ \A c \in D : N[c] \in SUBSET D /\ K[c] \in SUBSET D
  /\ \A c \in D : \A d \in N[c] : N[d] = {} /\ K[d] = {}

TreeIs(T, D, N, K) == T = [c \in D |-> {c} \cup N[c] \cup UNION {T[k] : k \in K[c]}]

\* The recursive function of Tree exists: it gives what is in every set that
\* has the block and, with a block, those it points to.
LEMMA TreeExists ==
  ASSUME NEW D, NEW N, NEW K, Leafy(D, N, K)
  PROVE  \E T : TreeIs(T, D, N, K)
<1>. DEFINE Closed(S) == \A c \in S : N[c] \subseteq S /\ K[c] \subseteq S
            R == [c \in D |-> {d \in D : \A S \in SUBSET D : c \in S /\ Closed(S) => d \in S}]
            F(c) == {c} \cup N[c] \cup UNION {R[k] : k \in K[c]}
<1>1. \A c \in D : R[c] = {d \in D : \A S \in SUBSET D : c \in S /\ Closed(S) => d \in S}
  OBVIOUS
<1>2. \A c \in D : \A d \in R[c] : d \in D /\ \A S \in SUBSET D : c \in S /\ Closed(S) => d \in S
  OBVIOUS
<1>3. \A c, d \in D : (\A S \in SUBSET D : c \in S /\ Closed(S) => d \in S) => d \in R[c]
  OBVIOUS
<1>4. DOMAIN R = D
  OBVIOUS
<1>. HIDE DEF R
<1>5. ASSUME NEW c \in D PROVE R[c] \in SUBSET D /\ c \in R[c]
  BY <1>2, <1>3
<1>6. ASSUME NEW c \in D, NEW d \in R[c] PROVE N[d] \subseteq R[c] /\ K[d] \subseteq R[c]
  <2>1. d \in D /\ N[d] \in SUBSET D /\ K[d] \in SUBSET D
    BY <1>2 DEF Leafy
  <2>2. ASSUME NEW e \in N[d] \cup K[d] PROVE e \in R[c]
    <3>1. e \in D
      BY <2>1
    <3>2. ASSUME NEW S \in SUBSET D, c \in S, Closed(S) PROVE e \in S
      <4>1. d \in S
        BY <1>2, <3>2
      <4>. QED
        BY <3>2, <4>1
    <3>. HIDE DEF Closed
    <3>. QED
      BY <1>3, <3>1, <3>2
  <2>. QED
    BY <2>2
<1>7. ASSUME NEW c \in D PROVE R[c] = F(c)
  <2>1. N[c] \in SUBSET D /\ K[c] \in SUBSET D
    BY DEF Leafy
  <2>2. F(c) \in SUBSET D /\ c \in F(c)
    BY <1>5, <2>1
  <2>3. Closed(F(c))
    <3>1. ASSUME NEW d \in N[c] PROVE N[d] = {} /\ K[d] = {}
      BY DEF Leafy
    <3>2. ASSUME NEW k \in K[c], NEW d \in R[k] PROVE N[d] \subseteq F(c) /\ K[d] \subseteq F(c)
      BY <1>6, <2>1
    <3>3. N[c] \subseteq F(c) /\ K[c] \subseteq F(c)
      BY <1>5, <2>1
    <3>. QED
      BY <3>1, <3>2, <3>3
  <2>4. R[c] \subseteq F(c)
    <3>. HIDE DEF Closed, F
    <3>. QED
      BY <1>2, <2>2, <2>3
  <2>5. ASSUME NEW k \in K[c] PROVE R[k] \subseteq R[c]
    <3>1. k \in R[c] /\ k \in D
      BY <1>5, <1>6, <2>1
    <3>2. ASSUME NEW d \in R[k] PROVE d \in R[c]
      <4>1. d \in D
        BY <1>2, <3>1
      <4>2. Closed(R[c]) /\ R[c] \in SUBSET D
        BY <1>5, <1>6
      <4>. HIDE DEF Closed
      <4>. QED
        BY <1>2, <3>1, <4>2
    <3>. QED
      BY <3>2
  <2>6. F(c) \subseteq R[c]
    BY <1>5, <1>6, <2>5
  <2>. QED
    BY <2>4, <2>6
<1>8. R = [c \in D |-> R[c]]
  BY DEF R
<1>9. TreeIs(R, D, N, K)
  BY <1>7, <1>8, Zenon DEF TreeIs
<1>. QED
  BY <1>9

\* Where a block points to later ones, the function gives the blocks that are
\* reached from the block, each through one of them.
TreeOk(T, c, D, N, K) ==
  /\ T[c] \in SUBSET D /\ c \in T[c]
  /\ \A d \in T[c] : N[d] \subseteq T[c] /\ K[d] \subseteq T[c]
  /\ \A d \in T[c] : d = c \/ \E e \in T[c] : d \in N[e] \cup K[e]

LEMMA TreeReaches ==
  ASSUME NEW n \in Nat, NEW D \in SUBSET (1 .. n), NEW N, NEW K, Leafy(D, N, K),
         \A c \in D : \A k \in K[c] : c < k,
         NEW T, TreeIs(T, D, N, K)
  PROVE  \A c \in D : TreeOk(T, c, D, N, K)
<1>. DEFINE Bad == {m \in Nat : \E c \in D : m = n - c /\ ~TreeOk(T, c, D, N, K)}
<1>1. SUFFICES ASSUME Bad # {} PROVE FALSE
  <2>1. ASSUME NEW c \in D, ~TreeOk(T, c, D, N, K) PROVE n - c \in Bad
    BY <2>1
  <2>. QED
    BY <2>1
<1>2. PICK m \in Bad : \A y \in Bad : m <= y
  BY <1>1, LeastNatural
<1>3. PICK c \in D : m = n - c /\ ~TreeOk(T, c, D, N, K)
  BY <1>2
<1>4. ASSUME NEW k \in K[c] PROVE k \in D /\ TreeOk(T, k, D, N, K)
  <2>1. k \in D /\ c < k
    BY DEF Leafy
  <2>2. k \in 1 .. n /\ c \in 1 .. n
    BY <2>1
  <2>3. n - k \in Nat /\ ~(m <= n - k)
    BY <1>3, <2>1, <2>2
  <2>. QED
    BY <1>2, <2>1, <2>3
<1>5. T[c] = {c} \cup N[c] \cup UNION {T[k] : k \in K[c]}
  BY DEF TreeIs
<1>6. N[c] \in SUBSET D /\ K[c] \in SUBSET D /\ \A d \in N[c] : N[d] = {} /\ K[d] = {}
  BY DEF Leafy
<1>. HIDE DEF Bad
<1>7. T[c] \in SUBSET D /\ c \in T[c]
  BY ONLY <1>4, <1>5, <1>6, c \in D DEF TreeOk
<1>8. ASSUME NEW d \in T[c] PROVE N[d] \subseteq T[c] /\ K[d] \subseteq T[c]
  <2>1. CASE d = c
    BY ONLY <1>4, <1>5, <2>1 DEF TreeOk
  <2>2. CASE d \in N[c]
    BY ONLY <1>6, <2>2
  <2>3. ASSUME NEW k \in K[c], d \in T[k] PROVE N[d] \subseteq T[c] /\ K[d] \subseteq T[c]
    BY <1>4, <1>5, <2>3 DEF TreeOk
  <2>. QED
    BY <1>5, <2>1, <2>2, <2>3
<1>9. ASSUME NEW d \in T[c] PROVE d = c \/ \E e \in T[c] : d \in N[e] \cup K[e]
  <2>1. CASE d \in N[c]
    BY <1>7, <2>1
  <2>2. ASSUME NEW k \in K[c], d \in T[k] PROVE \E e \in T[c] : d \in N[e] \cup K[e]
    <3>1. CASE d = k
      BY <1>7, <3>1
    <3>2. CASE d # k
      <4>1. PICK e \in T[k] : d \in N[e] \cup K[e]
        BY <1>4, <2>2, <3>2 DEF TreeOk
      <4>2. e \in T[c]
        BY <1>5, <4>1
      <4>. QED
        BY <4>1, <4>2
    <3>. QED
      BY <3>1, <3>2
  <2>. QED
    BY <1>5, <2>1, <2>2
<1>. QED
  BY <1>3, <1>7, <1>8, <1>9 DEF TreeOk

\* Blocks are as Block makes them; neither field nor element is Null.
BlockOk(blk) ==
  /\ blk = [kind |-> blk.kind, names |-> blk.names, val |-> blk.val, kids |-> blk.kids,
            items |-> blk.items, cap |-> blk.cap]
  /\ blk.names \in Seq(Nat \ {0}) /\ blk.kids \in Seq(Nat \ {0}) /\ blk.items \in Nat

HeapOk(h, n) ==
  /\ n \in Nat /\ DOMAIN h \in SUBSET (1 .. n)
  /\ \A c \in DOMAIN h : BlockOk(h[c])

\* Texts and arrays of items point nowhere, and entities to later ones.
IsLeaf(blk) == blk.names = <<>> /\ blk.kids = <<>> /\ blk.items = Null

Sound(x, h) ==
  /\ x[1] \in {"name", "names", "items"} => IsLeaf(h[x[3]])
  /\ x[1] = "kids" => From(x) < x[3]

Leaves(h) == [c \in DOMAIN h |-> Range(h[c].names) \cup ({h[c].items} \ {Null})]
KidsOf(h) == [c \in DOMAIN h |-> Range(h[c].kids)]

\* The pointers out of a block point to its leaves and to its kids.
LEMMA PointsTo ==
  ASSUME NEW h, NEW x \in HeapLive(h)
  PROVE  /\ From(x) \in DOMAIN h
         /\ \/ x[3] \in Leaves(h)[From(x)]
            \/ x[3] \in KidsOf(h)[From(x)]
<1>1. /\ From(x) \in DOMAIN h /\ x \in BlockOut(From(x), h[From(x)]) /\ x[3] # Null
      /\ x[1] \in {"names", "kids", "items"}
  BY HeapLiveAt
<1>2. PICK c \in DOMAIN h : c = From(x)
  BY <1>1
<1>. DEFINE blk == h[c]
<1>3. Leaves(h)[c] = Range(blk.names) \cup ({blk.items} \ {Null}) /\ KidsOf(h)[c] = Range(blk.kids)
  BY DEF Leaves, KidsOf
<1>4. x \in BlockOut(c, blk)
  BY <1>1, <1>2
<1>. HIDE DEF blk
<1>5. x[3] \in Leaves(h)[c] \/ x[3] \in KidsOf(h)[c]
  <2>1. CASE x \in NamesOut(c, blk)
    BY <1>3, <2>1 DEF NamesOut, Range
  <2>2. CASE x \in KidsOut(c, blk)
    BY <1>3, <2>2 DEF KidsOut, Range
  <2>3. CASE x = <<"items", c, blk.items>>
    BY <1>1, <1>3, <2>3
  <2>. QED
    BY <1>4, <2>1, <2>2, <2>3 DEF BlockOut
<1>. QED
  BY <1>2, <1>5

LEMMA PointedTo ==
  ASSUME NEW h, NEW n, HeapOk(h, n), NEW c \in DOMAIN h
  PROVE  /\ \A d \in Leaves(h)[c] : \E x \in HeapLive(h) :
              From(x) = c /\ x[3] = d /\ x[1] \in {"names", "items"}
         /\ \A d \in KidsOf(h)[c] : \E x \in HeapLive(h) : From(x) = c /\ x[3] = d /\ x[1] = "kids"
<1>. DEFINE blk == h[c]
<1>1. /\ Leaves(h)[c] = Range(blk.names) \cup ({blk.items} \ {Null}) /\ KidsOf(h)[c] = Range(blk.kids)
  BY DEF Leaves, KidsOf
<1>2. blk.names \in Seq(Nat \ {0}) /\ blk.kids \in Seq(Nat \ {0})
  BY DEF HeapOk, BlockOk
<1>. HIDE DEF blk
<1>3. ASSUME NEW d \in Range(blk.names)
      PROVE  \E x \in BlockOut(c, blk) : From(x) = c /\ x[3] = d /\ x[1] = "names" /\ x[3] # Null
  <2>1. PICK i \in DOMAIN blk.names : d = blk.names[i]
    BY DEF Range
  <2>2. d # Null
    BY <1>2, <2>1 DEF Null
  <2>. DEFINE x == <<"names", <<c, i>>, blk.names[i]>>
  <2>3. x \in BlockOut(c, blk)
    BY <2>1 DEF BlockOut, NamesOut
  <2>4. From(x) = c /\ x[3] = d /\ x[1] = "names"
    BY <2>1 DEF From
  <2>. QED
    BY <2>2, <2>3, <2>4
<1>4. ASSUME NEW d \in Range(blk.kids)
      PROVE  \E x \in BlockOut(c, blk) : From(x) = c /\ x[3] = d /\ x[1] = "kids" /\ x[3] # Null
  <2>1. PICK i \in DOMAIN blk.kids : d = blk.kids[i]
    BY DEF Range
  <2>2. d # Null
    BY <1>2, <2>1 DEF Null
  <2>. DEFINE x == <<"kids", <<c, i>>, blk.kids[i]>>
  <2>3. x \in BlockOut(c, blk)
    BY <2>1 DEF BlockOut, KidsOut
  <2>4. From(x) = c /\ x[3] = d /\ x[1] = "kids"
    BY <2>1 DEF From
  <2>. QED
    BY <2>2, <2>3, <2>4
<1>5. ASSUME NEW d \in {blk.items} \ {Null}
      PROVE  \E x \in BlockOut(c, blk) : From(x) = c /\ x[3] = d /\ x[1] = "items" /\ x[3] # Null
  <2>. DEFINE x == <<"items", c, blk.items>>
  <2>1. x \in BlockOut(c, blk)
    BY DEF BlockOut
  <2>2. From(x) = c /\ x[3] = d /\ x[1] = "items" /\ x[3] # Null
    BY DEF From
  <2>. QED
    BY <2>1, <2>2
<1>6. \A x \in BlockOut(c, blk) : x[3] # Null => x \in HeapLive(h)
  BY HeapLiveIs DEF blk
<1>. QED
  BY <1>1, <1>3, <1>4, <1>5, <1>6

\* The pointers of the heap point to blocks.
HeapSound(h, n) ==
  /\ HeapOk(h, n)
  /\ \A x \in HeapLive(h) : x[3] \in DOMAIN h /\ Sound(x, h)

LEMMA HeapLeafy ==
  ASSUME NEW h, NEW n, HeapSound(h, n)
  PROVE  /\ Leafy(DOMAIN h, Leaves(h), KidsOf(h))
         /\ \A c \in DOMAIN h : \A k \in KidsOf(h)[c] : c < k
<1>. DEFINE D == DOMAIN h
            N == Leaves(h)
            K == KidsOf(h)
<1>1. ASSUME NEW c \in D, NEW d \in N[c] PROVE d \in D /\ N[d] = {} /\ K[d] = {}
  <2>1. PICK x \in HeapLive(h) : From(x) = c /\ x[3] = d /\ x[1] \in {"names", "items"}
    BY PointedTo DEF HeapSound
  <2>2. d \in D /\ IsLeaf(h[d])
    BY <2>1 DEF HeapSound, Sound
  <2>3. h[d].names = <<>> /\ h[d].kids = <<>> /\ h[d].items = Null
    BY <2>2 DEF IsLeaf
  <2>4. Range(h[d].names) = {} /\ Range(h[d].kids) = {} /\ {h[d].items} \ {Null} = {}
    BY ONLY <2>3 DEF Range
  <2>. QED
    BY <2>2, <2>4 DEF Leaves, KidsOf
<1>2. ASSUME NEW c \in D, NEW k \in K[c] PROVE k \in D /\ c < k
  <2>1. PICK x \in HeapLive(h) : From(x) = c /\ x[3] = k /\ x[1] = "kids"
    BY PointedTo DEF HeapSound
  <2>. QED
    BY <2>1 DEF HeapSound, Sound
<1>. QED
  BY <1>1, <1>2, Zenon DEF Leafy

LEMMA TreeOfHeap ==
  ASSUME NEW h, NEW n, HeapSound(h, n), NEW e \in DOMAIN h
  PROVE  \E T : Tree(h, e) = T[e] /\ TreeOk(T, e, DOMAIN h, Leaves(h), KidsOf(h))
<1>. DEFINE D == DOMAIN h
            N == Leaves(h)
            K == KidsOf(h)
            Is(T) == T = [c \in D |-> {c} \cup Range(h[c].names) \cup ({h[c].items} \ {Null})
                                        \cup UNION {T[k] : k \in Range(h[c].kids)}]
            T0 == CHOOSE T : Is(T)
<1>1. e # Null
  BY DEF HeapSound, HeapOk, Null
<1>2. Tree(h, e) = T0[e]
  BY <1>1, Zenon DEF Tree
<1>3. \A c \in D : N[c] = Range(h[c].names) \cup ({h[c].items} \ {Null}) /\ K[c] = Range(h[c].kids)
  BY DEF Leaves, KidsOf
<1>. HIDE DEF D, N, K
<1>4. ASSUME NEW T PROVE Is(T) <=> TreeIs(T, D, N, K)
  <2>1. ASSUME NEW c \in D
        PROVE  {c} \cup Range(h[c].names) \cup ({h[c].items} \ {Null}) \cup UNION {T[k] : k \in Range(h[c].kids)}
               = {c} \cup N[c] \cup UNION {T[k] : k \in K[c]}
    <3>1. N[c] = Range(h[c].names) \cup ({h[c].items} \ {Null}) /\ K[c] = Range(h[c].kids)
      BY <1>3
    <3>2. UNION {T[k] : k \in Range(h[c].kids)} = UNION {T[k] : k \in K[c]}
      BY <3>1
    <3>. QED
      BY ONLY <3>1, <3>2
  <2>2. [c \in D |-> {c} \cup Range(h[c].names) \cup ({h[c].items} \ {Null})
                                        \cup UNION {T[k] : k \in Range(h[c].kids)}]
        = [c \in D |-> {c} \cup N[c] \cup UNION {T[k] : k \in K[c]}]
    BY ONLY <2>1
  <2>. QED
    BY ONLY <2>2, Zenon DEF TreeIs
<1>. HIDE DEF Is
<1>5. Leafy(D, N, K) /\ \A c \in D : \A k \in K[c] : c < k
  BY HeapLeafy DEF D, N, K
<1>6. \E T : Is(T)
  BY <1>4, <1>5, TreeExists
<1>7. TreeIs(T0, D, N, K)
  BY <1>4, <1>6, Zenon
<1>. HIDE DEF T0
<1>8. n \in Nat /\ D \in SUBSET (1 .. n)
  BY DEF HeapSound, HeapOk, D
<1>9. \A c \in D : TreeOk(T0, c, D, N, K)
  BY ONLY <1>5, <1>7, <1>8, TreeReaches
<1>. QED
  BY <1>2, <1>9 DEF D, N, K

\* What deallocate(e) frees is all that is reached from a pointer to e.
LEMMA TreeReached ==
  ASSUME NEW h, NEW n, HeapSound(h, n), NEW x, x[3] \in DOMAIN h, x \notin HeapLive(h)
  PROVE  Reached(Tree(h, x[3]), OutOf(h, Tree(h, x[3])), x)
<1>. DEFINE e == x[3]
            D == DOMAIN h
            N == Leaves(h)
            K == KidsOf(h)
            S == Tree(h, e)
<1>1. /\ S \in SUBSET D /\ e \in S
      /\ \A d \in S : N[d] \subseteq S /\ K[d] \subseteq S
      /\ \A d \in S : d = e \/ \E c \in S : d \in N[c] \cup K[c]
  <2>1. PICK T : S = T[e] /\ TreeOk(T, e, D, N, K)
    BY TreeOfHeap
  <2>. HIDE DEF e, D, N, K, S
  <2>. QED
    BY <2>1, Zenon DEF TreeOk
<1>. HIDE DEF S
<1>2. ASSUME NEW y \in OutOf(h, S) PROVE y[3] \in S
  <2>1. y \in HeapLive(h) /\ From(y) \in S
    BY DEF OutOf
  <2>. QED
    BY <1>1, <2>1, PointsTo
<1>3. ASSUME NEW d \in S PROVE d = e \/ \E y \in OutOf(h, S) : y[3] = d
  <2>1. SUFFICES ASSUME NEW c \in S, d \in N[c] \cup K[c] PROVE \E y \in OutOf(h, S) : y[3] = d
    BY <1>1
  <2>2. c \in D
    BY <1>1
  <2>3. PICK y \in HeapLive(h) : From(y) = c /\ y[3] = d
    BY <2>1, <2>2, PointedTo DEF HeapSound
  <2>. QED
    BY <2>1, <2>3 DEF OutOf
<1>4. x \notin OutOf(h, S)
  BY DEF OutOf
<1>. QED
  BY <1>1, <1>2, <1>3, <1>4 DEF Reached, S

(***************************************************************************)
(* Ownership: of the pointers L, each block but the superseded ones, which *)
(* point nowhere, has one.                                                 *)
(***************************************************************************)
Ownership(L, h, sup) ==
  /\ sup \subseteq DOMAIN h
  /\ Owned(L, DOMAIN h \ sup)
  /\ \A x \in L : Sound(x, h)
  /\ \A c \in sup : IsLeaf(h[c])

LEMMA OwnMore ==
  ASSUME NEW L, NEW h, NEW sup, Ownership(L, h, sup), NEW x, x[3] \notin DOMAIN h,
         NEW blk, Sound(x, With(h, x[3], blk))
  PROVE  Ownership(L \cup {x}, With(h, x[3], blk), sup)
<1>. DEFINE c == x[3]
            g == With(h, c, blk)
<1>1. DOMAIN g = DOMAIN h \cup {c} /\ \A d \in DOMAIN h : d # c => g[d] = h[d]
  BY DEF With
<1>2. c \notin DOMAIN h /\ Sound(x, g)
  OBVIOUS
<1>3. c = x[3] /\ g = With(h, x[3], blk)
  OBVIOUS
<1>. HIDE DEF c, g
<1>4. /\ Owned(L, DOMAIN h \ sup) /\ sup \subseteq DOMAIN h
      /\ \A y \in L : Sound(y, h)
      /\ \A d \in sup : IsLeaf(h[d])
  BY DEF Ownership
<1>5. (DOMAIN h \ sup) \cup {c} = DOMAIN g \ sup
  BY <1>1, <1>2, <1>4
<1>6. c \notin DOMAIN h \ sup
  BY <1>2
<1>7. Owned(L \cup {x}, DOMAIN g \ sup)
  BY ONLY <1>3, <1>4, <1>5, <1>6, OwnedMore
<1>8. ASSUME NEW y \in L PROVE Sound(y, g)
  <2>1. y[3] \in DOMAIN h
    BY <1>4 DEF Owned
  <2>2. g[y[3]] = h[y[3]]
    BY <1>1, <1>2, <2>1
  <2>. QED
    BY <1>4, <2>2 DEF Sound
<1>9. ASSUME NEW d \in sup PROVE IsLeaf(g[d])
  BY <1>1, <1>2, <1>4
<1>. QED
  BY <1>1, <1>2, <1>3, <1>4, <1>7, <1>8, <1>9 DEF Ownership

LEMMA OwnMoved ==
  ASSUME NEW L, NEW h, NEW sup, Ownership(L, h, sup), NEW x \in L, NEW y, y[3] = x[3], Sound(y, h)
  PROVE  Ownership((L \ {x}) \cup {y}, h, sup)
<1>1. Owned((L \ {x}) \cup {y}, DOMAIN h \ sup)
  BY OwnedMoved DEF Ownership
<1>. QED
  BY <1>1 DEF Ownership

LEMMA OwnFewer ==
  ASSUME NEW L, NEW h, NEW sup, Ownership(L, h, sup), NEW x \in L, IsLeaf(h[x[3]])
  PROVE  Ownership(L \ {x}, h, sup \cup {x[3]}) /\ x[3] \notin sup /\ x[3] \in DOMAIN h
<1>1. Owned(L \ {x}, (DOMAIN h \ sup) \ {x[3]})
  BY OwnedFewer DEF Ownership
<1>2. x[3] \in DOMAIN h \ sup
  BY DEF Ownership, Owned
<1>3. (DOMAIN h \ sup) \ {x[3]} = DOMAIN h \ (sup \cup {x[3]})
  OBVIOUS
<1>. QED
  BY <1>1, <1>2, <1>3 DEF Ownership

\* A block that has no pointer is freed.
LEMMA OwnDrop ==
  ASSUME NEW L, NEW h, NEW sup, NEW c, Ownership(L, h, sup \cup {c}), c \notin sup
  PROVE  Ownership(L, Without(h, {c}), sup)
<1>. DEFINE g == Without(h, {c})
<1>1. DOMAIN g = DOMAIN h \ {c} /\ \A d \in DOMAIN h \ {c} : g[d] = h[d]
  BY WithoutIs
<1>. HIDE DEF g
<1>2. DOMAIN h \ (sup \cup {c}) = DOMAIN g \ sup /\ sup \subseteq DOMAIN g
  BY <1>1 DEF Ownership
<1>3. Owned(L, DOMAIN g \ sup) /\ \A y \in L : Sound(y, h)
  BY <1>2 DEF Ownership
<1>4. ASSUME NEW y \in L PROVE Sound(y, g)
  <2>1. y[3] \in DOMAIN g
    BY <1>3 DEF Owned
  <2>2. g[y[3]] = h[y[3]]
    BY <1>1, <2>1
  <2>. QED
    BY <1>3, <2>2 DEF Sound
<1>5. ASSUME NEW d \in sup PROVE IsLeaf(g[d])
  BY <1>1 DEF Ownership
<1>. QED
  BY <1>2, <1>3, <1>4, <1>5 DEF Ownership, g

\* A block to which no string is meant to be gets new contents.
LEMMA OwnChanged ==
  ASSUME NEW L, NEW h, NEW sup, Ownership(L, h, sup), NEW c \in DOMAIN h \ sup, NEW blk,
         \A x \in L : x[3] = c => x[1] \notin {"name", "names", "items"}
  PROVE  Ownership(L, With(h, c, blk), sup)
<1>. DEFINE g == With(h, c, blk)
<1>1. DOMAIN g = DOMAIN h /\ \A d \in DOMAIN h : d # c => g[d] = h[d]
  BY DEF With
<1>. HIDE DEF g
<1>2. Owned(L, DOMAIN g \ sup) /\ \A y \in L : Sound(y, h)
  BY <1>1 DEF Ownership
<1>3. ASSUME NEW y \in L PROVE Sound(y, g)
  <2>1. y[3] \in DOMAIN h
    BY <1>1, <1>2 DEF Owned
  <2>2. y[3] # c => g[y[3]] = h[y[3]]
    BY <1>1, <2>1
  <2>. QED
    BY <1>2, <2>2 DEF Sound
<1>4. ASSUME NEW d \in sup PROVE IsLeaf(g[d])
  BY <1>1 DEF Ownership
<1>. QED
  BY <1>1, <1>2, <1>3, <1>4 DEF Ownership, g

\* What is reached from x is freed.
LEMMA OwnFreed ==
  ASSUME NEW L, NEW h, NEW sup, NEW n, HeapOk(h, n), Ownership(L, h, sup), HeapLive(h) \subseteq L,
         NEW x \in L, x \notin HeapLive(h)
  PROVE  LET T == Tree(h, x[3])
         IN  Ownership(L \ (OutOf(h, T) \cup {x}), Without(h, T), sup)
<1>. DEFINE T == Tree(h, x[3])
            O == OutOf(h, T)
            g == Without(h, T)
<1>1. sup \subseteq DOMAIN h /\ Owned(L, DOMAIN h \ sup) /\ \A y \in L : Sound(y, h)
  BY DEF Ownership
<1>2. \A y \in L : y[3] \in DOMAIN h \ sup
  BY <1>1 DEF Owned
<1>3. HeapSound(h, n)
  BY <1>1, <1>2 DEF HeapSound
<1>4. Reached(T, O, x)
  BY <1>2, <1>3, TreeReached
<1>5. O \in SUBSET L
  BY DEF OutOf
<1>6. DOMAIN g = DOMAIN h \ T /\ \A d \in DOMAIN h \ T : g[d] = h[d]
  BY WithoutIs
<1>. HIDE DEF T, O, g
<1>7. Owned(L \ (O \cup {x}), (DOMAIN h \ sup) \ T)
  BY ONLY <1>1, <1>4, <1>5, x \in L, OwnedFreed
<1>8. \A c \in T : c \in DOMAIN h \ sup
  BY <1>2, <1>4, <1>5 DEF Reached
<1>9. (DOMAIN h \ sup) \ T = DOMAIN g \ sup /\ sup \subseteq DOMAIN g
  BY <1>1, <1>6, <1>8
<1>10. ASSUME NEW y \in L \ (O \cup {x}) PROVE Sound(y, g)
  <2>1. y[3] \in DOMAIN g /\ y \in L
    BY <1>7, <1>9 DEF Owned
  <2>2. g[y[3]] = h[y[3]]
    BY <1>6, <2>1
  <2>. QED
    BY <1>1, <2>1, <2>2 DEF Sound
<1>11. Ownership(L \ (O \cup {x}), g, sup)
  <2>1. ASSUME NEW d \in sup PROVE IsLeaf(g[d])
    BY <1>6, <1>9 DEF Ownership
  <2>. QED
    BY <1>7, <1>9, <1>10, <2>1 DEF Ownership
<1>. QED
  BY <1>11 DEF T, O, g

LEMMA HeapOkWith ==
  ASSUME NEW h, NEW n, HeapOk(h, n), NEW m \in Nat, n <= m, NEW c \in 1 .. m, NEW blk, BlockOk(blk)
  PROVE  HeapOk(With(h, c, blk), m)
<1>. DEFINE g == With(h, c, blk)
<1>1. /\ DOMAIN g = DOMAIN h \cup {c} /\ g[c] = blk /\ \A d \in DOMAIN h : d # c => g[d] = h[d]
  BY DEF With
<1>. HIDE DEF g
<1>2. n \in Nat /\ DOMAIN h \in SUBSET (1 .. n) /\ \A d \in DOMAIN h : BlockOk(h[d])
  BY DEF HeapOk
<1>3. DOMAIN g \in SUBSET (1 .. m)
  BY <1>1, <1>2
<1>4. ASSUME NEW d \in DOMAIN g PROVE BlockOk(g[d])
  BY <1>1, <1>2
<1>. QED
  BY <1>3, <1>4 DEF HeapOk, g

LEMMA HeapOkWithout ==
  ASSUME NEW h, NEW n, HeapOk(h, n), NEW m \in Nat, n <= m, NEW T
  PROVE  HeapOk(Without(h, T), m) /\ HeapOk(h, m)
<1>. DEFINE g == Without(h, T)
<1>1. DOMAIN g = DOMAIN h \ T /\ \A d \in DOMAIN h \ T : g[d] = h[d]
  BY WithoutIs
<1>. HIDE DEF g
<1>2. n \in Nat /\ DOMAIN h \in SUBSET (1 .. n) /\ \A d \in DOMAIN h : BlockOk(h[d])
  BY DEF HeapOk
<1>3. DOMAIN g \in SUBSET (1 .. m) /\ DOMAIN h \in SUBSET (1 .. m)
  BY <1>1, <1>2
<1>4. ASSUME NEW d \in DOMAIN g PROVE BlockOk(g[d])
  BY <1>1, <1>2
<1>. QED
  BY <1>2, <1>3, <1>4 DEF HeapOk, g

LEMMA NewBlock ==
  ASSUME NEW kind, NEW names \in Seq(Nat \ {0}), NEW val
  PROVE  /\ BlockOk(Block(kind, names, val))
         /\ Block(kind, names, val).names = names
         /\ Block(kind, names, val).kids = <<>>
         /\ Block(kind, names, val).items = Null
         /\ names = <<>> => IsLeaf(Block(kind, names, val))
BY DEF BlockOk, Block, IsLeaf, Null

LEMMA LeafBlock ==
  ASSUME NEW kind, NEW val
  PROVE  BlockOk(Block(kind, <<>>, val)) /\ IsLeaf(Block(kind, <<>>, val))
<1>1. <<>> \in Seq(Nat \ {0})
  OBVIOUS
<1>. QED
  BY <1>1, NewBlock

\* A leaf points nowhere.
LEMMA LeafOut ==
  ASSUME NEW c, NEW blk, IsLeaf(blk)
  PROVE  NonNull(BlockOut(c, blk)) = {}
<1>1. NamesOut(c, blk) = {} /\ KidsOut(c, blk) = {}
  BY DEF IsLeaf, NamesOut, KidsOut
<1>. QED
  BY <1>1 DEF IsLeaf, BlockOut, NonNull

(***************************************************************************)
(* The invariant of the parser.                                            *)
(***************************************************************************)
\* A call is active while there is a frame; its entity is younger than those of
\* the calls above and older than what a call below returned; and a name waits
\* only for its value.
StackInv(st, p, r) ==
  /\ st \in Seq(Frames) /\ r \in Nat
  /\ p \in {"root", "item", "colon", "value", "returned", "after", "parsed", "done"}
  /\ p \in {"root", "parsed", "done"} <=> st = <<>>
  /\ p \in {"item", "after"} => Last(st).name = Null
  /\ p \in {"root", "done"} => r = Null
  /\ p = "returned" /\ r # Null => Last(st).ent < r
  /\ \A i, j \in 1 .. Len(st) : i < j => st[i].ent < st[j].ent

ParserInv(st, h, n, r, sup, p) ==
  /\ HeapOk(h, n)
  /\ StackInv(st, p, r)
  /\ Ownership(Live(st, h, p, r), h, sup)

LEMMA RetLiveIs ==
  ASSUME NEW p, NEW r
  PROVE  /\ p \notin {"returned", "parsed"} \/ r = Null => RetLive(p, r) = {}
         /\ p \in {"returned", "parsed"} /\ r # Null => RetLive(p, r) = {<<"ret", 0, r>>}
BY DEF RetLive, RetOut, NonNull

\* Where the pointers are.
LEMMA LiveAt ==
  ASSUME NEW st, NEW h, NEW p, NEW r, NEW x \in Live(st, h, p, r)
  PROVE  /\ x[3] # Null
         /\ x \in StackLive(st) <=> x[1] \in {"frame", "name"}
         /\ x \in RetLive(p, r) <=> x[1] = "ret"
         /\ x \in HeapLive(h) <=> x[1] \in {"names", "kids", "items"}
         /\ x[1] \in {"frame", "name", "ret", "names", "kids", "items"}
<1>1. \A y \in StackLive(st) : y[1] \in {"frame", "name"} /\ y[3] # Null
  BY StackLiveAt
<1>2. \A y \in RetLive(p, r) : y[1] = "ret" /\ y[3] # Null
  BY DEF RetLive, RetOut, NonNull
<1>3. \A y \in HeapLive(h) : y[1] \in {"names", "kids", "items"} /\ y[3] # Null
  BY HeapLiveAt
<1>4. x \in StackLive(st) \/ x \in RetLive(p, r) \/ x \in HeapLive(h)
  BY DEF Live
<1>. QED
  BY <1>1, <1>2, <1>3, <1>4

\* The entity of a call is a block, and the pointer of its frame is the only one.
LEMMA FrameOwned ==
  ASSUME NEW st, NEW h, NEW n, NEW r, NEW sup, NEW p, ParserInv(st, h, n, r, sup, p), NEW i \in 1 .. Len(st)
  PROVE  /\ <<"frame", i, st[i].ent>> \in Live(st, h, p, r)
         /\ st[i].ent \in DOMAIN h /\ st[i].ent \in 1 .. n
<1>1. st \in Seq(Frames) /\ i \in DOMAIN st /\ st[i] \in Frames
  BY DEF ParserInv, StackInv
<1>2. st[i].ent # Null
  BY <1>1 DEF Frames, Null
<1>. DEFINE x == <<"frame", i, st[i].ent>>
<1>3. x \in FrameOut(i, st[i]) /\ x[3] # Null
  BY <1>2 DEF FrameOut
<1>4. x \in StackLive(st)
  BY <1>1, <1>3, StackLiveIs
<1>5. x \in Live(st, h, p, r)
  BY <1>4 DEF Live
<1>6. x[3] \in DOMAIN h
  BY <1>5 DEF ParserInv, Ownership, Owned
<1>. QED
  BY <1>5, <1>6 DEF ParserInv, HeapOk

\* parse_json_object and parse_json_array.
LEMMA CallKeeps ==
  ASSUME NEW st, NEW h, NEW n, NEW r, NEW sup, NEW p, ParserInv(st, h, n, r, sup, p),
         p \in {"root", "item", "value"}, NEW kind \in {"object", "array"}
  PROVE  ParserInv(Append(st, Frame(kind, n + 1)), With(h, n + 1, Block(kind, <<>>, Null)), n + 1, r, sup, "item")
<1>. DEFINE f == Frame(kind, n + 1)
            t == Append(st, f)
            k == Len(st) + 1
            blk == Block(kind, <<>>, Null)
            g == With(h, n + 1, blk)
            x == <<"frame", k, n + 1>>
            L == Live(st, h, p, r)
<1>1. /\ HeapOk(h, n) /\ n \in Nat /\ DOMAIN h \in SUBSET (1 .. n) /\ n + 1 \notin DOMAIN h
      /\ Ownership(L, h, sup) /\ StackInv(st, p, r)
  BY DEF ParserInv, HeapOk
<1>2. f \in Frames /\ f.ent = n + 1 /\ f.name = Null /\ n + 1 # Null
  BY <1>1 DEF Frames, Frame, Null
<1>3. st \in Seq(Frames) /\ r \in Nat /\ k \in Nat \ {0}
  BY <1>1 DEF StackInv
<1>4. /\ t \in Seq(Frames) /\ t # <<>> /\ Len(t) = Len(st) + 1 /\ Last(t) = f
      /\ \A i \in 1 .. Len(st) : t[i] = st[i]
      /\ StackLive(t) = StackLive(st) \cup NonNull(FrameOut(k, f))
  BY <1>2, <1>3, StackLiveAppend
<1>5. NonNull(FrameOut(k, f)) = {x}
  BY <1>2 DEF NonNull, FrameOut
<1>6. BlockOk(blk) /\ IsLeaf(blk)
  BY LeafBlock
<1>. HIDE DEF f, t, blk, k
<1>7. HeapLive(g) = HeapLive(h)
  BY <1>1, <1>6, HeapLiveWith, LeafOut
<1>8. RetLive(p, r) = {} /\ RetLive("item", r) = {}
  BY RetLiveIs
<1>9. Live(t, g, "item", r) = L \cup {x}
  BY <1>4, <1>5, <1>7, <1>8 DEF Live
<1>10. HeapOk(g, n + 1)
  BY <1>1, <1>6, HeapOkWith
<1>. HIDE DEF L
<1>11. Sound(x, g) /\ x[3] = n + 1
  BY DEF Sound
<1>12. Ownership(L \cup {x}, g, sup)
  BY <1>1, <1>11, OwnMore
<1>13. StackInv(t, "item", r)
  <2>1. ASSUME NEW i \in 1 .. Len(st) PROVE st[i].ent < n + 1
    <3>1. st[i].ent \in 1 .. n
      BY FrameOwned
    <3>. QED
      BY <1>1, <3>1
  <2>2. t[Len(st) + 1].ent = n + 1
    BY <1>2, <1>3, <1>4 DEF Last
  <2>3. \A i, j \in 1 .. Len(st) : i < j => st[i].ent < st[j].ent
    BY <1>1 DEF StackInv
  <2>4. \A i, j \in 1 .. Len(t) : i < j => t[i].ent < t[j].ent
    <3>1. SUFFICES ASSUME NEW i \in 1 .. Len(t), NEW j \in 1 .. Len(t), i < j PROVE t[i].ent < t[j].ent
      OBVIOUS
    <3>2. i \in 1 .. Len(st) /\ (j \in 1 .. Len(st) \/ j = Len(st) + 1) /\ Len(st) \in Nat
      BY <1>3, <1>4, <3>1
    <3>. QED
      BY ONLY <1>4, <2>1, <2>2, <2>3, <3>1, <3>2
  <2>. QED
    BY <1>2, <1>3, <1>4, <2>4 DEF StackInv
<1>. QED
  BY <1>9, <1>10, <1>12, <1>13 DEF ParserInv, f, t, blk

\* The innermost call or parse_json_input returns nothing, and no frame goes.
LEMMA NothingKeeps ==
  ASSUME NEW st, NEW h, NEW n, NEW r, NEW sup, NEW p, ParserInv(st, h, n, r, sup, p),
         NEW m \in Nat, n <= m, NEW q,
         \/ p = "root" /\ q = "parsed"
         \/ p \in {"item", "value"} /\ q = "returned"
  PROVE  ParserInv(st, h, m, Null, sup, q)
<1>1. RetLive(p, r) = {} /\ RetLive(q, Null) = {}
  BY RetLiveIs
<1>2. Live(st, h, q, Null) = Live(st, h, p, r)
  BY <1>1 DEF Live
<1>3. HeapOk(h, m)
  BY HeapOkWithout DEF ParserInv
<1>4. StackInv(st, q, Null)
  BY DEF ParserInv, StackInv, Null
<1>. QED
  BY <1>2, <1>3, <1>4 DEF ParserInv

\* The call goes on.
LEMMA PcKeeps ==
  ASSUME NEW st, NEW h, NEW n, NEW r, NEW sup, NEW p, ParserInv(st, h, n, r, sup, p), NEW q,
         \/ p = "colon" /\ q = "value"
         \/ p = "after" /\ q = "item"
  PROVE  ParserInv(st, h, n, r, sup, q)
<1>1. RetLive(p, r) = {} /\ RetLive(q, r) = {}
  BY RetLiveIs
<1>2. Live(st, h, q, r) = Live(st, h, p, r)
  BY <1>1 DEF Live
<1>3. StackInv(st, q, r)
  BY DEF ParserInv, StackInv
<1>. QED
  BY <1>2, <1>3 DEF ParserInv

\* A literal: its entity is returned.
LEMMA LiteralKeeps ==
  ASSUME NEW st, NEW h, NEW n, NEW r, NEW sup, NEW p, ParserInv(st, h, n, r, sup, p),
         p \in {"item", "value"}, NEW kind, NEW val
  PROVE  ParserInv(st, With(h, n + 1, Block(kind, <<>>, val)), n + 1, n + 1, sup, "returned")
<1>. DEFINE blk == Block(kind, <<>>, val)
            g == With(h, n + 1, blk)
            x == <<"ret", 0, n + 1>>
            L == Live(st, h, p, r)
<1>1. /\ HeapOk(h, n) /\ n \in Nat /\ DOMAIN h \in SUBSET (1 .. n) /\ n + 1 \notin DOMAIN h
      /\ Ownership(L, h, sup) /\ StackInv(st, p, r)
  BY DEF ParserInv, HeapOk
<1>2. BlockOk(blk) /\ IsLeaf(blk)
  BY LeafBlock
<1>. HIDE DEF blk
<1>3. HeapLive(g) = HeapLive(h)
  <2>1. NonNull(BlockOut(n + 1, blk)) = {}
    BY <1>2, LeafOut
  <2>2. HeapLive(g) = HeapLive(h) \cup NonNull(BlockOut(n + 1, blk))
    BY <1>1, HeapLiveWith
  <2>. QED
    BY <2>1, <2>2
<1>4. n + 1 # Null
  BY <1>1 DEF Null
<1>5. RetLive(p, r) = {} /\ RetLive("returned", n + 1) = {x}
  BY <1>4, RetLiveIs
<1>6. Live(st, g, "returned", n + 1) = L \cup {x}
  BY <1>3, <1>5 DEF Live
<1>7. HeapOk(g, n + 1)
  BY <1>1, <1>2, HeapOkWith
<1>. HIDE DEF L
<1>8. Sound(x, g) /\ x[3] = n + 1
  BY DEF Sound
<1>9. Ownership(L \cup {x}, g, sup)
  BY <1>1, <1>8, OwnMore
<1>10. StackInv(st, "returned", n + 1)
  <2>1. st \in Seq(Frames) /\ st # <<>> /\ Len(st) \in 1 .. Len(st)
    BY <1>1, FrontIs DEF StackInv
  <2>2. Last(st).ent < n + 1
    <3>1. st[Len(st)].ent \in 1 .. n
      BY <2>1, FrameOwned
    <3>2. Last(st) = st[Len(st)]
      BY <2>1, FrontIs
    <3>. QED
      BY <1>1, <3>1, <3>2
  <2>. QED
    BY <1>1, <2>2 DEF StackInv
<1>. QED
  BY <1>6, <1>7, <1>9, <1>10 DEF ParserInv, blk

\* A string: its entity, which has the text, is returned.
LEMMA StringKeeps ==
  ASSUME NEW st, NEW h, NEW n, NEW r, NEW sup, NEW p, ParserInv(st, h, n, r, sup, p),
         p \in {"item", "value"}, NEW t
  PROVE  ParserInv(st, With(With(h, n + 1, Text(t)), n + 2, Block("string", <<n + 1>>, Null)),
                   n + 2, n + 2, sup, "returned")
<1>. DEFINE txt == Text(t)
            blk == Block("string", <<n + 1>>, Null)
            h1 == With(h, n + 1, txt)
            g == With(h1, n + 2, blk)
            x == <<"names", <<n + 2, 1>>, n + 1>>
            y == <<"ret", 0, n + 2>>
            L == Live(st, h, p, r)
<1>1. /\ HeapOk(h, n) /\ n \in Nat /\ DOMAIN h \in SUBSET (1 .. n) /\ n + 1 \notin DOMAIN h
      /\ n + 2 \notin DOMAIN h \cup {n + 1}
      /\ Ownership(L, h, sup) /\ StackInv(st, p, r)
  BY DEF ParserInv, HeapOk
<1>2. BlockOk(txt) /\ IsLeaf(txt)
  BY LeafBlock DEF Text
<1>3. BlockOk(blk) /\ blk.names = <<n + 1>> /\ blk.kids = <<>> /\ blk.items = Null
  <2>. DEFINE nm == <<n + 1>>
  <2>1. nm \in Seq(Nat \ {0})
    BY <1>1
  <2>. HIDE DEF nm
  <2>2. blk = Block("string", nm, Null)
    BY DEF nm
  <2>. HIDE DEF blk
  <2>3. BlockOk(blk) /\ blk.names = nm /\ blk.kids = <<>> /\ blk.items = Null
    BY ONLY <2>1, <2>2, NewBlock
  <2>. QED
    BY <2>3 DEF nm
<1>. HIDE DEF txt, blk
<1>4. DOMAIN h1 = DOMAIN h \cup {n + 1} /\ h1[n + 1] = txt
  BY DEF With
<1>5. HeapLive(h1) = HeapLive(h)
  <2>1. NonNull(BlockOut(n + 1, txt)) = {}
    BY <1>2, LeafOut
  <2>2. HeapLive(h1) = HeapLive(h) \cup NonNull(BlockOut(n + 1, txt))
    BY <1>1, HeapLiveWith
  <2>. QED
    BY <2>1, <2>2
<1>6. NonNull(BlockOut(n + 2, blk)) = {x}
  <2>1. NamesOut(n + 2, blk) = {x} /\ KidsOut(n + 2, blk) = {}
    BY <1>3 DEF NamesOut, KidsOut
  <2>2. x[3] # Null
    BY <1>1 DEF Null
  <2>. HIDE DEF x
  <2>. QED
    BY <1>3, <2>1, <2>2 DEF BlockOut, NonNull
<1>7. HeapLive(g) = HeapLive(h) \cup {x}
  <2>. HIDE DEF h1, x
  <2>1. HeapLive(g) = HeapLive(h1) \cup NonNull(BlockOut(n + 2, blk))
    BY <1>1, <1>4, HeapLiveWith
  <2>. QED
    BY <1>5, <1>6, <2>1
<1>8. RetLive(p, r) = {} /\ RetLive("returned", n + 2) = {y}
  <2>1. n + 2 # Null
    BY <1>1 DEF Null
  <2>. QED
    BY <2>1, RetLiveIs
<1>9. Live(st, g, "returned", n + 2) = (L \cup {x}) \cup {y}
  <2>. HIDE DEF g, x, y
  <2>. QED
    BY <1>7, <1>8 DEF Live
<1>10. HeapOk(h1, n + 1)
  BY <1>1, <1>2, HeapOkWith
<1>11. HeapOk(g, n + 2)
  <2>1. n + 1 \in Nat /\ n + 2 \in Nat /\ n + 1 <= n + 2 /\ n + 2 \in 1 .. n + 2
    BY <1>1
  <2>. HIDE DEF h1
  <2>. QED
    BY <1>3, <1>10, <2>1, HeapOkWith
<1>. HIDE DEF L
<1>12. Ownership(L \cup {x}, h1, sup)
  <2>1. x[3] = n + 1 /\ x[1] = "names"
    OBVIOUS
  <2>2. Sound(x, h1)
    BY <1>2, <1>4, <2>1 DEF Sound
  <2>. HIDE DEF x
  <2>. QED
    BY <1>1, <2>1, <2>2, OwnMore
<1>13. Ownership((L \cup {x}) \cup {y}, g, sup)
  <2>1. Sound(y, g) /\ y[3] = n + 2
    BY DEF Sound
  <2>. HIDE DEF x, y, h1
  <2>. QED
    BY <1>1, <1>4, <1>12, <2>1, OwnMore
<1>14. StackInv(st, "returned", n + 2)
  <2>1. st \in Seq(Frames) /\ st # <<>> /\ Len(st) \in 1 .. Len(st)
    BY <1>1, FrontIs DEF StackInv
  <2>2. Last(st).ent < n + 2
    <3>1. st[Len(st)].ent \in 1 .. n
      BY <2>1, FrameOwned
    <3>2. Last(st) = st[Len(st)]
      BY <2>1, FrontIs
    <3>. QED
      BY <1>1, <3>1, <3>2
  <2>. QED
    BY <1>1, <2>2 DEF StackInv
<1>. HIDE DEF g, x, y
<1>. QED
  BY <1>9, <1>11, <1>13, <1>14 DEF ParserInv, g, h1, txt, blk

\* The name of a field waits in the frame.
LEMMA FieldKeeps ==
  ASSUME NEW st, NEW h, NEW n, NEW r, NEW sup, NEW p, ParserInv(st, h, n, r, sup, p),
         p = "item", NEW t
  PROVE  ParserInv([st EXCEPT ![Len(st)].name = n + 1], With(h, n + 1, Text(t)), n + 1, r, sup, "colon")
<1>. DEFINE u == [st EXCEPT ![Len(st)].name = n + 1]
            txt == Text(t)
            g == With(h, n + 1, txt)
            x == <<"name", Len(st), n + 1>>
            L == Live(st, h, p, r)
<1>1. /\ HeapOk(h, n) /\ n \in Nat /\ DOMAIN h \in SUBSET (1 .. n) /\ n + 1 \notin DOMAIN h
      /\ Ownership(L, h, sup) /\ StackInv(st, p, r)
  BY DEF ParserInv, HeapOk
<1>2. BlockOk(txt) /\ IsLeaf(txt)
  BY LeafBlock DEF Text
<1>. HIDE DEF txt
<1>3. HeapLive(g) = HeapLive(h)
  <2>1. NonNull(BlockOut(n + 1, txt)) = {}
    BY <1>2, LeafOut
  <2>2. HeapLive(g) = HeapLive(h) \cup NonNull(BlockOut(n + 1, txt))
    BY <1>1, HeapLiveWith
  <2>. QED
    BY <2>1, <2>2
<1>4. st \in Seq(Frames) /\ st # <<>> /\ Last(st).name = Null /\ r \in Nat
  BY <1>1 DEF StackInv
<1>5. /\ u \in Seq(Frames) /\ u # <<>> /\ Len(u) = Len(st)
      /\ \A i \in 1 .. Len(st) : u[i].ent = st[i].ent
      /\ StackLive(u) = (StackLive(st) \ {<<"name", Len(st), Last(st).name>>})
                          \cup NonNull({<<"name", Len(st), n + 1>>})
  <2>1. n + 1 \in Nat
    BY <1>1
  <2>. QED
    BY <1>4, <2>1, StackLiveName
<1>. HIDE DEF u
<1>6. StackLive(u) = StackLive(st) \cup {x}
  <2>1. \A y \in StackLive(st) : y[3] # Null
    BY StackLiveAt
  <2>2. <<"name", Len(st), Last(st).name>> \notin StackLive(st)
    BY <1>4, <2>1
  <2>3. NonNull({x}) = {x}
    BY <1>1 DEF NonNull, Null
  <2>. QED
    BY <1>5, <2>2, <2>3
<1>7. RetLive(p, r) = {} /\ RetLive("colon", r) = {}
  BY RetLiveIs
<1>8. Live(u, g, "colon", r) = L \cup {x}
  BY <1>3, <1>6, <1>7 DEF Live
<1>9. HeapOk(g, n + 1)
  BY <1>1, <1>2, HeapOkWith
<1>. HIDE DEF L
<1>10. Ownership(L \cup {x}, g, sup)
  <2>1. x[3] = n + 1 /\ x[1] = "name" /\ g[n + 1] = txt
    BY DEF With
  <2>2. Sound(x, g)
    BY <1>2, <2>1 DEF Sound
  <2>. HIDE DEF x
  <2>. QED
    BY <1>1, <2>1, <2>2, OwnMore
<1>11. StackInv(u, "colon", r)
  BY <1>1, <1>4, <1>5 DEF StackInv
<1>. HIDE DEF x
<1>. QED
  BY <1>8, <1>9, <1>10, <1>11 DEF ParserInv, u, g, txt

\* What the calls above have is as it was when the innermost one returns.
LEMMA ReturnKeeps ==
  ASSUME NEW st, NEW p, NEW r, StackInv(st, p, r), st # <<>>, NEW v \in Nat,
         \A i \in 1 .. Len(st) : i < Len(st) => v = Null \/ st[i].ent < v
  PROVE  StackInv(Front(st), IF Len(st) = 1 THEN "parsed" ELSE "returned", v)
<1>. DEFINE n == Len(st)
            u == Front(st)
            q == IF n = 1 THEN "parsed" ELSE "returned"
<1>1. /\ n \in Nat \ {0} /\ u \in Seq(Frames) /\ Len(u) = n - 1 /\ \A i \in 1 .. n - 1 : u[i] = st[i]
  BY FrontIs DEF StackInv
<1>2. u = <<>> <=> n = 1
  BY <1>1
<1>3. q \in {"parsed", "returned"} /\ (q = "parsed" <=> n = 1)
  OBVIOUS
<1>4. u # <<>> => Last(u) = u[n - 1]
  BY <1>1 DEF Last
<1>5. u # <<>> /\ v # Null => Last(u).ent < v
  BY <1>1, <1>2, <1>4
<1>6. \A i, j \in 1 .. Len(u) : i < j => u[i].ent < u[j].ent
  BY <1>1, SMTT(30) DEF StackInv
<1>. HIDE DEF u, q, n
<1>7. StackInv(u, q, v)
  BY <1>1, <1>2, <1>3, <1>5, <1>6 DEF StackInv
<1>. QED
  BY <1>7 DEF u, q, n

\* The list ends: the call returns its entity.
LEMMA CloseKeeps ==
  ASSUME NEW st, NEW h, NEW n, NEW r, NEW sup, NEW p, ParserInv(st, h, n, r, sup, p),
         p \in {"item", "after"}
  PROVE  ParserInv(Front(st), h, n, Last(st).ent, sup, IF Len(st) = 1 THEN "parsed" ELSE "returned")
<1>. DEFINE k == Len(st)
            f == Last(st)
            q == IF k = 1 THEN "parsed" ELSE "returned"
            x == <<"frame", k, f.ent>>
            y == <<"ret", 0, f.ent>>
            L == Live(st, h, p, r)
<1>1. HeapOk(h, n) /\ Ownership(L, h, sup) /\ StackInv(st, p, r)
  BY DEF ParserInv
<1>2. st \in Seq(Frames) /\ st # <<>> /\ f.name = Null
  BY <1>1 DEF StackInv
<1>3. k \in Nat \ {0} /\ f = st[k] /\ f \in Frames
  BY <1>2, FrontIs
<1>4. x \in L
  BY <1>3, FrameOwned
<1>5. f.ent # Null /\ f.ent \in Nat
  BY <1>3 DEF Frames, Null
<1>6. StackLive(Front(st)) = StackLive(st) \ {x}
  <2>1. StackLive(Front(st)) = StackLive(st) \ FrameOut(k, f)
    BY <1>2, StackLiveFront
  <2>2. \A z \in StackLive(st) : z[3] # Null
    BY StackLiveAt
  <2>3. <<"name", k, f.name>> \notin StackLive(st)
    BY <1>2, <2>2
  <2>. QED
    BY <2>1, <2>3 DEF FrameOut
<1>7. q \in {"parsed", "returned"}
  OBVIOUS
<1>. HIDE DEF q
<1>8. RetLive(p, r) = {} /\ RetLive(q, f.ent) = {y}
  BY <1>5, <1>7, RetLiveIs
<1>9. x \notin HeapLive(h)
  BY HeapLiveAt
<1>10. Live(Front(st), h, q, f.ent) = (L \ {x}) \cup {y}
  <2>. HIDE DEF x, y
  <2>. QED
    BY <1>6, <1>8, <1>9 DEF Live
<1>11. Ownership((L \ {x}) \cup {y}, h, sup)
  <2>1. y[3] = x[3] /\ Sound(y, h)
    BY DEF Sound
  <2>. HIDE DEF x, y, L
  <2>. QED
    BY <1>1, <1>4, <2>1, OwnMoved
<1>12. StackInv(Front(st), q, f.ent)
  <2>1. \A i \in 1 .. Len(st) : i < Len(st) => st[i].ent < f.ent
    BY <1>1, <1>3 DEF StackInv
  <2>. QED
    BY <1>1, <1>2, <1>5, <2>1, ReturnKeeps DEF q
<1>. HIDE DEF x, y, L
<1>. QED
  BY <1>1, <1>10, <1>11, <1>12 DEF ParserInv, q

LEMMA WithoutTwice ==
  ASSUME NEW h, NEW S, NEW T
  PROVE  Without(Without(h, T), S) = Without(h, S \cup T)
<1>1. /\ DOMAIN Without(h, T) = DOMAIN h \ T
      /\ \A d \in DOMAIN h \ T : Without(h, T)[d] = h[d]
  BY WithoutIs
<1>2. (DOMAIN h \ T) \ S = DOMAIN h \ (S \cup T)
  OBVIOUS
<1>3. Without(Without(h, T), S) = [d \in (DOMAIN h \ T) \ S |-> Without(h, T)[d]]
  BY <1>1, Zenon DEF Without, Restrict
<1>4. [d \in (DOMAIN h \ T) \ S |-> Without(h, T)[d]] = [d \in DOMAIN h \ (S \cup T) |-> h[d]]
  BY <1>1, <1>2
<1>. QED
  BY <1>3, <1>4, Zenon DEF Without, Restrict

\* An error: the call frees the name that waits and its entity with all it has.
LEMMA AbandonKeeps ==
  ASSUME NEW st, NEW h, NEW n, NEW r, NEW sup, NEW p, ParserInv(st, h, n, r, sup, p),
         p \in {"item", "colon", "after"} \/ (p = "returned" /\ r = Null), NEW m \in Nat, n <= m
  PROVE  ParserInv(Front(st), Without(h, ({Last(st).name} \ {Null}) \cup Tree(h, Last(st).ent)), m, Null, sup,
                   IF Len(st) = 1 THEN "parsed" ELSE "returned")
<1>. DEFINE k == Len(st)
            f == Last(st)
            q == IF k = 1 THEN "parsed" ELSE "returned"
            x == <<"frame", k, f.ent>>
            y == <<"name", k, f.name>>
            T == Tree(h, f.ent)
            g == Without(h, ({f.name} \ {Null}) \cup T)
            L == Live(st, h, p, r)
<1>1. HeapOk(h, n) /\ Ownership(L, h, sup) /\ StackInv(st, p, r)
  BY DEF ParserInv
<1>2. st \in Seq(Frames) /\ st # <<>>
  BY <1>1 DEF StackInv
<1>3. k \in Nat \ {0} /\ f = st[k] /\ f \in Frames /\ k \in DOMAIN st
  BY <1>2, FrontIs
<1>4. x \in L
  BY <1>3, FrameOwned
<1>5. x[3] = f.ent /\ y[3] = f.name /\ x # y /\ x \notin HeapLive(h) /\ y \notin HeapLive(h)
  BY HeapLiveAt
<1>6. StackLive(Front(st)) = StackLive(st) \ {x, y}
  BY <1>2, StackLiveFront DEF FrameOut
<1>7. RetLive(p, r) = {} /\ RetLive(q, Null) = {}
  BY RetLiveIs
<1>. HIDE DEF q
<1>8. HeapLive(g) = HeapLive(h) \ OutOf(h, ({f.name} \ {Null}) \cup T)
  BY HeapLiveWithout
<1>9. HeapOk(g, m)
  BY <1>1, HeapOkWithout
<1>. HIDE DEF x, y, T
<1>10. HeapLive(h) \subseteq L /\ L = StackLive(st) \cup HeapLive(h)
  BY <1>7 DEF Live
<1>. HIDE DEF g, L
<1>11. Live(Front(st), g, q, Null) = L \ ({x, y} \cup OutOf(h, ({f.name} \ {Null}) \cup T))
  <2>1. \A z \in StackLive(st) : z \notin HeapLive(h)
    BY StackLiveAt, HeapLiveAt
  <2>2. OutOf(h, ({f.name} \ {Null}) \cup T) \subseteq HeapLive(h)
    BY DEF OutOf
  <2>. QED
    BY <1>5, <1>6, <1>7, <1>8, <1>10, <2>1, <2>2 DEF Live
<1>12. ASSUME f.name = Null PROVE Ownership(Live(Front(st), g, q, Null), g, sup)
  <2>1. ({f.name} \ {Null}) \cup T = T
    BY <1>12
  <2>2. Ownership(L \ (OutOf(h, T) \cup {x}), Without(h, T), sup)
    BY <1>1, <1>4, <1>5, <1>10, OwnFreed DEF T
  <2>3. y \notin L
    <3>1. \A z \in L : z[3] # Null
      BY LiveAt DEF L
    <3>. QED
      BY <1>5, <1>12, <3>1
  <2>. QED
    BY <1>11, <2>1, <2>2, <2>3 DEF g
<1>13. ASSUME f.name # Null PROVE Ownership(Live(Front(st), g, q, Null), g, sup)
  <2>1. y \in L
    <3>1. y \in FrameOut(k, f) /\ y[3] # Null
      BY <1>5, <1>13 DEF FrameOut, y
    <3>. QED
      BY <1>3, <1>10, <3>1, StackLiveIs
  <2>0. IsLeaf(h[f.name])
    <3>1. y[1] = "name"
      BY DEF y
    <3>. QED
      BY <1>1, <1>5, <2>1, <3>1 DEF Ownership, Sound
  <2>2. Ownership(L \ {y}, h, sup \cup {f.name}) /\ f.name \notin sup
    BY <1>1, <1>5, <2>0, <2>1, OwnFewer
  <2>3. x \in L \ {y} /\ HeapLive(h) \subseteq L \ {y}
    BY <1>4, <1>5, <1>10
  <2>4. Ownership((L \ {y}) \ (OutOf(h, T) \cup {x}), Without(h, T), sup \cup {f.name})
    BY <1>1, <1>5, <2>2, <2>3, OwnFreed DEF T
  <2>5. Ownership((L \ {y}) \ (OutOf(h, T) \cup {x}), Without(Without(h, T), {f.name}), sup)
    BY <2>2, <2>4, OwnDrop
  <2>6. g = Without(Without(h, T), {f.name})
    <3>1. ({f.name} \ {Null}) \cup T = {f.name} \cup T
      BY <1>13
    <3>. QED
      BY <3>1, WithoutTwice DEF g
  <2>7. OutOf(h, ({f.name} \ {Null}) \cup T) = OutOf(h, T)
    <3>2. NonNull(BlockOut(f.name, h[f.name])) = {}
      BY <2>0, LeafOut
    <3>3. \A z \in HeapLive(h) : From(z) # f.name
      <4>1. SUFFICES ASSUME NEW z \in HeapLive(h), From(z) = f.name PROVE FALSE
        OBVIOUS
      <4>2. z \in BlockOut(f.name, h[f.name]) /\ z[3] # Null
        BY <4>1, HeapLiveAt
      <4>. QED
        BY <3>2, <4>2 DEF NonNull
    <3>. QED
      BY <3>3 DEF OutOf
  <2>8. (L \ {y}) \ (OutOf(h, T) \cup {x}) = L \ ({x, y} \cup OutOf(h, T))
    OBVIOUS
  <2>. QED
    BY <1>11, <2>5, <2>6, <2>7, <2>8
<1>14. Ownership(Live(Front(st), g, q, Null), g, sup)
  BY <1>12, <1>13
<1>15. StackInv(Front(st), q, Null)
  BY <1>1, <1>2, ReturnKeeps DEF q, Null
<1>. QED
  BY <1>9, <1>14, <1>15 DEF ParserInv, g, q, T

PushedFacts(ent, nm, r, array, P) ==
  /\ BlockOk(P)
  /\ nm = Null => P.names = ent.names
  /\ nm # Null => P.names = Append(ent.names, nm)
  /\ P.kids = Append(ent.kids, r)
  /\ NeedsArray(ent) => P.items = array
  /\ ~NeedsArray(ent) => P.items = ent.items

LEMMA PushedIs ==
  ASSUME NEW ent, BlockOk(ent), NEW nm \in Nat, NEW r \in Nat \ {0}, NEW array \in Nat
  PROVE  PushedFacts(ent, nm, r, array, Pushed(ent, nm, r, array))
<1>. DEFINE P == Pushed(ent, nm, r, array)
<1>. DEFINE names == IF nm = Null THEN ent.names ELSE Append(ent.names, nm)
            kids == Append(ent.kids, r)
            items == IF NeedsArray(ent) THEN array ELSE ent.items
            cap == IF ent.items = Null THEN 2
                   ELSE IF NeedsArray(ent) THEN GrownCap(Len(ent.kids)) ELSE ent.cap
<1>1. /\ ent = [kind |-> ent.kind, names |-> ent.names, val |-> ent.val, kids |-> ent.kids,
                items |-> ent.items, cap |-> ent.cap]
      /\ ent.names \in Seq(Nat \ {0}) /\ ent.kids \in Seq(Nat \ {0}) /\ ent.items \in Nat
  BY DEF BlockOk
<1>2. names \in Seq(Nat \ {0}) /\ kids \in Seq(Nat \ {0}) /\ items \in Nat
  BY <1>1 DEF Null
<1>. HIDE DEF names, kids, items, cap
<1>3. P = [ent EXCEPT !.names = names, !.kids = kids, !.items = items, !.cap = cap]
  BY Zenon DEF Pushed, names, kids, items, cap
<1>4. P = [kind |-> ent.kind, names |-> names, val |-> ent.val, kids |-> kids, items |-> items, cap |-> cap]
  BY <1>1, <1>3
<1>. HIDE DEF P
<1>5. P.names = names /\ P.kids = kids /\ P.items = items /\ P.kind = ent.kind /\ P.val = ent.val /\ P.cap = cap
  BY <1>4
<1>6. BlockOk(P)
  BY <1>2, <1>4, <1>5 DEF BlockOk
<1>. QED
  BY <1>5, <1>6 DEF PushedFacts, P, names, kids, items

\* A sequence of pointers with one more.
LEMMA AppendIs ==
  ASSUME NEW q \in Seq(Nat \ {0}), NEW v \in Nat \ {0}
  PROVE  /\ Len(q) \in Nat /\ DOMAIN q = 1 .. Len(q) /\ DOMAIN Append(q, v) = (1 .. Len(q)) \cup {Len(q) + 1}
         /\ \A j \in 1 .. Len(q) : Append(q, v)[j] = q[j]
         /\ Append(q, v)[Len(q) + 1] = v
OBVIOUS

Appended(q, t, i, v) == q \in Seq(Nat \ {0}) /\ v \in Nat \ {0} /\ t = Append(q, v) /\ i = Len(q) + 1

NameAt(c, i, v) == <<"names", <<c, i>>, v>>
KidAt(c, i, v) == <<"kids", <<c, i>>, v>>

LEMMA NamesAppend ==
  ASSUME NEW c, NEW blk, NEW new, NEW i, NEW v, Appended(blk.names, new.names, i, v)
  PROVE  NamesOut(c, new) = NamesOut(c, blk) \cup {NameAt(c, i, v)}
<1>. DEFINE q == blk.names
            t == new.names
<1>0. q \in Seq(Nat \ {0}) /\ v \in Nat \ {0} /\ t = Append(q, v) /\ i = Len(q) + 1
  BY DEF Appended
<1>1. /\ DOMAIN q = 1 .. Len(q) /\ DOMAIN t = (1 .. Len(q)) \cup {i}
      /\ \A j \in 1 .. Len(q) : t[j] = q[j]
      /\ t[i] = v
  BY <1>0, AppendIs
<1>. HIDE DEF q, t
<1>2. {<<"names", <<c, j>>, t[j]>> : j \in DOMAIN t}
      = {<<"names", <<c, j>>, q[j]>> : j \in DOMAIN q} \cup {<<"names", <<c, i>>, v>>}
  BY ONLY <1>1
<1>. QED
  BY <1>2 DEF NamesOut, NameAt, q, t

LEMMA KidsAppend ==
  ASSUME NEW c, NEW blk, NEW new, NEW i, NEW v, Appended(blk.kids, new.kids, i, v)
  PROVE  KidsOut(c, new) = KidsOut(c, blk) \cup {KidAt(c, i, v)}
<1>. DEFINE q == blk.kids
            t == new.kids
<1>0. q \in Seq(Nat \ {0}) /\ v \in Nat \ {0} /\ t = Append(q, v) /\ i = Len(q) + 1
  BY DEF Appended
<1>1. /\ DOMAIN q = 1 .. Len(q) /\ DOMAIN t = (1 .. Len(q)) \cup {i}
      /\ \A j \in 1 .. Len(q) : t[j] = q[j]
      /\ t[i] = v
  BY <1>0, AppendIs
<1>. HIDE DEF q, t
<1>2. {<<"kids", <<c, j>>, t[j]>> : j \in DOMAIN t}
      = {<<"kids", <<c, j>>, q[j]>> : j \in DOMAIN q} \cup {<<"kids", <<c, i>>, v>>}
  BY ONLY <1>1
<1>. QED
  BY <1>2 DEF KidsOut, KidAt, q, t

\* The pointers out of an entity to which a field or an element is pushed.
PushedOutFacts(c, ent, nm, r, array, P, i, j) ==
  NonNull(BlockOut(c, P)) =
    (NonNull(BlockOut(c, ent)) \ (IF NeedsArray(ent) THEN {<<"items", c, ent.items>>} ELSE {}))
      \cup {KidAt(c, j, r)}
      \cup (IF nm = Null THEN {} ELSE {NameAt(c, i, nm)})
      \cup (IF NeedsArray(ent) THEN {<<"items", c, array>>} ELSE {})

LEMMA PushedOut ==
  ASSUME NEW c, NEW ent, BlockOk(ent), NEW nm \in Nat, NEW r \in Nat \ {0}, NEW array \in Nat \ {0},
         NEW P, PushedFacts(ent, nm, r, array, P),
         NEW i, i = Len(ent.names) + 1, NEW j, j = Len(ent.kids) + 1
  PROVE  PushedOutFacts(c, ent, nm, r, array, P, i, j)
<1>. DEFINE yr == KidAt(c, j, r)
            yn == NameAt(c, i, nm)
            xi == <<"items", c, ent.items>>
            yi == <<"items", c, array>>
            pi == <<"items", c, P.items>>
            Yn == IF nm = Null THEN {} ELSE {yn}
            NN == NamesOut(c, ent)
            KK == KidsOut(c, ent)
<1>1. /\ ent.names \in Seq(Nat \ {0}) /\ ent.kids \in Seq(Nat \ {0})
      /\ nm = Null => P.names = ent.names
      /\ nm # Null => P.names = Append(ent.names, nm)
      /\ P.kids = Append(ent.kids, r)
      /\ NeedsArray(ent) => P.items = array
      /\ ~NeedsArray(ent) => P.items = ent.items
  BY DEF PushedFacts, BlockOk
<1>2. NamesOut(c, P) = NN \cup Yn
  <2>1. CASE nm = Null
    BY <1>1, <2>1 DEF NamesOut
  <2>2. CASE nm # Null
    <3>1. Appended(ent.names, P.names, i, nm)
      BY <1>1, <2>2 DEF Appended, Null
    <3>2. NamesOut(c, P) = NN \cup {yn}
      BY ONLY <3>1, NamesAppend
    <3>. QED
      BY <2>2, <3>2
  <2>. QED
    BY <2>1, <2>2
<1>3. KidsOut(c, P) = KK \cup {yr}
  <2>1. Appended(ent.kids, P.kids, j, r)
    BY <1>1 DEF Appended
  <2>. QED
    BY ONLY <2>1, KidsAppend
<1>4. /\ \A x \in NN : x[1] = "names"
      /\ \A x \in KK : x[1] = "kids"
  BY DEF NamesOut, KidsOut
<1>5. yr[3] # Null /\ yi[3] # Null /\ \A x \in Yn : x[3] # Null
  BY DEF Null, NameAt, KidAt
<1>6. xi[1] = "items"
  OBVIOUS
<1>7. pi = IF NeedsArray(ent) THEN yi ELSE xi
  BY <1>1
<1>8. BlockOut(c, P) = NN \cup Yn \cup KK \cup {yr, pi} /\ BlockOut(c, ent) = NN \cup KK \cup {xi}
  BY <1>2, <1>3, Zenon DEF BlockOut
<1>. HIDE DEF NN, KK, Yn, xi, yi, pi, yr
<1>9. NonNull(NN \cup Yn \cup KK \cup {yr, pi})
        = (NonNull(NN \cup KK \cup {xi}) \ (IF NeedsArray(ent) THEN {xi} ELSE {})) \cup {yr} \cup Yn
            \cup (IF NeedsArray(ent) THEN {yi} ELSE {})
  <2>1. CASE NeedsArray(ent)
    BY <1>4, <1>5, <1>6, <1>7, <2>1 DEF NonNull
  <2>2. CASE ~NeedsArray(ent)
    BY <1>4, <1>5, <1>6, <1>7, <2>2 DEF NonNull
  <2>. QED
    BY <2>1, <2>2
<1>. QED
  BY <1>8, <1>9 DEF PushedOutFacts, xi, yi, yr, Yn

\* The entity is pushed: what holds its name and the entity itself is now the
\* list, and a new array of items supersedes the present one.
LEMMA TakeKeeps ==
  ASSUME NEW st, NEW h, NEW n, NEW r, NEW sup, NEW p, ParserInv(st, h, n, r, sup, p),
         p = "returned", r # Null,
         NEW ent, ent = h[Last(st).ent], NEW g, NEW m, NEW sup2,
         LET pushed == With(h, Last(st).ent, Pushed(ent, Last(st).name, r, n + 1))
         IN  g = IF NeedsArray(ent) THEN With(pushed, n + 1, Block("items", <<>>, Null)) ELSE pushed,
         m = IF NeedsArray(ent) THEN n + 1 ELSE n,
         sup2 = IF NeedsArray(ent) THEN sup \cup ({ent.items} \ {Null}) ELSE sup
  PROVE  ParserInv([st EXCEPT ![Len(st)].name = Null], g, m, r, sup2, "after")
<1>. DEFINE k == Len(st)
            e == Last(st).ent
            nm == Last(st).name
            u == [st EXCEPT ![Len(st)].name = Null]
            P == Pushed(ent, nm, r, n + 1)
            pushed == With(h, e, P)
            i == Len(ent.names) + 1
            j == Len(ent.kids) + 1
            xf == <<"frame", k, e>>
            xr == <<"ret", 0, r>>
            yr == KidAt(e, j, r)
            xn == <<"name", k, nm>>
            yn == NameAt(e, i, nm)
            xi == <<"items", e, ent.items>>
            yi == <<"items", e, n + 1>>
            L == Live(st, h, p, r)
            L1 == (L \ {xr}) \cup {yr}
            L2 == IF nm = Null THEN L1 ELSE (L1 \ {xn}) \cup {yn}
<1>1. /\ HeapOk(h, n) /\ n \in Nat /\ DOMAIN h \in SUBSET (1 .. n) /\ n + 1 \notin DOMAIN h
      /\ Ownership(L, h, sup) /\ StackInv(st, p, r)
  BY DEF ParserInv, HeapOk
<1>2. st \in Seq(Frames) /\ st # <<>> /\ r \in Nat \ {0} /\ e < r
  BY <1>1 DEF StackInv, Null
<1>3. /\ k \in Nat \ {0} /\ k \in 1 .. Len(st) /\ Last(st) = st[k] /\ Last(st) \in Frames
      /\ nm \in Nat /\ e \in Nat \ {0}
  BY <1>2, FrontIs DEF Frames
<1>4. xf \in L /\ e \in DOMAIN h /\ e \in 1 .. n
  BY <1>3, FrameOwned
<1>5. ent = h[e] /\ BlockOk(ent)
  BY <1>1, <1>4 DEF HeapOk
<1>6. ent.items \in Nat /\ n + 1 \in Nat \ {0}
  BY <1>1, <1>5 DEF BlockOk
<1>7. PushedFacts(ent, nm, r, n + 1, P)
  BY <1>2, <1>3, <1>5, <1>6, PushedIs
<1>8. NonNull(BlockOut(e, P)) =
        (NonNull(BlockOut(e, ent)) \ (IF NeedsArray(ent) THEN {xi} ELSE {}))
          \cup {yr} \cup (IF nm = Null THEN {} ELSE {yn}) \cup (IF NeedsArray(ent) THEN {yi} ELSE {})
  <2>. HIDE DEF P, e, nm
  <2>. HIDE DEF i, j
  <2>1. i = Len(ent.names) + 1 /\ j = Len(ent.kids) + 1
    BY DEF i, j
  <2>2. PushedOutFacts(e, ent, nm, r, n + 1, P, i, j)
    BY ONLY <1>2, <1>3, <1>5, <1>6, <1>7, <2>1, PushedOut
  <2>. QED
    BY <2>2 DEF PushedOutFacts
<1>9. /\ u \in Seq(Frames) /\ u # <<>> /\ Len(u) = Len(st) /\ Last(u) = [Last(st) EXCEPT !.name = Null]
      /\ \A l \in 1 .. Len(st) : u[l].ent = st[l].ent
      /\ StackLive(u) = (StackLive(st) \ {xn}) \cup NonNull({<<"name", Len(st), Null>>})
  <2>1. Null \in Nat
    BY DEF Null
  <2>. QED
    BY <1>2, <2>1, StackLiveName
<1>. HIDE DEF P, u, e, nm, k, i, j, pushed
<1>10. StackLive(u) = StackLive(st) \ {xn}
  <2>1. NonNull({<<"name", Len(st), Null>>}) = {}
    BY DEF NonNull
  <2>. QED
    BY <1>9, <2>1
<1>11. RetLive(p, r) = {xr} /\ RetLive("after", r) = {}
  BY RetLiveIs
<1>12. /\ xf[1] = "frame" /\ xf[3] = e
       /\ xr[1] = "ret" /\ xr[3] = r
       /\ xn[1] = "name" /\ xn[3] = nm
       /\ xi[1] = "items" /\ xi[3] = ent.items
       /\ yi[1] = "items" /\ yi[3] = n + 1
  OBVIOUS
<1>13. /\ yr[1] = "kids" /\ yr[3] = r /\ From(yr) = e
       /\ yn[1] = "names" /\ yn[3] = nm
  BY DEF KidAt, NameAt, From
<1>14. xi \in BlockOut(e, ent)
  BY DEF BlockOut
<1>15. nm # Null => xn \in L
  <2>1. SUFFICES ASSUME nm # Null PROVE xn \in StackLive(st)
    BY DEF Live
  <2>2. xn \in FrameOut(k, st[k]) /\ xn[3] # Null
    BY <1>3, <2>1 DEF FrameOut, nm
  <2>3. k \in DOMAIN st
    BY <1>2, <1>3
  <2>. QED
    BY <2>2, <2>3, StackLiveIs
<1>16. ent.items # Null => xi \in L
  <2>1. SUFFICES ASSUME ent.items # Null PROVE xi \in HeapLive(h)
    BY DEF Live
  <2>. QED
    BY <1>4, <1>5, <1>12, <1>14, <2>1, HeapLiveIs
<1>17. xr \in L
  BY <1>11 DEF Live
<1>18. HeapLive(pushed) = (HeapLive(h) \ BlockOut(e, ent)) \cup NonNull(BlockOut(e, P))
  BY <1>4, <1>5, HeapLiveWith DEF pushed
<1>19. DOMAIN pushed = DOMAIN h
  BY <1>4 DEF pushed, With
<1>20. HeapLive(g) = HeapLive(pushed)
  <2>1. CASE NeedsArray(ent)
    <3>1. g = With(pushed, n + 1, Block("items", <<>>, Null))
      BY <2>1 DEF pushed, P, e, nm
    <3>2. NonNull(BlockOut(n + 1, Block("items", <<>>, Null))) = {}
      BY LeafBlock, LeafOut
    <3>3. HeapLive(With(pushed, n + 1, Block("items", <<>>, Null)))
            = HeapLive(pushed) \cup NonNull(BlockOut(n + 1, Block("items", <<>>, Null)))
      BY <1>1, <1>19, HeapLiveWith
    <3>. QED
      BY <3>1, <3>2, <3>3
  <2>2. CASE ~NeedsArray(ent)
    BY <2>2 DEF pushed, P, e, nm
  <2>. QED
    BY <2>1, <2>2, Zenon
<1>. DEFINE S == StackLive(st)
            HL == HeapLive(h)
            Xi == IF NeedsArray(ent) THEN {xi} ELSE {}
            Yi == IF NeedsArray(ent) THEN {yi} ELSE {}
            Yn == IF nm = Null THEN {} ELSE {yn}
<1>21. HeapLive(g) = (HL \ Xi) \cup {yr} \cup Yn \cup Yi
  <2>1. NonNull(BlockOut(e, ent)) \subseteq HL
    <3>1. ASSUME NEW x \in NonNull(BlockOut(e, ent)) PROVE x \in HL
      <4>1. x \in BlockOut(e, h[e]) /\ x[3] # Null
        BY <1>5 DEF NonNull
      <4>. QED
        BY <1>4, <4>1, HeapLiveIs
    <3>. QED
      BY <3>1
  <2>2. \A x \in HL : x \in BlockOut(e, ent) => x \in NonNull(BlockOut(e, ent))
    BY HeapLiveAt DEF NonNull
  <2>3. Xi \subseteq BlockOut(e, ent)
    BY <1>14
  <2>4. NonNull(BlockOut(e, P)) = (NonNull(BlockOut(e, ent)) \ Xi) \cup {yr} \cup Yn \cup Yi
    BY <1>8 DEF P, e, nm, i, j
  <2>. HIDE DEF HL, Xi, Yi, Yn, yr
  <2>5. HeapLive(g) = (HL \ BlockOut(e, ent)) \cup ((NonNull(BlockOut(e, ent)) \ Xi) \cup {yr} \cup Yn \cup Yi)
    BY <1>18, <1>20, <2>4 DEF HL
  <2>. QED
    BY ONLY <2>1, <2>2, <2>3, <2>5
<1>22. L = S \cup {xr} \cup HL
  BY <1>11 DEF Live
<1>23. /\ \A x \in S : x[1] \in {"frame", "name"} /\ x[3] # Null
       /\ \A x \in HL : x[1] \in {"names", "kids", "items"} /\ x[3] # Null
  BY StackLiveAt, HeapLiveAt
<1>24. Live(u, g, "after", r) = (S \ {xn}) \cup (HL \ Xi) \cup {yr} \cup Yn \cup Yi
  BY <1>10, <1>11, <1>21, Zenon DEF Live
<1>. HIDE DEF L, S, HL, xf, xr, yr, xn, yn, xi, yi
<1>25. L1 = S \cup HL \cup {yr}
  BY <1>12, <1>22, <1>23
<1>26. L2 = (S \ {xn}) \cup HL \cup {yr} \cup Yn
  BY <1>12, <1>13, <1>23, <1>25
<1>. HIDE DEF L1, L2
<1>27. Live(u, g, "after", r) = (L2 \ Xi) \cup Yi
  <2>1. \A x \in Xi : x[1] = "items"
    BY <1>12
  <2>2. \A x \in S \cup {yr} \cup Yn : x[1] # "items"
    BY <1>13, <1>23
  <2>. HIDE DEF Xi, Yi, Yn
  <2>. QED
    BY ONLY <1>24, <1>26, <2>1, <2>2
<1>28. Ownership(L1, h, sup)
  <2>1. Sound(yr, h)
    BY <1>2, <1>13 DEF Sound
  <2>. QED
    BY ONLY <1>1, <1>12, <1>13, <1>17, <2>1, OwnMoved DEF L1
<1>29. Ownership(L2, h, sup)
  <2>1. CASE nm = Null
    BY <1>28, <2>1 DEF L2
  <2>2. CASE nm # Null
    <3>1. xn \in L1
      BY <1>12, <1>15, <2>2 DEF L1
    <3>2. IsLeaf(h[nm])
      BY <1>1, <1>12, <1>15, <2>2 DEF Ownership, Sound
    <3>3. Sound(yn, h)
      BY <1>13, <3>2 DEF Sound
    <3>4. Ownership((L1 \ {xn}) \cup {yn}, h, sup)
      BY ONLY <1>12, <1>13, <1>28, <3>1, <3>3, OwnMoved
    <3>. QED
      BY <2>2, <3>4 DEF L2
  <2>. QED
    BY <2>1, <2>2
<1>30. xf \in L2
  BY <1>4, <1>12, <1>22, <1>23, <1>26
<1>31. Ownership(L2, pushed, sup)
  <2>1. ASSUME NEW x \in L2, x[3] = e PROVE x[1] \notin {"name", "names", "items"}
    <3>1. x = xf
      BY <1>12, <1>29, <1>30, <2>1 DEF Ownership, Owned
    <3>. QED
      BY <1>12, <3>1
  <2>2. e \in DOMAIN h \ sup
    BY <1>12, <1>29, <1>30 DEF Ownership, Owned
  <2>. QED
    BY <1>29, <2>1, <2>2, OwnChanged DEF pushed
<1>32. HeapOk(pushed, n)
  <2>1. BlockOk(P)
    BY <1>7 DEF PushedFacts, P, e, nm
  <2>. QED
    BY <1>1, <1>4, <2>1, HeapOkWith DEF pushed
<1>33. HeapOk(g, m) /\ Ownership((L2 \ Xi) \cup Yi, g, sup2)
  <2>1. CASE ~NeedsArray(ent)
    <3>1. g = pushed /\ m = n /\ sup2 = sup /\ (L2 \ Xi) \cup Yi = L2
      BY <2>1 DEF pushed, P, e, nm
    <3>. QED
      BY <1>31, <1>32, <3>1
  <2>2. CASE NeedsArray(ent)
    <3>. DEFINE blk == Block("items", <<>>, Null)
    <3>1. /\ g = With(pushed, n + 1, blk) /\ m = n + 1 /\ sup2 = sup \cup ({ent.items} \ {Null})
          /\ (L2 \ Xi) \cup Yi = (L2 \ {xi}) \cup {yi}
      BY <2>2 DEF pushed, P, e, nm
    <3>2. BlockOk(blk) /\ IsLeaf(blk)
      BY LeafBlock
    <3>. HIDE DEF blk
    <3>3. Ownership(L2 \ {xi}, pushed, sup2)
      <4>1. CASE ent.items = Null
        <5>1. xi \notin L2
          <6>1. xi \notin S /\ xi \notin HL /\ xi # yr /\ xi \notin Yn
            BY <1>12, <1>13, <1>23, <4>1
          <6>. QED
            BY <1>26, <6>1
        <5>2. sup2 = sup /\ L2 \ {xi} = L2
          BY <3>1, <4>1, <5>1
        <5>. QED
          BY <1>31, <5>2
      <4>2. CASE ent.items # Null
        <5>1. xi \in L2
          <6>1. xi \in HL
            BY <1>12, <1>16, <1>22, <1>23, <4>2
          <6>. QED
            BY <1>26, <6>1
        <5>2. sup2 = sup \cup {ent.items}
          BY <3>1, <4>2
        <5>3. IsLeaf(pushed[ent.items])
          BY <1>12, <1>31, <5>1 DEF Ownership, Sound
        <5>. QED
          BY <1>12, <1>31, <5>1, <5>2, <5>3, OwnFewer
      <4>. QED
        BY <4>1, <4>2
    <3>4. Sound(yi, g)
      <4>1. g[n + 1] = blk
        BY <3>1 DEF With
      <4>. QED
        BY <1>12, <3>2, <4>1 DEF Sound
    <3>5. Ownership((L2 \ {xi}) \cup {yi}, g, sup2)
      <4>1. yi[3] = n + 1 /\ n + 1 \notin DOMAIN pushed
        BY <1>1, <1>12, <1>19
      <4>. QED
        BY ONLY <3>1, <3>3, <3>4, <4>1, OwnMore
    <3>6. HeapOk(g, m)
      BY <1>1, <1>32, <3>1, <3>2, HeapOkWith
    <3>. QED
      BY <3>1, <3>5, <3>6
  <2>. QED
    BY <2>1, <2>2, Zenon
<1>34. StackInv(u, "after", r)
  <2>1. Last(u).name = Null
    BY <1>3, <1>9 DEF Frames
  <2>. QED
    BY <1>1, <1>2, <1>9, <2>1 DEF StackInv
<1>. QED
  BY <1>27, <1>33, <1>34 DEF ParserInv, u, k

\* Without a root there are no blocks but superseded ones: each would have a
\* pointer from an entity, that one from an older one, and so on.
LEMMA NoRootNoBlock ==
  ASSUME NEW h, NEW n, NEW sup, HeapOk(h, n), Ownership(HeapLive(h), h, sup)
  PROVE  DOMAIN h = sup
<1>1. /\ sup \subseteq DOMAIN h /\ \A d \in sup : IsLeaf(h[d])
      /\ \A x \in HeapLive(h) : x[3] \in DOMAIN h \ sup /\ Sound(x, h)
      /\ \A d \in DOMAIN h \ sup : \E x \in HeapLive(h) : x[3] = d
  BY DEF Ownership, Owned
<1>2. DOMAIN h \in SUBSET Nat
  BY DEF HeapOk
<1>3. ASSUME NEW x \in HeapLive(h) PROVE From(x) \in DOMAIN h /\ ~IsLeaf(h[From(x)])
  <2>1. From(x) \in DOMAIN h /\ x \in BlockOut(From(x), h[From(x)]) /\ x[3] # Null
    BY HeapLiveAt
  <2>2. x \in NonNull(BlockOut(From(x), h[From(x)]))
    BY <2>1 DEF NonNull
  <2>. QED
    BY <2>1, <2>2, LeafOut
<1>. DEFINE Inner == {d \in DOMAIN h : ~IsLeaf(h[d])}
<1>4. Inner = {}
  <2>1. SUFFICES ASSUME Inner # {} PROVE FALSE
    OBVIOUS
  <2>2. PICK d \in Inner : \A d2 \in Inner : d <= d2
    <3>1. Inner \in SUBSET Nat
      BY <1>2
    <3>. HIDE DEF Inner
    <3>. QED
      BY <2>1, <3>1, LeastNatural
  <2>3. d \in DOMAIN h \ sup
    BY <1>1
  <2>4. PICK x \in HeapLive(h) : x[3] = d
    BY <1>1, <2>3
  <2>5. x[1] = "kids"
    BY <1>1, <2>4, HeapLiveAt DEF Sound
  <2>6. From(x) < d
    BY <1>1, <2>4, <2>5 DEF Sound
  <2>7. From(x) \in Inner
    BY <1>3
  <2>8. From(x) \in Nat /\ d \in Nat
    BY <1>2, <2>7
  <2>. HIDE DEF Inner
  <2>. QED
    BY <2>2, <2>6, <2>7, <2>8
<1>5. HeapLive(h) = {}
  BY <1>3, <1>4
<1>. QED
  BY <1>1, <1>5

\* cleanup_haversine_state frees the tree: of the blocks the superseded ones
\* are left.
LEMMA CleanupKeeps ==
  ASSUME NEW h, NEW n, NEW r, NEW sup, NEW p, ParserInv(<<>>, h, n, r, sup, p)
  PROVE  /\ ParserInv(<<>>, Without(h, Tree(h, r)), n, Null, sup, IF p = "parsed" THEN "done" ELSE p)
         /\ DOMAIN Without(h, Tree(h, r)) = sup
<1>. DEFINE q == IF p = "parsed" THEN "done" ELSE p
            g == Without(h, Tree(h, r))
            L == Live(<<>>, h, p, r)
<1>1. HeapOk(h, n) /\ n \in Nat /\ Ownership(L, h, sup) /\ StackInv(<<>>, p, r)
  BY DEF ParserInv, HeapOk
<1>2. p \in {"root", "parsed", "done"} /\ (p # "parsed" => r = Null) /\ r \in Nat
  BY <1>1 DEF StackInv
<1>3. q \in {"root", "done"} /\ StackInv(<<>>, q, Null)
  BY <1>1, <1>2 DEF StackInv, Null
<1>4. HeapOk(g, n)
  BY <1>1, HeapOkWithout
<1>5. StackLive(<<>>) = {}
  BY DEF StackLive
<1>6. L = RetLive(p, r) \cup HeapLive(h)
  BY <1>5 DEF Live
<1>7. HeapLive(g) = HeapLive(h) \ OutOf(h, Tree(h, r))
  BY HeapLiveWithout
<1>. HIDE DEF q, g, L
<1>8. Live(<<>>, g, q, Null) = HeapLive(g)
  <2>1. RetLive(q, Null) = {}
    BY RetLiveIs
  <2>. QED
    BY <1>5, <2>1 DEF Live
<1>9. Ownership(HeapLive(g), g, sup)
  <2>1. CASE r = Null
    <3>1. Tree(h, r) = {}
      BY <2>1 DEF Tree
    <3>2. OutOf(h, {}) = {}
      BY DEF OutOf
    <3>3. HeapLive(g) = HeapLive(h)
      BY <1>7, <3>1, <3>2
    <3>4. L = HeapLive(h)
      BY <1>6, <2>1, RetLiveIs
    <3>5. DOMAIN g = DOMAIN h /\ \A d \in DOMAIN h : g[d] = h[d]
      <4>1. DOMAIN h \ {} = DOMAIN h
        OBVIOUS
      <4>2. g = Without(h, {})
        BY <3>1 DEF g
      <4>. QED
        BY <4>1, <4>2, WithoutIs
    <3>6. ASSUME NEW x \in L PROVE Sound(x, g)
      BY <1>1, <3>5 DEF Ownership, Owned, Sound
    <3>. QED
      BY <1>1, <3>3, <3>4, <3>5, <3>6 DEF Ownership
  <2>2. CASE r # Null
    <3>. DEFINE x == <<"ret", 0, r>>
    <3>1. RetLive(p, r) = {x}
      BY <1>2, <2>2, RetLiveIs
    <3>2. x[3] = r /\ x \notin HeapLive(h)
      BY HeapLiveAt
    <3>. HIDE DEF x
    <3>3. Ownership(L \ (OutOf(h, Tree(h, r)) \cup {x}), g, sup)
      BY <1>1, <1>6, <3>1, <3>2, OwnFreed DEF g
    <3>4. L \ (OutOf(h, Tree(h, r)) \cup {x}) = HeapLive(g)
      BY <1>6, <1>7, <3>1, <3>2
    <3>. QED
      BY <3>3, <3>4
  <2>. QED
    BY <2>1, <2>2
<1>10. DOMAIN g = sup
  BY <1>4, <1>9, NoRootNoBlock
<1>. QED
  BY <1>3, <1>4, <1>8, <1>9, <1>10 DEF ParserInv, q, g

(***************************************************************************)
(* Every step of the parser keeps its invariant.                           *)
(***************************************************************************)
Blocks == ParserInv(stack, heap, allocs, ret, superseded, pc)

LEMMA BlocksInit == Init => Blocks
<1>. SUFFICES ASSUME Init PROVE Blocks
  OBVIOUS
<1>1. /\ stack = <<>> /\ heap = [c \in {} |-> Null] /\ allocs = 0 /\ ret = Null /\ superseded = {}
      /\ pc = "root"
  BY DEF Init
<1>2. DOMAIN heap = {}
  BY <1>1
<1>3. HeapOk(heap, allocs)
  BY <1>1, <1>2 DEF HeapOk
<1>4. StackInv(stack, pc, ret)
  BY <1>1 DEF StackInv, Null
<1>5. StackLive(stack) = {} /\ RetLive(pc, ret) = {} /\ HeapLive(heap) = {}
  BY <1>1, <1>2 DEF StackLive, RetLive, RetOut, NonNull, HeapLive
<1>6. Live(stack, heap, pc, ret) = {}
  BY <1>5 DEF Live
<1>7. Ownership({}, heap, superseded)
  BY <1>1, <1>2 DEF Ownership, Owned
<1>. QED
  BY <1>3, <1>4, <1>6, <1>7 DEF Blocks, ParserInv

LEMMA CallBlocks ==
  ASSUME Blocks, pc \in {"root", "item", "value"}, NEW kind \in {"object", "array"}, Call(kind)
  PROVE  Blocks'
<1>1. /\ heap' = With(heap, allocs + 1, Block(kind, <<>>, Null)) /\ allocs' = allocs + 1
      /\ stack' = Append(stack, Frame(kind, allocs + 1)) /\ pc' = "item"
      /\ ret' = ret /\ superseded' = superseded
  BY DEF Call
<1>2. ParserInv(Append(stack, Frame(kind, allocs + 1)), With(heap, allocs + 1, Block(kind, <<>>, Null)),
                allocs + 1, ret, superseded, "item")
  BY CallKeeps DEF Blocks
<1>. QED
  BY <1>1, <1>2 DEF Blocks

LEMMA AllocsAreNat ==
  ASSUME Blocks
  PROVE  allocs \in Nat /\ ret \in Nat
BY DEF Blocks, ParserInv, HeapOk, StackInv

LEMMA AbandonBlocks ==
  ASSUME Blocks, pc \in {"item", "colon", "after"} \/ (pc = "returned" /\ ret = Null), Abandon,
         allocs' \in {allocs, allocs + 1}
  PROVE  Blocks'
<1>1. /\ heap' = Without(heap, ({Last(stack).name} \ {Null}) \cup Tree(heap, Last(stack).ent))
      /\ stack' = Front(stack) /\ ret' = Null /\ superseded' = superseded
      /\ pc' = IF Len(stack) = 1 THEN "parsed" ELSE "returned"
  BY DEF Abandon, OnError, Return, top
<1>2. allocs' \in Nat /\ allocs <= allocs'
  BY AllocsAreNat
<1>3. ParserInv(Front(stack), Without(heap, ({Last(stack).name} \ {Null}) \cup Tree(heap, Last(stack).ent)),
                allocs', Null, superseded, IF Len(stack) = 1 THEN "parsed" ELSE "returned")
  BY <1>2, AbandonKeeps DEF Blocks
<1>. QED
  BY <1>1, <1>3 DEF Blocks

LEMMA ErrorBlocks ==
  ASSUME Blocks, pc \in {"item", "colon", "after"}, NEW t, ParseError(t)
  PROVE  Blocks'
<1>1. Abandon /\ allocs' \in {allocs, allocs + 1}
  BY DEF ParseError, AfterRead
<1>. QED
  BY <1>1, AbandonBlocks

LEMMA CloseBlocks ==
  ASSUME Blocks, pc \in {"item", "after"}, Close
  PROVE  Blocks'
<1>1. /\ stack' = Front(stack) /\ ret' = Last(stack).ent
      /\ pc' = IF Len(stack) = 1 THEN "parsed" ELSE "returned"
      /\ heap' = heap /\ allocs' = allocs /\ superseded' = superseded
  BY DEF Close, Return, top
<1>2. ParserInv(Front(stack), heap, allocs, Last(stack).ent, superseded,
                IF Len(stack) = 1 THEN "parsed" ELSE "returned")
  BY CloseKeeps DEF Blocks
<1>. QED
  BY <1>1, <1>2 DEF Blocks

LEMMA EntityBlocks ==
  ASSUME Blocks, pc \in {"item", "value"}, NEW t, ParseEntity(t)
  PROVE  Blocks'
<1>0. allocs \in Nat
  BY AllocsAreNat
<1>1. CASE t = "lbrace" /\ Call("object")
  BY <1>1, CallBlocks
<1>2. CASE t = "lsqbracket" /\ Call("array")
  BY <1>2, CallBlocks
<1>3. CASE /\ t \in Literals \cup Strings
           /\ allocs' = AfterRead(t) + 1
           /\ heap' = IF t \in Strings THEN StringEntity(t, allocs')
                      ELSE With(heap, allocs', Block(t, <<>>, ValueOf(t)))
           /\ ret' = allocs' /\ pc' = "returned"
           /\ UNCHANGED <<stack, superseded>>
  <2>1. CASE t \in Strings
    <3>1. /\ allocs' = allocs + 2
          /\ heap' = With(With(heap, allocs + 1, Text(t)), allocs + 2, Block("string", <<allocs + 1>>, Null))
      BY <1>0, <1>3, <2>1 DEF AfterRead, StringEntity, TextOf
    <3>2. ParserInv(stack, With(With(heap, allocs + 1, Text(t)), allocs + 2, Block("string", <<allocs + 1>>, Null)),
                    allocs + 2, allocs + 2, superseded, "returned")
      BY StringKeeps DEF Blocks
    <3>. QED
      BY <1>3, <3>1, <3>2 DEF Blocks
  <2>2. CASE t \notin Strings
    <3>. DEFINE val == ValueOf(t)
    <3>1. allocs' = allocs + 1 /\ heap' = With(heap, allocs + 1, Block(t, <<>>, val))
      BY <1>3, <2>2 DEF AfterRead
    <3>. HIDE DEF val
    <3>2. ParserInv(stack, With(heap, allocs + 1, Block(t, <<>>, val)), allocs + 1, allocs + 1, superseded, "returned")
      BY LiteralKeeps DEF Blocks
    <3>. QED
      BY <1>3, <3>1, <3>2 DEF Blocks
  <2>. QED
    BY <2>1, <2>2
<1>4. CASE /\ ret' = Null /\ pc' = "returned"
           /\ UNCHANGED <<stack, heap, allocs, superseded>>
  <2>1. allocs <= allocs
    BY <1>0
  <2>2. ParserInv(stack, heap, allocs, Null, superseded, "returned")
    BY <1>0, <2>1, NothingKeeps DEF Blocks
  <2>. QED
    BY <1>4, <2>2 DEF Blocks
<1>. QED
  BY <1>1, <1>2, <1>3, <1>4 DEF ParseEntity

LEMMA InputBlocks ==
  ASSUME Blocks, NEW t, ParseInput(t)
  PROVE  Blocks'
<1>1. pc = "root"
  BY DEF ParseInput
<1>2. CASE t = "lbrace"
  <2>1. Call("object")
    BY <1>2 DEF ParseInput
  <2>. QED
    BY <1>1, <2>1, CallBlocks
<1>3. CASE t # "lbrace"
  <2>1. /\ heap' = heap /\ allocs' \in {allocs, allocs + 1} /\ ret' = Null /\ pc' = "parsed"
        /\ stack' = stack /\ superseded' = superseded
    BY <1>3 DEF ParseInput, Dropped, AfterRead
  <2>2. allocs' \in Nat /\ allocs <= allocs'
    BY <2>1, AllocsAreNat
  <2>3. ParserInv(stack, heap, allocs', Null, superseded, "parsed")
    BY <1>1, <2>2, NothingKeeps DEF Blocks
  <2>. QED
    BY <2>1, <2>3 DEF Blocks
<1>. QED
  BY <1>2, <1>3

LEMMA FieldBlocks ==
  ASSUME Blocks, NEW t, ReadField(t)
  PROVE  Blocks'
<1>1. pc = "item"
  BY DEF ReadField
<1>2. CASE Close
  BY <1>1, <1>2, CloseBlocks
<1>3. CASE /\ t \in Strings
           /\ heap' = With(heap, TextOf(t), Text(t))
           /\ allocs' = AfterRead(t)
           /\ stack' = [stack EXCEPT ![Len(stack)].name = TextOf(t)]
           /\ pc' = "colon"
           /\ UNCHANGED <<ret, superseded>>
  <2>1. /\ heap' = With(heap, allocs + 1, Text(t)) /\ allocs' = allocs + 1
        /\ stack' = [stack EXCEPT ![Len(stack)].name = allocs + 1]
    BY <1>3 DEF TextOf, AfterRead
  <2>2. ParserInv([stack EXCEPT ![Len(stack)].name = allocs + 1], With(heap, allocs + 1, Text(t)), allocs + 1,
                  ret, superseded, "colon")
    BY <1>1, FieldKeeps DEF Blocks
  <2>. QED
    BY <1>3, <2>1, <2>2 DEF Blocks
<1>4. CASE ParseError(t)
  BY <1>1, <1>4, ErrorBlocks
<1>. QED
  BY <1>2, <1>3, <1>4 DEF ReadField

\* The call goes on without touching a block.
LEMMA OnBlocks ==
  ASSUME Blocks, (pc = "colon" /\ pc' = "value") \/ (pc = "after" /\ pc' = "item"),
         UNCHANGED <<stack, heap, allocs, ret, superseded>>
  PROVE  Blocks'
<1>1. ParserInv(stack, heap, allocs, ret, superseded, pc')
  BY PcKeeps DEF Blocks
<1>. QED
  BY <1>1 DEF Blocks

LEMMA TakeBlocks ==
  ASSUME Blocks, TakeEntity
  PROVE  Blocks'
<1>1. pc = "returned"
  BY DEF TakeEntity
<1>2. CASE ret = Null
  <2>1. Abandon /\ allocs' = allocs
    BY <1>2 DEF TakeEntity
  <2>. QED
    BY <1>1, <1>2, <2>1, AbandonBlocks
<1>3. CASE ret # Null
  <2>. DEFINE e == Last(stack).ent
              nm == Last(stack).name
              ent == heap[e]
              pushed == With(heap, e, Pushed(ent, nm, ret, allocs + 1))
  <2>1. /\ heap' = IF NeedsArray(ent) THEN With(pushed, allocs + 1, Block("items", <<>>, Null)) ELSE pushed
        /\ allocs' = IF NeedsArray(ent) THEN allocs + 1 ELSE allocs
        /\ superseded' = IF NeedsArray(ent) THEN superseded \cup ({ent.items} \ {Null}) ELSE superseded
        /\ stack' = [stack EXCEPT ![Len(stack)].name = Null]
        /\ pc' = "after" /\ ret' = ret
    BY <1>3, Zenon DEF TakeEntity, top
  <2>2. ParserInv([stack EXCEPT ![Len(stack)].name = Null], heap', allocs', ret, superseded', "after")
    BY <1>1, <1>3, <2>1, TakeKeeps DEF Blocks
  <2>. QED
    BY <2>1, <2>2 DEF Blocks
<1>. QED
  BY <1>2, <1>3

LEMMA ParseBlocks ==
  ASSUME Blocks, Parse
  PROVE  Blocks'
<1>1. ASSUME NEW t, ReadColon(t) PROVE Blocks'
  BY <1>1, OnBlocks, ErrorBlocks DEF ReadColon
<1>2. ASSUME NEW t, ReadValue(t) PROVE Blocks'
  BY <1>2, EntityBlocks DEF ReadValue
<1>3. ASSUME NEW t, ReadElement(t) PROVE Blocks'
  BY <1>3, ErrorBlocks, CloseBlocks, EntityBlocks DEF ReadElement
<1>4. ASSUME NEW t, ReadAfter(t) PROVE Blocks'
  BY <1>4, OnBlocks, CloseBlocks, ErrorBlocks DEF ReadAfter
<1>. QED
  BY <1>1, <1>2, <1>3, <1>4, InputBlocks, FieldBlocks, TakeBlocks, Zenon DEF Parse

(***************************************************************************)
(* The invariant of the program: the blocks are as the parser left them,   *)
(* and no call of it is active but in its step.                            *)
(***************************************************************************)
Outside == step # "parse" => stack = <<>>

BlocksInv == Blocks /\ Outside

\* What a cleanup leaves.
LEMMA CleanupBlocks ==
  ASSUME BlocksInv, stack = <<>>, cleanup_haversine_state
  PROVE  Blocks' /\ stack' = <<>> /\ DOMAIN heap' = superseded'
<1>1. /\ heap' = Without(heap, Tree(heap, ret)) /\ ret' = Null
      /\ pc' = IF pc = "parsed" THEN "done" ELSE pc
      /\ stack' = stack /\ allocs' = allocs /\ superseded' = superseded
  BY DEF cleanup_haversine_state
<1>2. ParserInv(<<>>, heap, allocs, ret, superseded, pc)
  BY DEF BlocksInv, Blocks
<1>3. /\ ParserInv(<<>>, Without(heap, Tree(heap, ret)), allocs, Null, superseded, IF pc = "parsed" THEN "done" ELSE pc)
      /\ DOMAIN Without(heap, Tree(heap, ret)) = superseded
  BY <1>2, CleanupKeeps
<1>. QED
  BY <1>1, <1>3 DEF Blocks

\* A call of the parser is active where its pc says so.
LEMMA ParsedStack ==
  ASSUME Blocks
  PROVE  pc \in {"root", "parsed", "done"} <=> stack = <<>>
BY DEF Blocks, ParserInv, StackInv

LEMMA SameBlocks ==
  ASSUME BlocksInv, UNCHANGED vars, step # "parse" \/ step' = "parse" \/ pc = "parsed"
  PROVE  BlocksInv'
<1>1. /\ stack' = stack /\ heap' = heap /\ allocs' = allocs /\ ret' = ret /\ superseded' = superseded
      /\ pc' = pc
  BY DEF vars
<1>2. Blocks'
  BY <1>1 DEF BlocksInv, Blocks
<1>3. Outside'
  BY <1>1, ParsedStack DEF BlocksInv, Outside
<1>. QED
  BY <1>2, <1>3 DEF BlocksInv

LEMMA CleanedBlocks ==
  ASSUME BlocksInv, step # "parse" \/ pc = "parsed", cleanup_haversine_state
  PROVE  BlocksInv' /\ stack' = <<>> /\ DOMAIN heap' = superseded'
<1>1. stack = <<>>
  BY ParsedStack DEF BlocksInv, Outside
<1>2. Blocks' /\ stack' = <<>> /\ DOMAIN heap' = superseded'
  BY <1>1, CleanupBlocks
<1>. QED
  BY <1>2 DEF BlocksInv, Outside

LEMMA BlocksStep ==
  ASSUME BlocksInv, [Next]_allvars
  PROVE  BlocksInv'
<1>1. CASE Start
  BY <1>1, CleanedBlocks DEF Start
<1>2. CASE OpenFile
  BY <1>2, SameBlocks DEF OpenFile
<1>3. CASE AllocateForFile
  BY <1>3, SameBlocks DEF AllocateForFile
<1>4. CASE ReadFile
  BY <1>4, SameBlocks DEF ReadFile
<1>5. CASE ParseFile
  <2>1. Blocks'
    BY <1>5, ParseBlocks DEF ParseFile, BlocksInv
  <2>2. Outside'
    BY <1>5 DEF ParseFile, hvars, Outside
  <2>. QED
    BY <2>1, <2>2 DEF BlocksInv
<1>6. CASE CheckRoot
  BY <1>6, CleanedBlocks, SameBlocks DEF CheckRoot, Reject
<1>7. CASE AllocatePairs \/ AllocateAnswers
  BY <1>7, SameBlocks DEF AllocatePairs, AllocateAnswers, AllocateField
<1>8. CASE CheckChecksum
  BY <1>8, CleanedBlocks, SameBlocks DEF CheckChecksum, Reject
<1>9. CASE ReadPoint
  BY <1>9, CleanedBlocks, SameBlocks DEF ReadPoint, Reject, Die
<1>10. CASE SetupReturns
  BY <1>10, SameBlocks DEF SetupReturns
<1>11. CASE Calculate
  BY <1>11, SameBlocks DEF Calculate, Die
<1>12. CASE Validate
  BY <1>12, SameBlocks DEF Validate, Die
<1>13. CASE Finish
  BY <1>13, CleanedBlocks DEF Finish
<1>14. CASE UNCHANGED allvars
  <2>1. UNCHANGED vars /\ step' = step
    BY <1>14 DEF allvars, hvars
  <2>. QED
    BY <2>1, SameBlocks
<1>. QED
  BY <1>1, <1>2, <1>3, <1>4, <1>5, <1>6, <1>7, <1>8, <1>9, <1>10, <1>11, <1>12, <1>13, <1>14
  DEF Next, Run, Terminating

LEMMA BlocksStart == StateInit => BlocksInv
BY BlocksInit DEF StateInit, BlocksInv, Outside, Init

\* Whatever the parser reads and whichever error ends it, the blocks are owned
\* as above, and once setup has gone on from the parse no call of it is active
\* (parse_json_object, parse_json_array, their PARSE_ERR and deallocate).
THEOREM BlocksAreOwned == Spec => []BlocksInv
<1>1. BlocksInv /\ [Next]_allvars => BlocksInv'
  BY BlocksStep
<1>. QED
  BY <1>1, BlocksStart, PTL DEF Spec

(***************************************************************************)
(* One owner.                                                              *)
(***************************************************************************)
\* Of the pointers X one goes to each of the blocks D that is not superseded.
OneEach(X, D, sup) ==
  /\ \A x \in X : x[3] # Null => x[3] \in D
  /\ \A c \in D : Cardinality({x \in X : x[3] = c}) = IF c \in sup THEN 0 ELSE 1

LEMMA OnePointer ==
  ASSUME NEW X, NEW L, NEW D, NEW sup, sup \subseteq D, Null \notin D,
         L = {x \in X : x[3] # Null}, Owned(L, D \ sup)
  PROVE  OneEach(X, D, sup)
<1>1. \A x \in X : x[3] # Null => x[3] \in D \ sup
  BY DEF Owned
<1>2. ASSUME NEW c \in D, c \in sup PROVE Cardinality({x \in X : x[3] = c}) = 0
  <2>1. {x \in X : x[3] = c} = {}
    BY <1>1, <1>2
  <2>. QED
    BY <2>1, FS_EmptySet
<1>3. ASSUME NEW c \in D, c \notin sup PROVE Cardinality({x \in X : x[3] = c}) = 1
  <2>1. PICK x \in L : x[3] = c
    BY <1>3 DEF Owned
  <2>2. ASSUME NEW y \in X, y[3] = c PROVE y = x
    <3>1. y \in L
      BY <2>2
    <3>. QED
      BY <2>1, <2>2, <3>1 DEF Owned
  <2>3. x \in X
    BY <2>1
  <2>4. {y \in X : y[3] = c} = {x}
    BY <2>1, <2>2, <2>3
  <2>. QED
    BY <2>4, FS_Singleton
<1>. QED
  BY <1>1, <1>2, <1>3 DEF OneEach

LEMMA OwnedIsOneOwner == Blocks => OneOwner
<1>. SUFFICES ASSUME Blocks PROVE OneOwner
  OBVIOUS
<1>1. HeapOk(heap, allocs) /\ Ownership(Live(stack, heap, pc, ret), heap, superseded)
  BY DEF Blocks, ParserInv
<1>2. Null \notin DOMAIN heap
  BY <1>1 DEF HeapOk, Null
<1>3. Live(stack, heap, pc, ret) = {x \in Pointers : x[3] # Null}
  BY LivePointers
<1>4. superseded \subseteq DOMAIN heap /\ Owned(Live(stack, heap, pc, ret), DOMAIN heap \ superseded)
  BY <1>1 DEF Ownership
<1>5. OneEach(Pointers, DOMAIN heap, superseded)
  BY ONLY <1>2, <1>3, <1>4, OnePointer
<1>. QED
  BY <1>5, Zenon DEF OneEach, OneOwner

\* A block that malloc gave the parser is pointed to once, by a call that is
\* active, by its result or by the tree, until it is freed; an array that
\* growing replaced is pointed to by nothing.  So no error path of the parser
\* loses a block and none frees one twice.
THEOREM BlocksHaveOneOwner == Spec => []OneOwner
<1>1. BlocksInv => OneOwner
  BY OwnedIsOneOwner DEF BlocksInv
<1>. QED
  BY <1>1, BlocksAreOwned, PTL

(***************************************************************************)
(* The mappings.  H gives for each name the buffer that is held under it.  *)
(***************************************************************************)
Names == {"json", "checksum", "pairs", "answers", "b"}

\* Each mapping is that of one buffer, which knows its pages.
Holds(H, pg, mp) ==
  /\ mp \in Nat /\ DOMAIN pg \in SUBSET (1 .. mp) /\ pg = [m \in DOMAIN pg |-> pg[m]]
  /\ \A x \in Names :
       /\ H[x].data \in Int
       /\ H[x].data > 0 => H[x].data \in DOMAIN pg /\ pg[H[x].data] = PagesOf(H[x])
  /\ \A m \in DOMAIN pg : \E x \in Names : H[x].data = m
  /\ \A x, y \in Names : H[x].data > 0 /\ H[x].data = H[y].data => x = y

\* G is H but for the names X.
SameBut(H, G, X) == \A x \in Names \ X : G[x] = H[x]

\* allocate_best.
LEMMA HoldsMore ==
  ASSUME NEW H, NEW pg, NEW mp, Holds(H, pg, mp), NEW x \in Names, ~(H[x].data > 0),
         NEW G, SameBut(H, G, {x}), NEW pg2, NEW mp2,
         \/ G[x].data = MapFailed /\ pg2 = pg /\ mp2 = mp
         \/ G[x].data = mp + 1 /\ pg2 = With(pg, mp + 1, PagesOf(G[x])) /\ mp2 = mp + 1
  PROVE  Holds(G, pg2, mp2)
<1>1. /\ mp \in Nat /\ DOMAIN pg \in SUBSET (1 .. mp) /\ mp + 1 \notin DOMAIN pg
      /\ \A y \in Names : H[y].data \in Int
      /\ \A y \in Names : H[y].data > 0 => H[y].data \in DOMAIN pg /\ pg[H[y].data] = PagesOf(H[y])
      /\ \A m \in DOMAIN pg : \E y \in Names : H[y].data = m
      /\ \A y, z \in Names : H[y].data > 0 /\ H[y].data = H[z].data => y = z
  BY DEF Holds
<1>2. \A y \in Names : y # x => G[y] = H[y]
  BY DEF SameBut
<1>3. CASE G[x].data = MapFailed /\ pg2 = pg /\ mp2 = mp
  <2>1. G[x].data = -1
    BY <1>3 DEF MapFailed
  <2>2. \A m \in DOMAIN pg : m > 0
    BY <1>1
  <2>3. \A y \in Names : G[y].data \in Int /\ (G[y].data > 0 => y # x)
    BY <1>1, <1>2, <2>1
  <2>4. ASSUME NEW m \in DOMAIN pg PROVE \E y \in Names : G[y].data = m
    <3>1. PICK y \in Names : H[y].data = m
      BY <1>1
    <3>2. y # x
      BY <2>2, <3>1
    <3>. QED
      BY <1>2, <3>1, <3>2
  <2>. QED
    BY <1>1, <1>2, <1>3, <2>3, <2>4 DEF Holds
<1>4. CASE G[x].data = mp + 1 /\ pg2 = With(pg, mp + 1, PagesOf(G[x])) /\ mp2 = mp + 1
  <2>1. /\ DOMAIN pg2 = DOMAIN pg \cup {mp + 1} /\ pg2[mp + 1] = PagesOf(G[x])
        /\ \A m \in DOMAIN pg : m # mp + 1 => pg2[m] = pg[m]
    BY <1>4 DEF With
  <2>2. DOMAIN pg2 \in SUBSET (1 .. mp + 1) /\ mp + 1 \in Nat
    BY <1>1, <2>1
  <2>3. ASSUME NEW y \in Names
        PROVE  G[y].data \in Int /\ (G[y].data > 0 => G[y].data \in DOMAIN pg2 /\ pg2[G[y].data] = PagesOf(G[y]))
    <3>1. CASE y = x
      BY <1>1, <1>4, <2>1, <3>1
    <3>2. CASE y # x
      BY <1>1, <1>2, <2>1, <3>2
    <3>. QED
      BY <3>1, <3>2
  <2>4. ASSUME NEW m \in DOMAIN pg2 PROVE \E y \in Names : G[y].data = m
    <3>1. CASE m = mp + 1
      BY <1>4, <3>1
    <3>2. CASE m \in DOMAIN pg
      <4>1. PICK y \in Names : H[y].data = m
        BY <1>1, <3>2
      <4>2. m > 0
        BY <1>1, <3>2
      <4>3. y # x
        BY <4>1, <4>2
      <4>. QED
        BY <1>2, <4>1, <4>3
    <3>. QED
      BY <2>1, <3>1, <3>2
  <2>5. \A y \in Names : y # x => G[y].data # mp + 1
    <3>1. SUFFICES ASSUME NEW y \in Names, y # x, G[y].data = mp + 1 PROVE FALSE
      OBVIOUS
    <3>2. H[y].data = mp + 1 /\ mp + 1 > 0
      BY <1>1, <1>2, <3>1
    <3>. QED
      BY <1>1, <3>2
  <2>6. \A y, z \in Names : G[y].data > 0 /\ G[y].data = G[z].data => y = z
    <3>1. SUFFICES ASSUME NEW y \in Names, NEW z \in Names, G[y].data > 0, G[y].data = G[z].data PROVE y = z
      OBVIOUS
    <3>2. CASE y = x \/ z = x
      BY <1>4, <2>5, <3>1, <3>2
    <3>3. CASE y # x /\ z # x
      BY <1>1, <1>2, <3>1, <3>3
    <3>. QED
      BY <3>2, <3>3
  <2>7. pg2 = [m \in DOMAIN pg2 |-> pg2[m]]
    BY <1>4 DEF With
  <2>. QED
    BY <1>4, <2>2, <2>3, <2>4, <2>6, <2>7 DEF Holds
<1>. QED
  BY <1>3, <1>4

\* A buffer is held under another name: by a field of s when it was in b.
LEMMA HoldsMoved ==
  ASSUME NEW H, NEW pg, NEW mp, Holds(H, pg, mp), NEW x \in Names, NEW y \in Names, x # y,
         ~(H[y].data > 0), NEW G, SameBut(H, G, {x, y}), G[y] = H[x], G[x] = NoBuffer
  PROVE  Holds(G, pg, mp)
<1>1. /\ mp \in Nat /\ DOMAIN pg \in SUBSET (1 .. mp)
      /\ \A z \in Names : H[z].data \in Int
      /\ \A z \in Names : H[z].data > 0 => H[z].data \in DOMAIN pg /\ pg[H[z].data] = PagesOf(H[z])
      /\ \A m \in DOMAIN pg : \E z \in Names : H[z].data = m
      /\ \A z, w \in Names : H[z].data > 0 /\ H[z].data = H[w].data => z = w
  BY DEF Holds
<1>2. \A z \in Names : z # x /\ z # y => G[z] = H[z]
  BY DEF SameBut
<1>3. G[x].data = 0
  BY DEF NoBuffer, Buffer, NullData
<1>4. \A z \in Names : G[z].data \in Int /\ (G[z].data > 0 => z # x)
  BY <1>1, <1>2, <1>3
<1>5. \A z \in Names : G[z].data > 0 => G[z].data \in DOMAIN pg /\ pg[G[z].data] = PagesOf(G[z])
  BY <1>1, <1>2, <1>4
<1>6. ASSUME NEW m \in DOMAIN pg PROVE \E z \in Names : G[z].data = m
  <2>1. PICK z \in Names : H[z].data = m
    BY <1>1
  <2>2. m > 0 /\ z # y
    BY <1>1, <2>1
  <2>. QED
    BY <1>2, <2>1, <2>2
<1>7. \A z, w \in Names : G[z].data > 0 /\ G[z].data = G[w].data => z = w
  <2>1. SUFFICES ASSUME NEW z \in Names, NEW w \in Names, G[z].data > 0, G[z].data = G[w].data PROVE z = w
    OBVIOUS
  <2>2. z # x /\ w # x
    BY <1>4, <2>1
  <2>3. CASE z = y \/ w = y
    BY <1>1, <1>2, <2>1, <2>2, <2>3
  <2>4. CASE z # y /\ w # y
    BY <1>1, <1>2, <2>1, <2>2, <2>4
  <2>. QED
    BY <2>3, <2>4
<1>. QED
  BY <1>1, <1>4, <1>5, <1>6, <1>7 DEF Holds

\* deallocate: the buffer knows its pages, so its mapping is freed.
LEMMA HoldsFewer ==
  ASSUME NEW H, NEW pg, NEW mp, Holds(H, pg, mp), NEW x \in Names,
         NEW G, SameBut(H, G, {x}), G[x] = NoBuffer
  PROVE  Holds(G, Freed(pg, H[x]), mp)
<1>. DEFINE pg2 == Freed(pg, H[x])
<1>0. pg = [m \in DOMAIN pg |-> pg[m]]
  BY DEF Holds
<1>1. /\ mp \in Nat /\ DOMAIN pg \in SUBSET (1 .. mp)
      /\ \A z \in Names : H[z].data \in Int
      /\ \A z \in Names : H[z].data > 0 => H[z].data \in DOMAIN pg /\ pg[H[z].data] = PagesOf(H[z])
      /\ \A m \in DOMAIN pg : \E z \in Names : H[z].data = m
      /\ \A z, w \in Names : H[z].data > 0 /\ H[z].data = H[w].data => z = w
  BY DEF Holds
<1>2. \A z \in Names : z # x => G[z] = H[z]
  BY DEF SameBut
<1>3. G[x].data = 0
  BY DEF NoBuffer, Buffer, NullData
<1>4. DOMAIN pg2 = DOMAIN pg \ {H[x].data} /\ \A m \in DOMAIN pg \ {H[x].data} : pg2[m] = pg[m]
  <2>1. CASE H[x].data > 0
    <3>1. pg2 = Without(pg, {H[x].data})
      BY <1>1, <2>1 DEF Freed
    <3>. QED
      BY <3>1 DEF Without, Restrict
  <2>2. CASE ~(H[x].data > 0)
    <3>1. H[x].data \notin DOMAIN pg
      BY <1>1, <2>2
    <3>. QED
      BY <3>1 DEF Freed
  <2>. QED
    BY <2>1, <2>2
<1>. HIDE DEF pg2
<1>5. \A z \in Names : G[z].data \in Int /\ (G[z].data > 0 => z # x)
  BY <1>1, <1>2, <1>3
<1>6. ASSUME NEW z \in Names, G[z].data > 0 PROVE G[z].data \in DOMAIN pg2 /\ pg2[G[z].data] = PagesOf(G[z])
  <2>1. z # x /\ G[z] = H[z]
    BY <1>2, <1>5, <1>6
  <2>2. H[z].data \in DOMAIN pg /\ pg[H[z].data] = PagesOf(H[z]) /\ H[z].data # H[x].data
    BY <1>1, <1>6, <2>1
  <2>. QED
    BY <1>4, <2>1, <2>2
<1>7. ASSUME NEW m \in DOMAIN pg2 PROVE \E z \in Names : G[z].data = m
  <2>1. m \in DOMAIN pg /\ m # H[x].data
    BY <1>4
  <2>2. PICK z \in Names : H[z].data = m
    BY <1>1, <2>1
  <2>. QED
    BY <1>2, <2>1, <2>2
<1>8. \A z, w \in Names : G[z].data > 0 /\ G[z].data = G[w].data => z = w
  <2>1. SUFFICES ASSUME NEW z \in Names, NEW w \in Names, G[z].data > 0, G[z].data = G[w].data PROVE z = w
    OBVIOUS
  <2>2. z # x /\ w # x /\ G[z] = H[z] /\ G[w] = H[w]
    BY <1>2, <1>5, <2>1
  <2>. QED
    BY <1>1, <2>1, <2>2
<1>9. DOMAIN pg2 \in SUBSET (1 .. mp)
  BY <1>1, <1>4
<1>10. pg2 = [m \in DOMAIN pg2 |-> pg2[m]]
  <2>1. CASE pg2 = pg
    BY <1>0, <2>1
  <2>2. CASE pg2 # pg
    BY <2>2 DEF pg2, Freed, Without, Restrict
  <2>. QED
    BY <2>1, <2>2
<1>. QED
  BY <1>1, <1>5, <1>6, <1>7, <1>8, <1>9, <1>10 DEF Holds, pg2

(***************************************************************************)
(* What has been acquired where setup and its client are.                  *)
(***************************************************************************)
Buffers(st, buf) == [x \in Names |-> IF x = "b" THEN buf ELSE st[x]]

Mapped == Holds(Buffers(s, b), pages, maps)

\* s has its fields; a file is open and its buffer in b while it is loaded.
Loading ==
  /\ DOMAIN s = DOMAIN Fresh
  /\ DOMAIN file = {"name", "len", "open"} /\ file.name \in {"json", "checksum"} /\ file.open \in BOOLEAN
  /\ step = "start" => file.name = "json"
  /\ file.open => step \in {"allocate", "read"}
  /\ step # "read" => b = NoBuffer
  /\ step = "read" => is_valid(b)

\* What is not yet allocated is not there.
Unset ==
  /\ step \in {"start", "open", "allocate", "read"} /\ file.name = "json" => s = Fresh
  /\ step \in {"open", "allocate", "read", "parse", "loaded"} => s.checksum = NoBuffer
  /\ step \in {"open", "allocate", "read", "parse", "loaded", "prepare"} => s.pairs = NoBuffer
  /\ step \in {"open", "allocate", "read", "parse", "loaded", "prepare", "answers"} => s.answers = NoBuffer

\* Before the parse and after the end no block is left but superseded arrays.
Emptied ==
  /\ step \in {"start", "open", "allocate", "read"} /\ file.name = "json" => DOMAIN heap = superseded
  /\ step = "exit" /\ outcome \notin {"crashed", "aborted"} => s = Fresh /\ DOMAIN heap = superseded

SetupInv == BlocksInv /\ Mapped /\ Loading /\ Unset /\ Emptied

\* cleanup_haversine_state frees what s holds.
LEMMA HoldsNone ==
  ASSUME NEW H, NEW pg, NEW mp, Holds(H, pg, mp), NEW G, G["b"] = H["b"],
         \A x \in Names \ {"b"} : G[x] = NoBuffer,
         NEW pg2, pg2 = Freed(Freed(Freed(Freed(pg, H["json"]), H["checksum"]), H["pairs"]), H["answers"])
  PROVE  Holds(G, pg2, mp)
<1>. DEFINE H1 == [x \in Names |-> IF x = "json" THEN NoBuffer ELSE H[x]]
            H2 == [x \in Names |-> IF x \in {"json", "checksum"} THEN NoBuffer ELSE H[x]]
            H3 == [x \in Names |-> IF x \in {"json", "checksum", "pairs"} THEN NoBuffer ELSE H[x]]
            P1 == Freed(pg, H["json"])
            P2 == Freed(P1, H["checksum"])
            P3 == Freed(P2, H["pairs"])
<1>1. /\ SameBut(H, H1, {"json"}) /\ H1["json"] = NoBuffer
      /\ SameBut(H1, H2, {"checksum"}) /\ H2["checksum"] = NoBuffer /\ H1["checksum"] = H["checksum"]
      /\ SameBut(H2, H3, {"pairs"}) /\ H3["pairs"] = NoBuffer /\ H2["pairs"] = H["pairs"]
      /\ SameBut(H3, G, {"answers"}) /\ G["answers"] = NoBuffer /\ H3["answers"] = H["answers"]
  BY DEF SameBut, Names
<1>2. /\ "json" \in Names /\ "checksum" \in Names /\ "pairs" \in Names /\ "answers" \in Names
  BY DEF Names
<1>. HIDE DEF H1, H2, H3
<1>3. Holds(H1, P1, mp)
  BY <1>1, <1>2, HoldsFewer
<1>. HIDE DEF P1
<1>4. Holds(H2, P2, mp)
  BY <1>1, <1>2, <1>3, HoldsFewer
<1>. HIDE DEF P2
<1>5. Holds(H3, P3, mp)
  BY <1>1, <1>2, <1>4, HoldsFewer
<1>. HIDE DEF P3
<1>6. Holds(G, Freed(P3, H["answers"]), mp)
  BY <1>1, <1>2, <1>5, HoldsFewer
<1>. QED
  BY <1>6 DEF P1, P2, P3

LEMMA CleanupSetup ==
  ASSUME SetupInv, step # "parse" \/ pc = "parsed", cleanup_haversine_state, b' = b
  PROVE  BlocksInv' /\ Mapped' /\ s' = Fresh /\ DOMAIN heap' = superseded'
<1>1. BlocksInv' /\ DOMAIN heap' = superseded'
  BY CleanedBlocks DEF SetupInv
<1>2. /\ s' = Fresh /\ maps' = maps
      /\ pages' = Freed(Freed(Freed(Freed(pages, s.json), s.checksum), s.pairs), s.answers)
  BY DEF cleanup_haversine_state
<1>. DEFINE H == Buffers(s, b)
            G == Buffers(s', b')
<1>3. /\ H["json"] = s.json /\ H["checksum"] = s.checksum /\ H["pairs"] = s.pairs /\ H["answers"] = s.answers
      /\ H["b"] = b /\ G["b"] = b
  BY DEF Buffers, Names
<1>4. \A x \in Names \ {"b"} : G[x] = NoBuffer
  BY <1>2 DEF Buffers, Names, Fresh
<1>5. Holds(H, pages, maps)
  BY DEF SetupInv, Mapped
<1>. HIDE DEF H, G
<1>6. Holds(G, pages', maps)
  BY <1>2, <1>3, <1>4, <1>5, HoldsNone
<1>. QED
  BY <1>1, <1>2, <1>6 DEF Mapped, G

\* What ends the program ends it with nothing left.
LEMMA ExitSetup ==
  ASSUME SetupInv, step # "parse" \/ pc = "parsed", step # "read", cleanup_haversine_state, step' \in {"open", "exit"},
         step' = "open" => step = "start", UNCHANGED <<file, b>>, ~file.open
  PROVE  SetupInv'
<1>1. BlocksInv' /\ Mapped' /\ s' = Fresh /\ DOMAIN heap' = superseded'
  BY CleanupSetup
<1>2. file' = file /\ b' = b /\ b = NoBuffer
  BY DEF SetupInv, Loading
<1>3. Loading'
  BY <1>1, <1>2 DEF SetupInv, Loading
<1>4. Unset' /\ Emptied'
  BY <1>1 DEF Unset, Emptied, Fresh
<1>. QED
  BY <1>1, <1>3, <1>4 DEF SetupInv

\* Where the heap is not touched.
LEMMA HeapSame == UNCHANGED vars => heap' = heap /\ superseded' = superseded
BY DEF vars

\* A step that acquires and frees nothing.
LEMMA QuietSetup ==
  ASSUME SetupInv, UNCHANGED vars, UNCHANGED <<pages, maps, b>>,
         step # "parse" \/ step' = "parse" \/ pc = "parsed",
         DOMAIN s' = DOMAIN s, \A x \in Names \ {"b"} : s'[x] = s[x],
         Loading', Unset', Emptied'
  PROVE  SetupInv'
<1>1. BlocksInv'
  BY SameBlocks DEF SetupInv
<1>2. Buffers(s', b') = Buffers(s, b) /\ pages' = pages /\ maps' = maps
  BY DEF Buffers, Names
<1>3. Mapped'
  BY <1>2 DEF SetupInv, Mapped
<1>. QED
  BY <1>1, <1>3 DEF SetupInv

\* load_entire_file has returned buf, which was in b or is none.
LEMMA LoadedSetup ==
  ASSUME SetupInv, step \in {"open", "read"}, UNCHANGED vars, NEW buf, Loaded(buf),
         Holds(Buffers(s', b'), pages', maps'), b' = NoBuffer, buf # NoBuffer => is_valid(buf),
         file' = file \/ file' = [file EXCEPT !.open = FALSE], ~file'.open
  PROVE  SetupInv'
<1>1. BlocksInv'
  BY SameBlocks DEF SetupInv
<1>2. /\ DOMAIN s = DOMAIN Fresh /\ DOMAIN file = {"name", "len", "open"} /\ file.name \in {"json", "checksum"}
      /\ file.name = "json" => s = Fresh /\ DOMAIN heap = superseded
      /\ s.checksum = NoBuffer /\ s.pairs = NoBuffer /\ s.answers = NoBuffer
  BY DEF SetupInv, Loading, Unset, Emptied
<1>3. /\ s' = [s EXCEPT ![file.name] = buf]
      /\ heap' = heap /\ superseded' = superseded
  BY HeapSame DEF Loaded
<1>4. file'.name = file.name /\ DOMAIN file' = DOMAIN file /\ file'.open = FALSE
  <2>1. file.open \in BOOLEAN
    BY DEF SetupInv, Loading
  <2>2. CASE file' = file
    BY <2>1, <2>2
  <2>3. CASE file' = [file EXCEPT !.open = FALSE]
    BY <1>2, <2>3
  <2>. QED
    BY <2>2, <2>3
<1>5. CASE step' = "exit"
  <2>1. file.name = "json" /\ buf = NoBuffer
    BY <1>2, <1>5 DEF Loaded
  <2>2. s' = Fresh
    <3>1. s' = [Fresh EXCEPT !["json"] = NoBuffer]
      BY <1>2, <1>3, <2>1
    <3>. QED
      BY <3>1 DEF Fresh
  <2>3. Loading'
    BY <1>2, <1>4, <1>5, <2>2 DEF Loading
  <2>4. Unset' /\ Emptied'
    BY <1>2, <1>3, <1>5, <2>1, <2>2 DEF Unset, Emptied
  <2>. QED
    BY <1>1, <2>3, <2>4 DEF SetupInv, Mapped
<1>6. CASE step' \in {"parse", "loaded"}
  <2>1. file.name = "json"
    BY <1>6 DEF Loaded
  <2>2. s'.checksum = NoBuffer /\ s'.pairs = NoBuffer /\ s'.answers = NoBuffer /\ DOMAIN s' = DOMAIN Fresh
    BY <1>2, <1>3, <2>1 DEF Fresh
  <2>3. Loading' /\ Unset' /\ Emptied'
    BY <1>2, <1>4, <1>6, <2>2 DEF Loading, Unset, Emptied
  <2>. QED
    BY <1>1, <2>3 DEF SetupInv, Mapped
<1>7. CASE step' = "prepare"
  <2>1. file.name = "checksum"
    BY <1>7 DEF Loaded
  <2>2. s'.pairs = NoBuffer /\ s'.answers = NoBuffer /\ DOMAIN s' = DOMAIN Fresh
    BY <1>2, <1>3, <2>1 DEF Fresh
  <2>3. Loading' /\ Unset' /\ Emptied'
    BY <1>2, <1>4, <1>7, <2>2 DEF Loading, Unset, Emptied
  <2>. QED
    BY <1>1, <2>3 DEF SetupInv, Mapped
<1>. QED
  BY <1>5, <1>6, <1>7 DEF Loaded

LEMMA OpenSetup ==
  ASSUME SetupInv, OpenFile
  PROVE  SetupInv'
<1>1. step = "open" /\ UNCHANGED vars /\ UNCHANGED <<pages, maps, b>> /\ b = NoBuffer /\ ~file.open
  BY DEF OpenFile, SetupInv, Loading
<1>2. ASSUME NEW len, file' = [file EXCEPT !.len = len, !.open = TRUE], step' = "allocate", UNCHANGED s
      PROVE  SetupInv'
  <2>1. DOMAIN file' = DOMAIN file /\ file'.name = file.name /\ file'.open = TRUE
    BY <1>2 DEF SetupInv, Loading
  <2>2. Loading'
    BY <1>1, <1>2, <2>1 DEF SetupInv, Loading
  <2>3. heap' = heap /\ superseded' = superseded
    BY <1>1, HeapSame
  <2>4. Unset' /\ Emptied'
    BY <1>1, <1>2, <2>1, <2>3 DEF SetupInv, Unset, Emptied
  <2>. QED
    BY <1>1, <1>2, <2>2, <2>4, QuietSetup
<1>3. ASSUME Loaded(NoBuffer), UNCHANGED file
      PROVE  SetupInv'
  <2>1. \A x \in Names : Buffers(s', b')[x] = Buffers(s, b)[x]
    <3>1. file.name = "json" => s = Fresh
      BY <1>1 DEF SetupInv, Unset
    <3>2. s.checksum = NoBuffer /\ DOMAIN s = DOMAIN Fresh /\ file.name \in {"json", "checksum"}
      BY <1>1 DEF SetupInv, Unset, Loading
    <3>3. s' = [s EXCEPT ![file.name] = NoBuffer]
      BY <1>3 DEF Loaded
    <3>4. s[file.name] = NoBuffer
      BY <3>1, <3>2 DEF Fresh
    <3>5. \A x \in DOMAIN Fresh : s'[x] = s[x]
      BY <3>2, <3>3, <3>4
    <3>. QED
      BY <1>1, <3>5 DEF Buffers, Names, Fresh
  <2>2. Buffers(s', b') = Buffers(s, b)
    BY <2>1 DEF Buffers
  <2>3. Holds(Buffers(s', b'), pages', maps')
    BY <1>1, <2>2 DEF SetupInv, Mapped
  <2>. QED
    BY <1>1, <1>3, <2>3, LoadedSetup
<1>. QED
  BY <1>2, <1>3 DEF OpenFile

LEMMA HoldsAllocated ==
  ASSUME NEW H, NEW pg, NEW mp, Holds(H, pg, mp), NEW x \in Names, ~(H[x].data > 0),
         NEW G, SameBut(H, G, {x}), NEW buf, G[x] = buf,
         \/ buf.data = MapFailed
         \/ buf.data = mp + 1,
         NEW pg2, pg2 = IF buf.data = MapFailed THEN pg ELSE With(pg, buf.data, PagesOf(buf)),
         NEW mp2, mp2 = IF buf.data = MapFailed THEN mp ELSE mp + 1
  PROVE  Holds(G, pg2, mp2)
<1>1. mp + 1 # MapFailed
  BY DEF Holds, MapFailed
<1>2. \/ G[x].data = MapFailed /\ pg2 = pg /\ mp2 = mp
      \/ G[x].data = mp + 1 /\ pg2 = With(pg, mp + 1, PagesOf(G[x])) /\ mp2 = mp + 1
  BY <1>1
<1>. QED
  BY <1>2, HoldsMore

\* What allocate_best returns.
LEMMA AllocatedIs ==
  ASSUME maps \in Nat, NEW len, NEW buf \in Allocated(len)
  PROVE  (buf.data = MapFailed \/ buf.data = maps + 1) /\ is_valid(buf)
BY DEF Allocated, Buffer, MapFailed, NullData, is_valid

LEMMA AllocateSetup ==
  ASSUME SetupInv, AllocateForFile
  PROVE  SetupInv'
<1>1. /\ step = "allocate" /\ step' = "read" /\ b' \in Allocated(file.len) /\ Map(b') /\ UNCHANGED vars
      /\ file' = file /\ s' = s /\ b = NoBuffer
  BY DEF AllocateForFile, SetupInv, Loading
<1>2. maps \in Nat /\ Holds(Buffers(s, b), pages, maps)
  BY DEF SetupInv, Mapped, Holds
<1>3. (b'.data = MapFailed \/ b'.data = maps + 1) /\ is_valid(b')
  BY <1>1, <1>2, AllocatedIs
<1>. DEFINE H == Buffers(s, b)
            G == Buffers(s', b')
<1>4. SameBut(H, G, {"b"}) /\ G["b"] = b' /\ "b" \in Names /\ ~(H["b"].data > 0)
  BY <1>1 DEF SameBut, Buffers, Names, NoBuffer, Buffer, NullData
<1>5. /\ pages' = IF b'.data = MapFailed THEN pages ELSE With(pages, b'.data, PagesOf(b'))
      /\ maps' = IF b'.data = MapFailed THEN maps ELSE maps + 1
  BY <1>1 DEF Map
<1>. HIDE DEF H, G
<1>6. Holds(G, pages', maps')
  BY <1>2, <1>3, <1>4, <1>5, HoldsAllocated DEF H
<1>7. BlocksInv'
  BY <1>1, SameBlocks DEF SetupInv
<1>8. heap' = heap /\ superseded' = superseded
  BY <1>1, HeapSame
<1>9. Loading' /\ Unset' /\ Emptied'
  BY <1>1, <1>3, <1>8 DEF SetupInv, Loading, Unset, Emptied, is_valid
<1>. QED
  BY <1>6, <1>7, <1>9 DEF SetupInv, Mapped, G

LEMMA ReadSetup ==
  ASSUME SetupInv, ReadFile
  PROVE  SetupInv'
<1>1. /\ step = "read" /\ UNCHANGED vars /\ maps' = maps /\ b' = NoBuffer /\ file' = [file EXCEPT !.open = FALSE]
      /\ \/ Loaded(b) /\ pages' = pages
         \/ pages' = Freed(pages, b) /\ Loaded(NoBuffer)
  BY DEF ReadFile, FreeOnShortRead
<1>2. /\ DOMAIN s = DOMAIN Fresh /\ file.name \in {"json", "checksum"} /\ is_valid(b)
      /\ file.name = "json" => s = Fresh
      /\ s.checksum = NoBuffer
      /\ ~file'.open
  <2>1. DOMAIN file = {"name", "len", "open"}
    BY DEF SetupInv, Loading
  <2>. QED
    BY <1>1, <2>1 DEF SetupInv, Loading, Unset
<1>3. s[file.name] = NoBuffer /\ file.name \in DOMAIN s /\ file.name \in Names \ {"b"}
  BY <1>2 DEF Fresh, Names
<1>. DEFINE H == Buffers(s, b)
            G == Buffers(s', b')
            n == file.name
<1>4. Holds(H, pages, maps)
  BY DEF SetupInv, Mapped
<1>5. H["b"] = b /\ G["b"] = NoBuffer /\ H[n] = NoBuffer /\ "b" \in Names
  BY <1>1, <1>3 DEF Buffers, Names
<1>6. CASE Loaded(b) /\ pages' = pages
  <2>1. s' = [s EXCEPT ![file.name] = b]
    BY <1>6 DEF Loaded
  <2>2. G[n] = b /\ SameBut(H, G, {"b", n})
    <3>1. \A x \in Names \ {"b", n} : s'[x] = s[x]
      BY <1>2, <2>1
    <3>2. s'[n] = b
      BY <1>3, <2>1
    <3>. QED
      BY <1>3, <3>1, <3>2 DEF SameBut, Buffers
  <2>3. ~(H[n].data > 0) /\ n \in Names /\ "b" # n
    BY <1>3, <1>5 DEF NoBuffer, Buffer, NullData
  <2>. HIDE DEF H, G, n
  <2>4. Holds(G, pages', maps')
    BY <1>1, <1>4, <1>5, <1>6, <2>2, <2>3, HoldsMoved
  <2>. QED
    BY <1>1, <1>2, <1>6, <2>4, LoadedSetup DEF G
<1>7. CASE pages' = Freed(pages, b) /\ Loaded(NoBuffer)
  <2>1. s' = [s EXCEPT ![file.name] = NoBuffer]
    BY <1>7 DEF Loaded
  <2>2. \A x \in Names \ {"b"} : s'[x] = s[x]
    BY <1>2, <1>3, <2>1
  <2>3. SameBut(H, G, {"b"})
    BY <2>2 DEF SameBut, Buffers
  <2>. HIDE DEF H, G, n
  <2>4. Holds(G, pages', maps')
    BY <1>1, <1>4, <1>5, <1>7, <2>3, HoldsFewer
  <2>. QED
    BY <1>1, <1>2, <1>7, <2>4, LoadedSetup DEF G
<1>. QED
  BY <1>1, <1>6, <1>7

LEMMA RejectSetup ==
  ASSUME SetupInv, step # "parse" \/ pc = "parsed", step \notin {"allocate", "read", "start"}, Reject
  PROVE  SetupInv'
<1>1. ~file.open
  BY DEF SetupInv, Loading
<1>. QED
  BY <1>1, ExitSetup DEF Reject

LEMMA RootSetup ==
  ASSUME SetupInv, CheckRoot
  PROVE  SetupInv'
<1>1. step = "parse" /\ pc = "parsed"
  BY DEF CheckRoot
<1>2. CASE Reject
  BY <1>1, <1>2, RejectSetup
<1>3. ASSUME NEW n, s' = [s EXCEPT !.pair_cnt = n], file' = [name |-> "checksum", len |-> 0, open |-> FALSE],
             step' = "open", UNCHANGED <<vars, pages, maps, b, denied, outcome>>
      PROVE  SetupInv'
  <2>1. DOMAIN s' = DOMAIN s /\ \A x \in Names \ {"b"} : s'[x] = s[x]
    BY <1>3 DEF SetupInv, Loading, Fresh, Names
  <2>2. DOMAIN s = DOMAIN Fresh /\ b = NoBuffer /\ s.checksum = NoBuffer /\ s.pairs = NoBuffer /\ s.answers = NoBuffer
    BY <1>1 DEF SetupInv, Loading, Unset
  <2>3. file'.name = "checksum" /\ ~file'.open /\ DOMAIN file' = {"name", "len", "open"} /\ file'.open \in BOOLEAN
    BY <1>3
  <2>4. s'.checksum = NoBuffer /\ s'.pairs = NoBuffer /\ s'.answers = NoBuffer
    BY <2>1, <2>2 DEF Names
  <2>5. Loading'
    BY <1>3, <2>1, <2>2, <2>3 DEF Loading
  <2>6. Unset' /\ Emptied'
    BY <1>3, <2>3, <2>4 DEF Unset, Emptied
  <2>. QED
    BY <1>1, <1>3, <2>1, <2>5, <2>6, QuietSetup
<1>. QED
  BY <1>2, <1>3 DEF CheckRoot

LEMMA FieldSetup ==
  ASSUME SetupInv, NEW f, NEW len, NEW nx, AllocateField(f, len, nx),
         \/ step = "prepare" /\ f = "pairs" /\ nx = "answers"
         \/ step = "answers" /\ f = "answers" /\ nx = "checksum"
  PROVE  SetupInv'
<1>1. PICK buf \in Allocated(len) : Map(buf) /\ s' = [s EXCEPT ![f] = buf]
  BY DEF AllocateField
<1>2. UNCHANGED vars /\ file' = file /\ b' = b /\ step' = nx
  BY DEF AllocateField
<1>3. maps \in Nat /\ Holds(Buffers(s, b), pages, maps)
  BY DEF SetupInv, Mapped, Holds
<1>4. (buf.data = MapFailed \/ buf.data = maps + 1) /\ is_valid(buf)
  BY <1>3, AllocatedIs
<1>. DEFINE H == Buffers(s, b)
            G == Buffers(s', b')
<1>5. DOMAIN s = DOMAIN Fresh /\ s[f] = NoBuffer /\ f \in Names \ {"b"} /\ f \in DOMAIN s
  BY DEF SetupInv, Loading, Unset, Names, Fresh
<1>6. SameBut(H, G, {f}) /\ G[f] = buf /\ ~(H[f].data > 0)
  <2>1. s'[f] = buf /\ \A x \in Names \ {"b", f} : s'[x] = s[x]
    BY <1>1, <1>5
  <2>. QED
    BY <1>2, <1>5, <2>1 DEF SameBut, Buffers, NoBuffer, Buffer, NullData
<1>7. /\ pages' = IF buf.data = MapFailed THEN pages ELSE With(pages, buf.data, PagesOf(buf))
      /\ maps' = IF buf.data = MapFailed THEN maps ELSE maps + 1
  BY <1>1 DEF Map
<1>. HIDE DEF H, G
<1>8. Holds(G, pages', maps')
  BY <1>3, <1>4, <1>5, <1>6, <1>7, HoldsAllocated DEF H
<1>9. BlocksInv'
  BY <1>2, SameBlocks DEF SetupInv
<1>10. Loading'
  BY <1>1, <1>2, <1>5 DEF SetupInv, Loading
<1>11. step' \notin {"start", "open", "allocate", "read", "parse", "loaded", "prepare", "exit"}
  BY <1>2
<1>12. step' = "answers" => s'.answers = NoBuffer
  BY <1>1, <1>2, <1>5 DEF SetupInv, Unset, Fresh
<1>13. Unset' /\ Emptied'
  BY <1>11, <1>12 DEF Unset, Emptied
<1>. QED
  BY <1>8, <1>9, <1>10, <1>13 DEF SetupInv, Mapped, G

\* The steps after the last allocation, until the end.
After == {"checksum", "elements", "ready", "validate", "finish"}

LEMMA AfterSetup ==
  ASSUME SetupInv, step \in After, UNCHANGED <<vars, pages, maps, file, b>>,
         DOMAIN s' = DOMAIN s, \A x \in Names \ {"b"} : s'[x] = s[x],
         \/ step' \in After
         \/ step' = "exit" /\ outcome' \in {"crashed", "aborted"}
  PROVE  SetupInv'
<1>1. step' \notin {"start", "open", "allocate", "read", "parse", "loaded", "prepare", "answers"} /\ step # "parse"
      /\ step \notin {"allocate", "read"} /\ b' = b /\ file' = file
  BY DEF After
<1>2. Loading'
  BY <1>1 DEF SetupInv, Loading
<1>3. Unset' /\ Emptied'
  BY <1>1 DEF Unset, Emptied, After
<1>. QED
  BY <1>1, <1>2, <1>3, QuietSetup

LEMMA SetupStep ==
  ASSUME SetupInv, [Next]_allvars
  PROVE  SetupInv'
<1>1. CASE Start
  <2>1. ~file.open
    BY <1>1 DEF Start, SetupInv, Loading
  <2>. QED
    BY <1>1, <2>1, ExitSetup DEF Start
<1>2. CASE ParseFile
  <2>1. BlocksInv'
    <3>1. Blocks'
      BY <1>2, ParseBlocks DEF ParseFile, SetupInv, BlocksInv
    <3>. QED
      BY <1>2, <3>1 DEF ParseFile, hvars, BlocksInv, Outside
  <2>2. step = "parse" /\ step' = step /\ pages' = pages /\ maps' = maps /\ file' = file /\ b' = b /\ s' = s
    BY <1>2 DEF ParseFile, hvars
  <2>3. Mapped' /\ Loading' /\ Unset' /\ Emptied'
    BY <2>2 DEF SetupInv, Mapped, Loading, Unset, Emptied
  <2>. QED
    BY <2>1, <2>3 DEF SetupInv
<1>3. CASE AllocatePairs \/ AllocateAnswers
  BY <1>3, FieldSetup DEF AllocatePairs, AllocateAnswers
<1>4. CASE CheckChecksum
  <2>1. CASE Reject
    BY <1>4, <2>1, RejectSetup DEF CheckChecksum
  <2>2. CASE /\ s' = [s EXCEPT !.validation = is_valid(s.checksum)] /\ step' = "elements"
             /\ UNCHANGED <<vars, pages, maps, file, b, denied, outcome>>
    <3>1. DOMAIN s' = DOMAIN s /\ \A x \in Names \ {"b"} : s'[x] = s[x]
      BY <2>2 DEF SetupInv, Loading, Fresh, Names
    <3>. QED
      BY <1>4, <2>2, <3>1, AfterSetup DEF CheckChecksum, After
  <2>. QED
    BY <1>4, <2>1, <2>2 DEF CheckChecksum
<1>5. CASE ReadPoint
  <2>1. step = "elements" /\ step \in After
    BY <1>5 DEF ReadPoint, After
  <2>2. CASE Reject
    BY <2>1, <2>2, RejectSetup
  <2>3. CASE Die("crashed")
    BY <2>1, <2>3, AfterSetup DEF Die
  <2>4. ASSUME NEW p, s' = [s EXCEPT !.points = Append(@, p)],
               UNCHANGED <<vars, pages, maps, file, b, step, denied, outcome>>
        PROVE  SetupInv'
    <3>1. DOMAIN s' = DOMAIN s /\ \A x \in Names \ {"b"} : s'[x] = s[x]
      BY <2>4 DEF SetupInv, Loading, Fresh, Names
    <3>. QED
      BY <2>1, <2>4, <3>1, AfterSetup
  <2>. QED
    BY <1>5, <2>2, <2>3, <2>4 DEF ReadPoint
<1>6. CASE SetupReturns
  BY <1>6, AfterSetup DEF SetupReturns, After
<1>7. CASE Calculate
  BY <1>7, AfterSetup DEF Calculate, Die, After
<1>8. CASE Validate
  BY <1>8, AfterSetup DEF Validate, Die, After
<1>9. CASE Finish
  <2>1. ~file.open
    BY <1>9 DEF Finish, SetupInv, Loading
  <2>. QED
    BY <1>9, <2>1, ExitSetup DEF Finish
<1>10. CASE UNCHANGED allvars
  <2>1. /\ pages' = pages /\ maps' = maps /\ file' = file /\ b' = b /\ s' = s /\ step' = step /\ outcome' = outcome
        /\ UNCHANGED vars
    BY <1>10 DEF allvars, hvars
  <2>2. heap' = heap /\ superseded' = superseded
    BY <2>1, HeapSame
  <2>3. BlocksInv'
    BY <2>1, SameBlocks DEF SetupInv
  <2>. QED
    BY <2>1, <2>2, <2>3 DEF SetupInv, Mapped, Loading, Unset, Emptied
<1>. QED
  BY <1>1, <1>2, <1>3, <1>4, <1>5, <1>6, <1>7, <1>8, <1>9, <1>10,
     OpenSetup, AllocateSetup, ReadSetup, RootSetup, Zenon DEF Next, Run, Terminating

LEMMA SetupStart == StateInit => SetupInv
<1>. SUFFICES ASSUME StateInit PROVE SetupInv
  OBVIOUS
<1>1. /\ pages = [m \in {} |-> "regular"] /\ maps = 0 /\ file = [name |-> "json", len |-> 0, open |-> FALSE]
      /\ b = NoBuffer /\ s = Fresh /\ step = "start" /\ outcome = "none" /\ DOMAIN heap = {} /\ superseded = {}
  BY DEF StateInit, Init
<1>2. \A x \in Names : Buffers(s, b)[x].data = 0
  BY <1>1 DEF Names, Buffers, Fresh, NoBuffer, Buffer, NullData
<1>3. Mapped
  BY <1>1, <1>2 DEF Mapped, Holds
<1>4. Loading /\ Unset /\ Emptied
  BY <1>1 DEF Loading, Unset, Emptied, Fresh
<1>. QED
  BY <1>3, <1>4, BlocksStart DEF SetupInv

\* At every step of setup_haversine_state and its client a mapping is held
\* once, by the buffer that knows its pages, and fields that were not yet
\* filled are empty, whatever open, mmap and read did before.
THEOREM SetupIsRight == Spec => []SetupInv
<1>1. SetupInv /\ [Next]_allvars => SetupInv'
  BY SetupStep
<1>. QED
  BY <1>1, SetupStart, PTL DEF Spec

\* What is held nowhere is not there.
LEMMA SetupReleasesOnce == SetupInv => ReleasedOnce
<1>. SUFFICES ASSUME SetupInv PROVE ReleasedOnce
  OBVIOUS
<1>. DEFINE holders == [h \in Held \cup {"b"} |-> IF h = "b" THEN b ELSE s[h]]
<1>1. holders = Buffers(s, b) /\ DOMAIN holders = Names
  BY DEF Held, Buffers, Names
<1>2. Holds(holders, pages, maps)
  BY <1>1 DEF SetupInv, Mapped
<1>. HIDE DEF holders
<1>3. ASSUME NEW m \in DOMAIN pages
      PROVE  Cardinality({h \in DOMAIN holders : holders[h].data = m /\ PagesOf(holders[h]) = pages[m]}) = 1
  <2>1. PICK x \in Names : holders[x].data = m
    BY <1>2 DEF Holds
  <2>2. m > 0
    BY <1>2 DEF Holds
  <2>3. {h \in DOMAIN holders : holders[h].data = m /\ PagesOf(holders[h]) = pages[m]} = {x}
    BY <1>1, <1>2, <2>1, <2>2 DEF Holds
  <2>. QED
    BY <2>3, FS_Singleton
<1>4. \A h \in DOMAIN holders : holders[h].data > 0 => holders[h].data \in DOMAIN pages
  BY <1>1, <1>2 DEF Holds
<1>5. ASSUME step = "exit", outcome \notin {"crashed", "aborted"}
      PROVE  pages = <<>> /\ ~file.open /\ DOMAIN heap = superseded /\ s = Fresh
  <2>1. s = Fresh /\ DOMAIN heap = superseded /\ b = NoBuffer /\ ~file.open
    BY <1>5 DEF SetupInv, Emptied, Loading
  <2>2. \A x \in Names : holders[x].data = 0
    BY <1>1, <2>1 DEF Names, Buffers, Fresh, NoBuffer, Buffer, NullData
  <2>3. DOMAIN pages = {}
    BY <1>2, <2>2 DEF Holds
  <2>4. pages = [m \in {} |-> pages[m]]
    BY <1>2, <2>3 DEF Holds
  <2>5. <<>> = [m \in {} |-> pages[m]]
    OBVIOUS
  <2>. QED
    BY <2>1, <2>4, <2>5
<1>. QED
  BY <1>3, <1>4, <1>5 DEF ReleasedOnce, holders

\* Each mapping belongs to one buffer, and a program that ends by itself, on
\* any error path of setup_haversine_state or after the last cleanup, leaves no
\* mapping, no open file, and no block but arrays that growing replaced.
THEOREM EverythingIsReleased == Spec => []ReleasedOnce
BY SetupIsRight, SetupReleasesOnce, PTL

(***************************************************************************)
(* The grammar.                                                            *)
(***************************************************************************)
\* The part x of w, from a to b, by the rules, where R has what is derived.
ByRules(w, R, x, a, b1) ==
  \/ /\ x = "entity"
     /\ \/ a = b1 /\ w[a] \in Literals \cup Strings
        \/ a < b1 /\ w[a] = "lbrace" /\ w[b1] = "rbrace" /\ <<"fields", a + 1, b1 - 1>> \in R
        \/ a < b1 /\ w[a] = "lsqbracket" /\ w[b1] = "rsqbracket" /\ <<"elements", a + 1, b1 - 1>> \in R
  \/ x \in {"fields", "elements"} /\ a > b1
  \/ /\ x = "fields"
     /\ a + 2 <= b1 /\ w[a] \in Strings /\ w[a + 1] = "colon"
     /\ \E k \in a + 2 .. b1 :
          /\ k < b1 => w[k + 1] = "comma"
          /\ <<"entity", a + 2, k>> \in R /\ <<"fields", k + 2, b1>> \in R
  \/ /\ x = "elements"
     /\ \E k \in a .. b1 :
          /\ k < b1 => w[k + 1] = "comma"
          /\ <<"entity", a, k>> \in R /\ <<"elements", k + 2, b1>> \in R

Rules(w, R) == \A x \in {"entity", "fields", "elements"}, a \in 1 .. Len(w) + 2, b1 \in 0 .. Len(w) :
                 <<x, a, b1>> \in R <=> ByRules(w, R, x, a, b1)

LEMMA RulesMonotone ==
  ASSUME NEW w, NEW R, NEW S, R \subseteq S, NEW x, NEW a, NEW b1, ByRules(w, R, x, a, b1)
  PROVE  ByRules(w, S, x, a, b1)
BY Zenon DEF ByRules

\* There is a set that follows the rules: what is in every set closed under them.
LEMMA RulesExist ==
  ASSUME NEW w
  PROVE  \E R \in SUBSET Parts(w) : Rules(w, R)
<1>. DEFINE P == Parts(w)
            Closed(S) == \A p \in P : ByRules(w, S, p[1], p[2], p[3]) => p \in S
            R == {p \in P : \A S \in SUBSET P : Closed(S) => p \in S}
            Q == {p \in P : ByRules(w, R, p[1], p[2], p[3])}
<1>1. R \in SUBSET P /\ Q \in SUBSET P
  OBVIOUS
<1>2. \A S \in SUBSET P : Closed(S) => R \subseteq S
  <2>. HIDE DEF P, Closed
  <2>. QED
    OBVIOUS
<1>3. \A p \in P : (\A S \in SUBSET P : Closed(S) => p \in S) => p \in R
  <2>. HIDE DEF P, Closed
  <2>. QED
    OBVIOUS
<1>4. \A p \in P : p \in Q <=> ByRules(w, R, p[1], p[2], p[3])
  <2>. HIDE DEF P, R
  <2>. QED
    OBVIOUS
<1>. HIDE DEF R, Q
<1>5. Q \subseteq R
  <2>1. ASSUME NEW p \in P, p \in Q, NEW S \in SUBSET P, Closed(S) PROVE p \in S
    <3>1. R \subseteq S
      BY <1>2, <2>1
    <3>2. ByRules(w, R, p[1], p[2], p[3])
      BY <1>4, <2>1
    <3>3. ByRules(w, S, p[1], p[2], p[3])
      BY ONLY <3>1, <3>2, RulesMonotone, Zenon
    <3>. QED
      BY <2>1, <3>3
  <2>. HIDE DEF Closed
  <2>. QED
    BY <1>1, <1>3, <2>1
<1>6. Closed(Q)
  <2>1. ASSUME NEW p \in P, ByRules(w, Q, p[1], p[2], p[3]) PROVE p \in Q
    <3>1. ByRules(w, R, p[1], p[2], p[3])
      BY ONLY <1>5, <2>1, RulesMonotone, Zenon
    <3>. QED
      BY <1>4, <3>1
  <2>. QED
    BY <2>1
<1>7. R \subseteq Q
  BY <1>1, <1>2, <1>6
<1>8. Rules(w, R)
  <2>1. ASSUME NEW x \in {"entity", "fields", "elements"}, NEW a \in 1 .. Len(w) + 2, NEW b1 \in 0 .. Len(w)
        PROVE  <<x, a, b1>> \in R <=> ByRules(w, R, x, a, b1)
    <3>. DEFINE p == <<x, a, b1>>
    <3>1. p \in P /\ p[1] = x /\ p[2] = a /\ p[3] = b1
      BY DEF Parts
    <3>. HIDE DEF p, P
    <3>2. p \in R <=> p \in Q
      BY <1>5, <1>7
    <3>3. p \in Q <=> ByRules(w, R, x, a, b1)
      BY <1>4, <3>1, Zenon
    <3>. QED
      BY <3>2, <3>3 DEF p
  <2>. QED
    BY <2>1, Zenon DEF Rules
<1>. QED
  BY <1>1, <1>8

\* D gives what R has.
Same(w, D, R) == \A x \in {"entity", "fields", "elements"}, a \in 1 .. Len(w) + 2, b1 \in 0 .. Len(w) :
                   D[<<x, a, b1>>] <=> <<x, a, b1>> \in R

LEMMA RuleIs ==
  ASSUME NEW w, Len(w) \in Nat, NEW D, NEW R, Same(w, D, R),
         NEW x \in {"entity", "fields", "elements"}, NEW a \in 1 .. Len(w) + 2, NEW b1 \in 0 .. Len(w)
  PROVE  ByRule(w, D, <<x, a, b1>>) <=> ByRules(w, R, x, a, b1)
<1>1. ASSUME a < b1
      PROVE  /\ D[<<"fields", a + 1, b1 - 1>>] <=> <<"fields", a + 1, b1 - 1>> \in R
             /\ D[<<"elements", a + 1, b1 - 1>>] <=> <<"elements", a + 1, b1 - 1>> \in R
  <2>1. a + 1 \in 1 .. Len(w) + 2 /\ b1 - 1 \in 0 .. Len(w)
    BY <1>1
  <2>. QED
    BY <2>1, Zenon DEF Same
<1>2. ASSUME NEW k \in a .. b1
      PROVE  /\ D[<<"entity", a, k>>] <=> <<"entity", a, k>> \in R
             /\ D[<<"elements", k + 2, b1>>] <=> <<"elements", k + 2, b1>> \in R
             /\ D[<<"fields", k + 2, b1>>] <=> <<"fields", k + 2, b1>> \in R
             /\ a + 2 <= k => (D[<<"entity", a + 2, k>>] <=> <<"entity", a + 2, k>> \in R)
  <2>1. k + 2 \in 1 .. Len(w) + 2 /\ k \in 0 .. Len(w) /\ (a + 2 <= k => a + 2 \in 1 .. Len(w) + 2)
    BY <1>2
  <2>. QED
    BY <2>1, Zenon DEF Same
<1>3. \A k \in a + 2 .. b1 : k \in a .. b1 /\ a + 2 <= k
  OBVIOUS
<1>. DEFINE p == <<x, a, b1>>
<1>4. p[1] = x /\ p[2] = a /\ p[3] = b1
  OBVIOUS
<1>. HIDE DEF p
<1>5. CASE x = "entity"
  BY <1>1, <1>4, <1>5 DEF ByRule, ByRules
<1>6. CASE x = "fields"
  BY <1>2, <1>3, <1>4, <1>6 DEF ByRule, ByRules
<1>7. CASE x = "elements"
  BY <1>2, <1>4, <1>7 DEF ByRule, ByRules
<1>. QED
  BY <1>5, <1>6, <1>7 DEF p

LEMMA DerivesByRules ==
  ASSUME NEW w, Len(w) \in Nat
  PROVE  \E R : /\ Rules(w, R)
                /\ \A x \in {"entity", "fields", "elements"}, a \in 1 .. Len(w) + 2, b1 \in 0 .. Len(w) :
                     Derives(x, w, a, b1) <=> <<x, a, b1>> \in R
<1>. DEFINE P == Parts(w)
            Is(D) == D = [part \in P |-> ByRule(w, D, part)]
            D0 == CHOOSE D : Is(D)
<1>1. ASSUME NEW x, NEW a, NEW b1 PROVE Derives(x, w, a, b1) = D0[<<x, a, b1>>]
  BY Zenon DEF Derives
<1>2. ASSUME NEW x \in {"entity", "fields", "elements"}, NEW a \in 1 .. Len(w) + 2, NEW b1 \in 0 .. Len(w)
      PROVE  <<x, a, b1>> \in P
  BY DEF Parts
<1>3. \E D : Is(D)
  <2>1. PICK R : Rules(w, R)
    BY RulesExist
  <2>. DEFINE D == [part \in P |-> part \in R]
  <2>2. Same(w, D, R)
    BY <1>2 DEF Same
  <2>3. ASSUME NEW part \in P PROVE D[part] = ByRule(w, D, part)
    <3>1. PICK x \in {"entity", "fields", "elements"}, a \in 1 .. Len(w) + 2, b1 \in 0 .. Len(w) :
            part = <<x, a, b1>>
      BY <2>3 DEF Parts
    <3>2. D[part] <=> <<x, a, b1>> \in R
      BY <3>1
    <3>3. D[part] \in BOOLEAN
      OBVIOUS
    <3>. HIDE DEF D
    <3>4. ByRule(w, D, <<x, a, b1>>) <=> ByRules(w, R, x, a, b1)
      BY ONLY <2>2, Len(w) \in Nat, RuleIs
    <3>5. <<x, a, b1>> \in R <=> ByRules(w, R, x, a, b1)
      BY <2>1, Zenon DEF Rules
    <3>6. ByRule(w, D, part) \in BOOLEAN
      BY Zenon DEF ByRule
    <3>. QED
      BY <3>1, <3>2, <3>3, <3>4, <3>5, <3>6, Zenon
  <2>4. D = [part \in P |-> D[part]]
    OBVIOUS
  <2>. HIDE DEF D
  <2>. QED
    BY <2>3, <2>4, Zenon
<1>4. Is(D0)
  <2>. HIDE DEF Is
  <2>. QED
    BY <1>3, Zenon
<1>. DEFINE R == {p \in P : D0[p]}
<1>5. \A p \in P : D0[p] = ByRule(w, D0, p)
  <2>. HIDE DEF D0, P
  <2>. QED
    BY <1>4, Zenon
<1>6. \A p \in P : p \in R <=> D0[p]
  <2>. HIDE DEF D0, P
  <2>. QED
    OBVIOUS
<1>. HIDE DEF D0, R
<1>7. Same(w, D0, R)
  BY <1>2, <1>6, Zenon DEF Same
<1>8. Rules(w, R)
  <2>1. ASSUME NEW x \in {"entity", "fields", "elements"}, NEW a \in 1 .. Len(w) + 2, NEW b1 \in 0 .. Len(w)
        PROVE  <<x, a, b1>> \in R <=> ByRules(w, R, x, a, b1)
    <3>1. ByRule(w, D0, <<x, a, b1>>) <=> ByRules(w, R, x, a, b1)
      BY ONLY <1>7, Len(w) \in Nat, RuleIs
    <3>2. <<x, a, b1>> \in P
      BY <1>2
    <3>. QED
      BY <1>5, <1>6, <3>1, <3>2, Zenon
  <2>. QED
    BY <2>1, Zenon DEF Rules
<1>9. ASSUME NEW x \in {"entity", "fields", "elements"}, NEW a \in 1 .. Len(w) + 2, NEW b1 \in 0 .. Len(w)
      PROVE  Derives(x, w, a, b1) <=> <<x, a, b1>> \in R
  <2>1. D0[<<x, a, b1>>] <=> <<x, a, b1>> \in R
    BY <1>2, <1>6, Zenon
  <2>2. Derives(x, w, a, b1) = D0[<<x, a, b1>>]
    BY <1>1
  <2>. QED
    BY ONLY <2>1, <2>2
<1>. QED
  BY <1>8, <1>9, Zenon

Kinds == {"object", "array"}
Opener(kind) == IF kind = "object" THEN "lbrace" ELSE "lsqbracket"
Closer(kind) == IF kind = "object" THEN "rbrace" ELSE "rsqbracket"
ListOf(kind) == IF kind = "object" THEN "fields" ELSE "elements"

\* An item of a list of the kind ends at k: the list that is closed at e goes on.
Follows(w, k, kind, e) ==
  /\ k < e
  /\ k + 1 < e => w[k + 1] = "comma"
  /\ Derives(ListOf(kind), w, k + 2, e - 1)

\* After L comes a list of items up to its closing bracket at e; the value of
\* an item and what follows it; a colon and a value.
ItemAt(w, L, kind, e) == Derives(ListOf(kind), w, L + 1, e - 1)
ValueAt(w, L, kind, e) == \E k \in L + 1 .. e - 1 : Derives("entity", w, L + 1, k) /\ Follows(w, k, kind, e)
ColonAt(w, L, kind, e) == L + 1 < e /\ w[L + 1] = "colon" /\ ValueAt(w, L + 1, kind, e)

LEMMA EntityIs ==
  ASSUME NEW w \in Seq(Tokens), NEW a \in 1 .. Len(w), NEW b1 \in 0 .. Len(w)
  PROVE  Derives("entity", w, a, b1)
         <=> \/ a = b1 /\ w[a] \in Literals \cup Strings
             \/ \E kind \in Kinds : /\ a < b1 /\ w[a] = Opener(kind) /\ w[b1] = Closer(kind)
                                    /\ Derives(ListOf(kind), w, a + 1, b1 - 1)
<1>1. Len(w) \in Nat
  OBVIOUS
<1>2. PICK R : /\ Rules(w, R)
               /\ \A x \in {"entity", "fields", "elements"}, c \in 1 .. Len(w) + 2, d \in 0 .. Len(w) :
                    Derives(x, w, c, d) <=> <<x, c, d>> \in R
  BY <1>1, DerivesByRules
<1>3. a \in 1 .. Len(w) + 2 /\ (a < b1 => a + 1 \in 1 .. Len(w) + 2 /\ b1 - 1 \in 0 .. Len(w))
  OBVIOUS
<1>4. Derives("entity", w, a, b1) <=> ByRules(w, R, "entity", a, b1)
  BY <1>2, <1>3, Zenon DEF Rules
<1>5. a < b1 => /\ Derives("fields", w, a + 1, b1 - 1) <=> <<"fields", a + 1, b1 - 1>> \in R
                /\ Derives("elements", w, a + 1, b1 - 1) <=> <<"elements", a + 1, b1 - 1>> \in R
  BY <1>2, <1>3, Zenon
<1>6. ByRules(w, R, "entity", a, b1)
      <=> \/ a = b1 /\ w[a] \in Literals \cup Strings
          \/ a < b1 /\ w[a] = "lbrace" /\ w[b1] = "rbrace" /\ <<"fields", a + 1, b1 - 1>> \in R
          \/ a < b1 /\ w[a] = "lsqbracket" /\ w[b1] = "rsqbracket" /\ <<"elements", a + 1, b1 - 1>> \in R
  BY DEF ByRules
<1>8. (\E kind \in Kinds : a < b1 /\ w[a] = Opener(kind) /\ w[b1] = Closer(kind)
                            /\ Derives(ListOf(kind), w, a + 1, b1 - 1))
      <=> \/ a < b1 /\ w[a] = "lbrace" /\ w[b1] = "rbrace" /\ Derives("fields", w, a + 1, b1 - 1)
          \/ a < b1 /\ w[a] = "lsqbracket" /\ w[b1] = "rsqbracket" /\ Derives("elements", w, a + 1, b1 - 1)
  BY DEF Kinds, Opener, Closer, ListOf
<1>. QED
  BY ONLY <1>4, <1>5, <1>6, <1>8

LEMMA FieldsIs ==
  ASSUME NEW w \in Seq(Tokens), NEW L \in Nat, NEW e \in 1 .. Len(w), L < e
  PROVE  ItemAt(w, L, "object", e)
         <=> \/ L + 1 = e
             \/ L + 1 < e /\ w[L + 1] \in Strings /\ ColonAt(w, L + 1, "object", e)
<1>1. Len(w) \in Nat
  OBVIOUS
<1>2. PICK R : /\ Rules(w, R)
               /\ \A x \in {"entity", "fields", "elements"}, c \in 1 .. Len(w) + 2, d \in 0 .. Len(w) :
                    Derives(x, w, c, d) <=> <<x, c, d>> \in R
  BY <1>1, DerivesByRules
<1>. DEFINE a == L + 1
            b1 == e - 1
<1>3. a \in 1 .. Len(w) + 2 /\ b1 \in 0 .. Len(w) /\ a = L + 1 /\ b1 = e - 1
  OBVIOUS
<1>. HIDE DEF a, b1
<1>. DEFINE InR == \E k \in a + 2 .. b1 : /\ k < b1 => w[k + 1] = "comma"
                                          /\ <<"entity", a + 2, k>> \in R /\ <<"fields", k + 2, b1>> \in R
            Value1 == \E k \in a + 2 .. b1 : Derives("entity", w, a + 2, k) /\ Follows(w, k, "object", e)
<1>4. Derives("fields", w, a, b1) <=> ByRules(w, R, "fields", a, b1)
  BY <1>2, <1>3, Zenon DEF Rules
<1>5. ByRules(w, R, "fields", a, b1)
      <=> \/ a > b1
          \/ /\ a + 2 <= b1 /\ w[a] \in Strings /\ w[a + 1] = "colon"
             /\ InR
  BY DEF ByRules
<1>6. ASSUME NEW k \in a + 2 .. b1
      PROVE  (/\ k < b1 => w[k + 1] = "comma"
              /\ <<"entity", a + 2, k>> \in R /\ <<"fields", k + 2, b1>> \in R)
             <=> Derives("entity", w, a + 2, k) /\ Follows(w, k, "object", e)
  <2>1. a + 2 \in 1 .. Len(w) + 2 /\ k \in 0 .. Len(w) /\ k + 2 \in 1 .. Len(w) + 2
    BY <1>3
  <2>2. /\ Derives("entity", w, a + 2, k) <=> <<"entity", a + 2, k>> \in R
        /\ Derives("fields", w, k + 2, b1) <=> <<"fields", k + 2, b1>> \in R
    BY <1>2, <1>3, <2>1, Zenon
  <2>3. k < e /\ (k + 1 < e <=> k < b1)
    BY <1>3
  <2>4. Follows(w, k, "object", e)
        <=> (k + 1 < e => w[k + 1] = "comma") /\ Derives("fields", w, k + 2, b1)
    BY <1>3, <2>3 DEF Follows, ListOf
  <2>. QED
    BY ONLY <2>2, <2>3, <2>4
<1>7. ItemAt(w, L, "object", e) <=> Derives("fields", w, a, b1)
  BY <1>3 DEF ItemAt, ListOf
<1>8. a + 1 = L + 2 /\ a + 2 = L + 3
  BY <1>3
<1>9. ColonAt(w, L + 1, "object", e)
      <=> /\ a + 1 < e /\ w[a + 1] = "colon"
          /\ Value1
  <2>1. (L + 1) + 1 = a + 1 /\ ((L + 1) + 1) + 1 = a + 2 /\ e - 1 = b1
    BY <1>3
  <2>. QED
    BY ONLY <2>1 DEF ColonAt, ValueAt
<1>10. (a > b1 <=> L + 1 = e) /\ (a + 2 <= b1 => a + 1 < e /\ L + 1 < e) /\ (\A k \in a + 2 .. b1 : a + 2 <= b1)
  BY <1>3
<1>11. w[L + 1] = w[a]
  BY <1>3
<1>12. InR <=> Value1
  BY ONLY <1>6
<1>13. Value1 => a + 2 <= b1
  BY ONLY <1>10
<1>. HIDE DEF InR, Value1
<1>. QED
  BY ONLY <1>4, <1>5, <1>7, <1>9, <1>10, <1>11, <1>12, <1>13

LEMMA ElementsIs ==
  ASSUME NEW w \in Seq(Tokens), NEW L \in Nat, NEW e \in 1 .. Len(w), L < e
  PROVE  ItemAt(w, L, "array", e) <=> (L + 1 = e \/ (L + 1 < e /\ ValueAt(w, L, "array", e)))
<1>1. Len(w) \in Nat
  OBVIOUS
<1>2. PICK R : /\ Rules(w, R)
               /\ \A x \in {"entity", "fields", "elements"}, c \in 1 .. Len(w) + 2, d \in 0 .. Len(w) :
                    Derives(x, w, c, d) <=> <<x, c, d>> \in R
  BY <1>1, DerivesByRules
<1>. DEFINE a == L + 1
            b1 == e - 1
<1>3. a \in 1 .. Len(w) + 2 /\ b1 \in 0 .. Len(w) /\ a = L + 1 /\ b1 = e - 1
  OBVIOUS
<1>. HIDE DEF a, b1
<1>. DEFINE InR == \E k \in a .. b1 : /\ k < b1 => w[k + 1] = "comma"
                                      /\ <<"entity", a, k>> \in R /\ <<"elements", k + 2, b1>> \in R
<1>4. Derives("elements", w, a, b1) <=> ByRules(w, R, "elements", a, b1)
  BY <1>2, <1>3, Zenon DEF Rules
<1>5. ByRules(w, R, "elements", a, b1)
      <=> \/ a > b1
          \/ InR
  BY DEF ByRules
<1>6. ASSUME NEW k \in a .. b1
      PROVE  (/\ k < b1 => w[k + 1] = "comma"
              /\ <<"entity", a, k>> \in R /\ <<"elements", k + 2, b1>> \in R)
             <=> Derives("entity", w, a, k) /\ Follows(w, k, "array", e)
  <2>1. k \in 0 .. Len(w) /\ k + 2 \in 1 .. Len(w) + 2
    BY <1>3
  <2>2. /\ Derives("entity", w, a, k) <=> <<"entity", a, k>> \in R
        /\ Derives("elements", w, k + 2, b1) <=> <<"elements", k + 2, b1>> \in R
    BY <1>2, <1>3, <2>1, Zenon
  <2>3. k < e /\ (k + 1 < e <=> k < b1)
    BY <1>3
  <2>4. Follows(w, k, "array", e)
        <=> (k + 1 < e => w[k + 1] = "comma") /\ Derives("elements", w, k + 2, b1)
    BY <1>3, <2>3 DEF Follows, ListOf
  <2>. QED
    BY ONLY <2>2, <2>3, <2>4
<1>7. ItemAt(w, L, "array", e) <=> Derives("elements", w, a, b1)
  BY <1>3 DEF ItemAt, ListOf
<1>8. ValueAt(w, L, "array", e)
      <=> \E k \in a .. b1 : Derives("entity", w, a, k) /\ Follows(w, k, "array", e)
  BY DEF ValueAt, a, b1
<1>9. (a > b1 <=> L + 1 = e) /\ (\A k \in a .. b1 : L + 1 < e)
  BY <1>3
<1>10. InR <=> \E k \in a .. b1 : Derives("entity", w, a, k) /\ Follows(w, k, "array", e)
  BY ONLY <1>6
<1>11. ValueAt(w, L, "array", e) => L + 1 < e
  BY ONLY <1>8, <1>9
<1>. HIDE DEF InR
<1>. QED
  BY ONLY <1>4, <1>5, <1>7, <1>8, <1>9, <1>10, <1>11

\* A list is closed at e, with closing bracket; and what is expected before it.
Inside(w, L, kind, e) == e \in 1 .. Len(w) /\ L < e /\ w[e] = Closer(kind)

Expected(w, L, kind, e, mode) ==
  /\ Inside(w, L, kind, e)
  /\ \/ mode = "item" /\ ItemAt(w, L, kind, e)
     \/ mode = "colon" /\ ColonAt(w, L, kind, e)
     \/ mode = "value" /\ ValueAt(w, L, kind, e)
     \/ mode = "after" /\ Follows(w, L, kind, e)

LEMMA TokensApart ==
  /\ \A kind \in Kinds : /\ Opener(kind) \notin Literals \cup Strings \cup {"rbrace", "rsqbracket", "comma", "colon"}
                         /\ Closer(kind) \notin Literals \cup Strings \cup {"lbrace", "lsqbracket", "comma", "colon"}
  /\ \A kind, other \in Kinds : Opener(kind) = Opener(other) => kind = other
  /\ "colon" \notin Literals \cup Strings /\ "comma" \notin Literals \cup Strings
  /\ Strings \cap Literals = {}
  /\ Final \cap (Literals \cup Strings) = {}
BY StringsAssumption DEF Symbols, Literals, Kinds, Opener, Closer, Final

LEMMA EmptyList ==
  ASSUME NEW w \in Seq(Tokens), NEW kind \in Kinds, NEW a \in 1 .. Len(w) + 2, NEW b1 \in 0 .. Len(w), a > b1
  PROVE  Derives(ListOf(kind), w, a, b1)
<1>1. Len(w) \in Nat
  OBVIOUS
<1>2. PICK R : /\ Rules(w, R)
               /\ \A x \in {"entity", "fields", "elements"}, c \in 1 .. Len(w) + 2, d \in 0 .. Len(w) :
                    Derives(x, w, c, d) <=> <<x, c, d>> \in R
  BY <1>1, DerivesByRules
<1>3. ListOf(kind) \in {"fields", "elements"}
  BY DEF ListOf
<1>4. ByRules(w, R, ListOf(kind), a, b1)
  BY <1>3, Zenon DEF ByRules
<1>5. ListOf(kind) \in {"entity", "fields", "elements"}
  BY <1>3
<1>. HIDE <1>3
<1>. QED
  BY <1>2, <1>4, <1>5, Zenon DEF Rules

LEMMA FieldToken ==
  ASSUME NEW w \in Seq(Tokens), NEW L \in Nat, L + 1 <= Len(w), NEW e
  PROVE  /\ w[L + 1] = "rbrace" => (Expected(w, L, "object", e, "item") <=> Inside(w, L, "object", e) /\ e = L + 1)
         /\ w[L + 1] \in Strings => (Expected(w, L, "object", e, "item") <=> Expected(w, L + 1, "object", e, "colon"))
         /\ w[L + 1] \notin {"rbrace"} \cup Strings => ~Expected(w, L, "object", e, "item")
<1>1. Expected(w, L, "object", e, "item") <=> Inside(w, L, "object", e) /\ ItemAt(w, L, "object", e)
  BY DEF Expected
<1>2. Expected(w, L + 1, "object", e, "colon") <=> Inside(w, L + 1, "object", e) /\ ColonAt(w, L + 1, "object", e)
  BY DEF Expected
<1>3. ASSUME Inside(w, L, "object", e)
      PROVE  ItemAt(w, L, "object", e)
             <=> \/ L + 1 = e
                 \/ L + 1 < e /\ w[L + 1] \in Strings /\ ColonAt(w, L + 1, "object", e)
  <2>1. e \in 1 .. Len(w) /\ L < e
    BY <1>3 DEF Inside
  <2>. QED
    BY <2>1, FieldsIs
<1>4. Inside(w, L, "object", e) => L < e /\ w[e] = "rbrace" /\ e \in 1 .. Len(w)
  BY DEF Inside, Closer
<1>5. Inside(w, L + 1, "object", e) <=> Inside(w, L, "object", e) /\ L + 1 < e
  BY DEF Inside
<1>6. "rbrace" \notin Strings
  BY TokensApart DEF Kinds, Closer
<1>. QED
  BY ONLY <1>1, <1>2, <1>3, <1>4, <1>5, <1>6

LEMMA ColonToken ==
  ASSUME NEW w \in Seq(Tokens), NEW L \in Nat, L + 1 <= Len(w), NEW kind \in Kinds, NEW e
  PROVE  /\ w[L + 1] = "colon" => (Expected(w, L, kind, e, "colon") <=> Expected(w, L + 1, kind, e, "value"))
         /\ w[L + 1] # "colon" => ~Expected(w, L, kind, e, "colon")
<1>1. Expected(w, L, kind, e, "colon")
      <=> Inside(w, L, kind, e) /\ L + 1 < e /\ w[L + 1] = "colon" /\ ValueAt(w, L + 1, kind, e)
  BY DEF Expected, ColonAt
<1>2. Expected(w, L + 1, kind, e, "value") <=> Inside(w, L + 1, kind, e) /\ ValueAt(w, L + 1, kind, e)
  BY DEF Expected
<1>3. Inside(w, L + 1, kind, e) <=> Inside(w, L, kind, e) /\ L + 1 < e
  BY DEF Inside
<1>. QED
  BY ONLY <1>1, <1>2, <1>3

LEMMA ValueToken ==
  ASSUME NEW w \in Seq(Tokens), NEW L \in Nat, L + 1 <= Len(w), NEW kind \in Kinds, NEW e
  PROVE  /\ \A inner \in Kinds : w[L + 1] = Opener(inner) =>
              (Expected(w, L, kind, e, "value")
               <=> /\ Inside(w, L, kind, e)
                   /\ \E k \in Nat : Expected(w, L + 1, inner, k, "item") /\ Follows(w, k, kind, e))
         /\ w[L + 1] \in Literals \cup Strings =>
              (Expected(w, L, kind, e, "value") <=> Expected(w, L + 1, kind, e, "after"))
         /\ w[L + 1] \notin Literals \cup Strings \cup {"lbrace", "lsqbracket"} => ~Expected(w, L, kind, e, "value")
<1>1. Expected(w, L, kind, e, "value")
      <=> /\ Inside(w, L, kind, e)
          /\ \E k \in L + 1 .. e - 1 : Derives("entity", w, L + 1, k) /\ Follows(w, k, kind, e)
  BY DEF Expected, ValueAt
<1>2. Expected(w, L + 1, kind, e, "after") <=> Inside(w, L + 1, kind, e) /\ Follows(w, L + 1, kind, e)
  BY DEF Expected
<1>3. Inside(w, L + 1, kind, e) <=> Inside(w, L, kind, e) /\ L + 1 < e
  BY DEF Inside
<1>4. Inside(w, L, kind, e) => e \in 1 .. Len(w)
  BY DEF Inside
<1>5. ASSUME e \in 1 .. Len(w), NEW k \in L + 1 .. e - 1
      PROVE  Derives("entity", w, L + 1, k)
             <=> \/ k = L + 1 /\ w[L + 1] \in Literals \cup Strings
                 \/ \E inner \in Kinds : w[L + 1] = Opener(inner) /\ Expected(w, L + 1, inner, k, "item")
  <2>1. L + 1 \in 1 .. Len(w) /\ k \in 0 .. Len(w) /\ k \in 1 .. Len(w)
    BY <1>5
  <2>2. Derives("entity", w, L + 1, k)
        <=> \/ L + 1 = k /\ w[L + 1] \in Literals \cup Strings
            \/ \E inner \in Kinds : /\ L + 1 < k /\ w[L + 1] = Opener(inner) /\ w[k] = Closer(inner)
                                    /\ Derives(ListOf(inner), w, (L + 1) + 1, k - 1)
    BY <2>1, EntityIs
  <2>3. \A inner : Expected(w, L + 1, inner, k, "item")
                   <=> L + 1 < k /\ w[k] = Closer(inner) /\ Derives(ListOf(inner), w, (L + 1) + 1, k - 1)
    BY <2>1 DEF Expected, Inside, ItemAt
  <2>. QED
    BY ONLY <2>2, <2>3
<1>6. ASSUME NEW inner \in Kinds, w[L + 1] = Opener(inner)
      PROVE  Expected(w, L, kind, e, "value")
               <=> /\ Inside(w, L, kind, e)
                   /\ \E k \in Nat : Expected(w, L + 1, inner, k, "item") /\ Follows(w, k, kind, e)
  <2>1. w[L + 1] \notin Literals \cup Strings /\ \A other \in Kinds : w[L + 1] = Opener(other) => other = inner
    BY <1>6, TokensApart
  <2>2. ASSUME Inside(w, L, kind, e), NEW k \in L + 1 .. e - 1
        PROVE  Derives("entity", w, L + 1, k) <=> Expected(w, L + 1, inner, k, "item")
    BY ONLY <1>4, <1>5, <1>6, <2>1, <2>2
  <2>3. ASSUME NEW k \in Nat, Inside(w, L, kind, e), Expected(w, L + 1, inner, k, "item"), Follows(w, k, kind, e)
        PROVE  k \in L + 1 .. e - 1
    BY <2>3, <1>4 DEF Expected, Inside, Follows
  <2>4. \A k \in L + 1 .. e - 1 : k \in Nat
    OBVIOUS
  <2>. QED
    BY ONLY <1>1, <2>2, <2>3, <2>4
<1>7. ASSUME w[L + 1] \in Literals \cup Strings
      PROVE  Expected(w, L, kind, e, "value") <=> Expected(w, L + 1, kind, e, "after")
  <2>1. \A inner \in Kinds : w[L + 1] # Opener(inner)
    BY <1>7, TokensApart
  <2>2. ASSUME Inside(w, L, kind, e), NEW k \in L + 1 .. e - 1
        PROVE  Derives("entity", w, L + 1, k) <=> k = L + 1
    BY ONLY <1>4, <1>5, <1>7, <2>1, <2>2
  <2>3. Follows(w, L + 1, kind, e) => L + 1 < e
    BY DEF Follows
  <2>4. e \in 1 .. Len(w) /\ L + 1 < e => L + 1 \in L + 1 .. e - 1
    OBVIOUS
  <2>. QED
    BY ONLY <1>1, <1>2, <1>3, <1>4, <2>2, <2>3, <2>4
<1>8. ASSUME w[L + 1] \notin Literals \cup Strings \cup {"lbrace", "lsqbracket"}
      PROVE  ~Expected(w, L, kind, e, "value")
  <2>1. \A inner \in Kinds : w[L + 1] # Opener(inner)
    BY <1>8 DEF Kinds, Opener
  <2>2. w[L + 1] \notin Literals \cup Strings
    BY <1>8
  <2>3. ASSUME Inside(w, L, kind, e), NEW k \in L + 1 .. e - 1
        PROVE  ~Derives("entity", w, L + 1, k)
    BY ONLY <1>4, <1>5, <2>1, <2>2, <2>3
  <2>. QED
    BY ONLY <1>1, <2>3
<1>. QED
  BY <1>6, <1>7, <1>8

LEMMA ElementToken ==
  ASSUME NEW w \in Seq(Tokens), NEW L \in Nat, L + 1 <= Len(w), NEW e
  PROVE  /\ w[L + 1] = "rsqbracket" => (Expected(w, L, "array", e, "item") <=> Inside(w, L, "array", e) /\ e = L + 1)
         /\ w[L + 1] # "rsqbracket" => (Expected(w, L, "array", e, "item") <=> Expected(w, L, "array", e, "value"))
<1>1. Expected(w, L, "array", e, "item") <=> Inside(w, L, "array", e) /\ ItemAt(w, L, "array", e)
  BY DEF Expected
<1>2. Expected(w, L, "array", e, "value") <=> Inside(w, L, "array", e) /\ ValueAt(w, L, "array", e)
  BY DEF Expected
<1>3. ASSUME Inside(w, L, "array", e)
      PROVE  ItemAt(w, L, "array", e) <=> (L + 1 = e \/ (L + 1 < e /\ ValueAt(w, L, "array", e)))
  <2>1. e \in 1 .. Len(w) /\ L < e
    BY <1>3 DEF Inside
  <2>. QED
    BY <2>1, ElementsIs
<1>4. Inside(w, L, "array", e) => L < e /\ w[e] = "rsqbracket" /\ e \in 1 .. Len(w)
  BY DEF Inside, Closer
<1>5. ASSUME w[L + 1] = "rsqbracket" PROVE ~Expected(w, L, "array", e, "value")
  <2>1. "array" \in Kinds /\ w[L + 1] \notin Literals \cup Strings \cup {"lbrace", "lsqbracket"}
    BY <1>5, TokensApart DEF Kinds, Closer
  <2>. QED
    BY <2>1, ValueToken
<1>6. Inside(w, L, "array", e) /\ L + 1 # e => L + 1 < e
  BY <1>4
<1>. QED
  BY ONLY <1>1, <1>2, <1>3, <1>4, <1>5, <1>6

LEMMA AfterToken ==
  ASSUME NEW w \in Seq(Tokens), NEW L \in Nat, L + 1 <= Len(w), NEW kind \in Kinds, NEW e
  PROVE  /\ w[L + 1] = "comma" => (Expected(w, L, kind, e, "after") <=> Expected(w, L + 1, kind, e, "item"))
         /\ w[L + 1] = Closer(kind) => (Expected(w, L, kind, e, "after") <=> Inside(w, L, kind, e) /\ e = L + 1)
         /\ w[L + 1] \notin {"comma", Closer(kind)} => ~Expected(w, L, kind, e, "after")
<1>1. Expected(w, L, kind, e, "after")
      <=> /\ Inside(w, L, kind, e)
          /\ L + 1 < e => w[L + 1] = "comma"
          /\ Derives(ListOf(kind), w, L + 2, e - 1)
  BY DEF Expected, Follows, Inside
<1>2. Expected(w, L + 1, kind, e, "item") <=> Inside(w, L + 1, kind, e) /\ Derives(ListOf(kind), w, L + 2, e - 1)
  <2>1. (L + 1) + 1 = L + 2
    OBVIOUS
  <2>. QED
    BY ONLY <2>1 DEF Expected, ItemAt
<1>3. Inside(w, L + 1, kind, e) <=> Inside(w, L, kind, e) /\ L + 1 < e
  BY DEF Inside
<1>4. Inside(w, L, kind, e) => L < e /\ w[e] = Closer(kind) /\ e \in 1 .. Len(w)
  BY DEF Inside
<1>5. Closer(kind) # "comma"
  BY TokensApart
<1>6. ASSUME e = L + 1 PROVE Derives(ListOf(kind), w, L + 2, e - 1)
  <2>1. L + 2 \in 1 .. Len(w) + 2 /\ e - 1 \in 0 .. Len(w) /\ L + 2 > e - 1
    BY <1>6
  <2>. QED
    BY <2>1, EmptyList
<1>7. Inside(w, L, kind, e) /\ L + 1 # e => L + 1 < e
  BY <1>4
<1>8. e = L + 1 => ~(L + 1 < e)
  OBVIOUS
<1>. QED
  BY ONLY <1>1, <1>2, <1>3, <1>4, <1>5, <1>6, <1>7, <1>8

\* The n lists K are open at L: they are closed at the places E, the outermost at
\* the end of w and each of the others as an item of the one around it.
Nested(w, n, K, E) ==
  /\ E[1] = Len(w)
  /\ \A i \in 1 .. n - 1 : Expected(w, E[i + 1], K[i], E[i], "after")

Fits(w, n, K, L, mode) ==
  \E E \in [1 .. n -> Nat] : Nested(w, n, K, E) /\ Expected(w, L, K[n], E[n], mode)

LEMMA OpenerToken ==
  ASSUME NEW w \in Seq(Tokens), NEW L \in Nat, L + 1 <= Len(w), NEW kind \in Kinds, NEW e,
         NEW inner \in Kinds, w[L + 1] = Opener(inner)
  PROVE  Expected(w, L, kind, e, "value")
         <=> \E k \in Nat : Expected(w, L + 1, inner, k, "item") /\ Expected(w, k, kind, e, "after")
<1>1. Expected(w, L, kind, e, "value")
      <=> /\ Inside(w, L, kind, e)
          /\ \E k \in Nat : Expected(w, L + 1, inner, k, "item") /\ Follows(w, k, kind, e)
  BY ValueToken
<1>2. ASSUME NEW k \in Nat, Expected(w, L + 1, inner, k, "item")
      PROVE  Expected(w, k, kind, e, "after") <=> Inside(w, L, kind, e) /\ Follows(w, k, kind, e)
  <2>1. L < k
    BY <1>2 DEF Expected, Inside
  <2>2. Expected(w, k, kind, e, "after") <=> Inside(w, k, kind, e) /\ Follows(w, k, kind, e)
    BY DEF Expected
  <2>3. Follows(w, k, kind, e) => k < e
    BY DEF Follows
  <2>4. e \in 1 .. Len(w) => e \in Nat
    OBVIOUS
  <2>. QED
    BY ONLY <2>1, <2>2, <2>3, <2>4, L \in Nat, k \in Nat DEF Inside
<1>. QED
  BY ONLY <1>1, <1>2

LEMMA FitsSame ==
  ASSUME NEW w, NEW n, NEW K, NEW L, NEW M, NEW mode, NEW mode1,
         \A e : Expected(w, L, K[n], e, mode) <=> Expected(w, M, K[n], e, mode1)
  PROVE  Fits(w, n, K, L, mode) <=> Fits(w, n, K, M, mode1)
BY Zenon DEF Fits

LEMMA FitsNot ==
  ASSUME NEW w, NEW n, NEW K, NEW L, NEW mode, \A e : ~Expected(w, L, K[n], e, mode)
  PROVE  ~Fits(w, n, K, L, mode)
BY Zenon DEF Fits

LEMMA FitsAgree ==
  ASSUME NEW w, NEW n \in Nat \ {0}, NEW K, NEW K1, \A i \in 1 .. n : K1[i] = K[i], NEW L, NEW mode
  PROVE  Fits(w, n, K, L, mode) <=> Fits(w, n, K1, L, mode)
<1>1. K1[n] = K[n] /\ \A i \in 1 .. n - 1 : K1[i] = K[i]
  OBVIOUS
<1>2. \A E : Nested(w, n, K, E) <=> Nested(w, n, K1, E)
  BY ONLY <1>1 DEF Nested
<1>. QED
  BY ONLY <1>1, <1>2 DEF Fits

LEMMA FitsPush ==
  ASSUME NEW w, NEW n \in Nat \ {0}, NEW K, NEW L, NEW M, NEW mode,
         \A e : Expected(w, L, K[n], e, mode)
                <=> \E k \in Nat : Expected(w, M, K[n + 1], k, "item") /\ Expected(w, k, K[n], e, "after")
  PROVE  Fits(w, n, K, L, mode) <=> Fits(w, n + 1, K, M, "item")
<1>1. ASSUME NEW E \in [1 .. n -> Nat], Nested(w, n, K, E), Expected(w, L, K[n], E[n], mode)
      PROVE  Fits(w, n + 1, K, M, "item")
  <2>1. PICK k \in Nat : Expected(w, M, K[n + 1], k, "item") /\ Expected(w, k, K[n], E[n], "after")
    BY <1>1, Zenon
  <2>. DEFINE F == [i \in 1 .. n + 1 |-> IF i = n + 1 THEN k ELSE E[i]]
  <2>2. F \in [1 .. n + 1 -> Nat]
    OBVIOUS
  <2>3. F[n + 1] = k /\ \A i \in 1 .. n : F[i] = E[i]
    OBVIOUS
  <2>. HIDE DEF F
  <2>4. Nested(w, n + 1, K, F)
    <3>1. F[1] = Len(w)
      BY <1>1, <2>3 DEF Nested
    <3>2. ASSUME NEW i \in 1 .. (n + 1) - 1 PROVE Expected(w, F[i + 1], K[i], F[i], "after")
      <4>1. CASE i = n
        BY <2>1, <2>3, <4>1
      <4>2. CASE i # n
        <5>1. i \in 1 .. n - 1 /\ i + 1 \in 1 .. n /\ i \in 1 .. n
          BY <4>2
        <5>2. F[i + 1] = E[i + 1] /\ F[i] = E[i]
          BY <2>3, <5>1, Zenon
        <5>. QED
          BY <1>1, <5>1, <5>2, Zenon DEF Nested
      <4>. QED
        BY <4>1, <4>2
    <3>. QED
      BY <3>1, <3>2 DEF Nested
  <2>. QED
    BY <2>1, <2>2, <2>3, <2>4, Zenon DEF Fits
<1>2. ASSUME NEW F \in [1 .. n + 1 -> Nat], Nested(w, n + 1, K, F), Expected(w, M, K[n + 1], F[n + 1], "item")
      PROVE  Fits(w, n, K, L, mode)
  <2>. DEFINE E == [i \in 1 .. n |-> F[i]]
  <2>1. E \in [1 .. n -> Nat] /\ (\A i \in 1 .. n : E[i] = F[i]) /\ F[n + 1] \in Nat
    OBVIOUS
  <2>. HIDE DEF E
  <2>2. Nested(w, n, K, E)
    <3>1. E[1] = Len(w)
      BY <1>2, <2>1 DEF Nested
    <3>2. ASSUME NEW i \in 1 .. n - 1 PROVE Expected(w, E[i + 1], K[i], E[i], "after")
      <4>1. i \in 1 .. (n + 1) - 1 /\ i + 1 \in 1 .. n /\ i \in 1 .. n
        OBVIOUS
      <4>2. E[i + 1] = F[i + 1] /\ E[i] = F[i]
        BY <2>1, <4>1, Zenon
      <4>. QED
        BY <1>2, <4>1, <4>2, Zenon DEF Nested
    <3>. QED
      BY <3>1, <3>2 DEF Nested
  <2>3. Expected(w, F[n + 1], K[n], F[n], "after")
    <3>1. n \in 1 .. (n + 1) - 1
      OBVIOUS
    <3>. QED
      BY <1>2, <3>1, Zenon DEF Nested
  <2>4. E[n] = F[n]
    BY <2>1
  <2>5. Expected(w, L, K[n], E[n], mode)
    BY <1>2, <2>1, <2>3, <2>4, Zenon
  <2>. QED
    BY <2>1, <2>2, <2>5, Zenon DEF Fits
<1>. QED
  BY <1>1, <1>2, Zenon DEF Fits

LEMMA FitsPop ==
  ASSUME NEW w \in Seq(Tokens), NEW L \in Nat, L + 1 <= Len(w), NEW n \in Nat \ {0}, NEW K, NEW mode,
         w[L + 1] = Closer(K[n]),
         \A e : Expected(w, L, K[n], e, mode) <=> Inside(w, L, K[n], e) /\ e = L + 1
  PROVE  /\ n = 1 => (Fits(w, n, K, L, mode) <=> Len(w) = L + 1)
         /\ n > 1 => (Fits(w, n, K, L, mode) <=> Fits(w, n - 1, K, L + 1, "after"))
<1>1. \A e : Expected(w, L, K[n], e, mode) <=> e = L + 1
  BY DEF Inside
<1>2. Fits(w, n, K, L, mode) <=> \E E \in [1 .. n -> Nat] : Nested(w, n, K, E) /\ E[n] = L + 1
  BY <1>1, Zenon DEF Fits
<1>3. ASSUME n = 1 PROVE Fits(w, n, K, L, mode) <=> Len(w) = L + 1
  <2>1. ASSUME NEW E, n = 1 PROVE Nested(w, n, K, E) <=> E[1] = Len(w)
    BY <2>1 DEF Nested
  <2>2. Len(w) = L + 1 => \E E \in [1 .. n -> Nat] : Nested(w, n, K, E) /\ E[n] = L + 1
    <3>. DEFINE E == [i \in 1 .. n |-> L + 1]
    <3>1. E \in [1 .. n -> Nat] /\ E[1] = L + 1 /\ E[n] = L + 1
      BY <1>3
    <3>. HIDE DEF E
    <3>. QED
      BY <1>3, <2>1, <3>1
  <2>. QED
    BY <1>2, <1>3, <2>1, <2>2
<1>4. ASSUME n > 1, NEW F \in [1 .. n -> Nat], Nested(w, n, K, F), F[n] = L + 1
      PROVE  Fits(w, n - 1, K, L + 1, "after")
  <2>. DEFINE E == [i \in 1 .. n - 1 |-> F[i]]
              m == n - 1
  <2>1. E \in [1 .. n - 1 -> Nat] /\ \A i \in 1 .. n - 1 : E[i] = F[i]
    OBVIOUS
  <2>. HIDE DEF E
  <2>2. Nested(w, n - 1, K, E)
    <3>1. E[1] = Len(w)
      BY <1>4, <2>1 DEF Nested
    <3>2. ASSUME NEW i \in 1 .. (n - 1) - 1 PROVE Expected(w, E[i + 1], K[i], E[i], "after")
      <4>1. i + 1 \in 1 .. n - 1 /\ i \in 1 .. n - 1
        OBVIOUS
      <4>2. E[i + 1] = F[i + 1] /\ E[i] = F[i]
        BY <2>1, <4>1, Zenon
      <4>. QED
        BY <1>4, <4>1, <4>2, Zenon DEF Nested
    <3>. QED
      BY <3>1, <3>2 DEF Nested
  <2>3. Expected(w, L + 1, K[n - 1], E[n - 1], "after")
    <3>1. n - 1 \in 1 .. n - 1 /\ (n - 1) + 1 = n
      BY <1>4
    <3>2. Expected(w, F[(n - 1) + 1], K[n - 1], F[n - 1], "after")
      BY <1>4, <3>1, Zenon DEF Nested
    <3>. QED
      BY <1>4, <2>1, <3>1, <3>2
  <2>. QED
    BY <2>1, <2>2, <2>3, Zenon DEF Fits
<1>5. ASSUME n > 1, NEW E \in [1 .. n - 1 -> Nat], Nested(w, n - 1, K, E), Expected(w, L + 1, K[n - 1], E[n - 1], "after")
      PROVE  \E F \in [1 .. n -> Nat] : Nested(w, n, K, F) /\ F[n] = L + 1
  <2>. DEFINE F == [i \in 1 .. n |-> IF i = n THEN L + 1 ELSE E[i]]
  <2>1. F \in [1 .. n -> Nat] /\ F[n] = L + 1 /\ \A i \in 1 .. n - 1 : F[i] = E[i]
    OBVIOUS
  <2>. HIDE DEF F
  <2>2. F[1] = Len(w)
    BY <1>5, <2>1 DEF Nested
  <2>3. ASSUME NEW i \in 1 .. n - 1 PROVE Expected(w, F[i + 1], K[i], F[i], "after")
    <3>1. CASE i = n - 1
      <4>1. F[i + 1] = L + 1 /\ F[i] = E[n - 1] /\ K[i] = K[n - 1]
        BY <1>5, <2>1, <3>1
      <4>. QED
        BY <1>5, <4>1
    <3>2. CASE i # n - 1
      <4>1. i \in 1 .. (n - 1) - 1 /\ i + 1 \in 1 .. n - 1
        BY <3>2
      <4>2. F[i + 1] = E[i + 1] /\ F[i] = E[i]
        BY <2>1, <4>1, Zenon
      <4>. QED
        BY <1>5, <4>1, <4>2, Zenon DEF Nested
    <3>. QED
      BY <3>1, <3>2
  <2>4. Nested(w, n, K, F)
    BY <2>2, <2>3 DEF Nested
  <2>. QED
    BY <2>1, <2>4
<1>6. ASSUME n > 1 PROVE Fits(w, n, K, L, mode) <=> Fits(w, n - 1, K, L + 1, "after")
  BY <1>2, <1>4, <1>5, <1>6, Zenon DEF Fits
<1>. QED
  BY <1>3, <1>6

LEMMA DocumentIs ==
  ASSUME NEW w \in Seq(Tokens), NEW K, K[1] = "object"
  PROVE  /\ w = <<>> => ~IsDocument(w)
         /\ w # <<>> /\ w[1] # "lbrace" => ~IsDocument(w)
         /\ w # <<>> /\ w[1] = "lbrace" => (IsDocument(w) <=> Fits(w, 1, K, 1, "item"))
<1>1. ASSUME w # <<>>, w[1] = "lbrace" PROVE IsDocument(w) <=> Fits(w, 1, K, 1, "item")
  <2>1. Len(w) \in Nat /\ Len(w) >= 1 /\ 1 \in 1 .. Len(w) /\ Len(w) \in 0 .. Len(w) /\ Len(w) \in 1 .. Len(w)
    BY <1>1
  <2>2. Opener("object") = "lbrace" /\ "object" \in Kinds /\ Opener("array") # "lbrace"
    BY DEF Opener, Kinds
  <2>3. w[1] \notin Literals \cup Strings
    BY <1>1, <2>2, TokensApart
  <2>4. IsDocument(w) <=> Derives("entity", w, 1, Len(w))
    BY <1>1 DEF IsDocument
  <2>5. Derives("entity", w, 1, Len(w))
        <=> \E kind \in Kinds : /\ 1 < Len(w) /\ w[1] = Opener(kind) /\ w[Len(w)] = Closer(kind)
                                /\ Derives(ListOf(kind), w, 1 + 1, Len(w) - 1)
    BY ONLY <2>1, <2>3, w \in Seq(Tokens), EntityIs
  <2>6. \A kind \in Kinds : w[1] = Opener(kind) <=> kind = "object"
    BY <1>1, <2>2 DEF Kinds
  <2>7. Expected(w, 1, "object", Len(w), "item")
        <=> 1 < Len(w) /\ w[Len(w)] = Closer("object") /\ Derives(ListOf("object"), w, 1 + 1, Len(w) - 1)
    BY <2>1 DEF Expected, Inside, ItemAt
  <2>8. Fits(w, 1, K, 1, "item") <=> Expected(w, 1, "object", Len(w), "item")
    <3>1. ASSUME NEW E PROVE Nested(w, 1, K, E) <=> E[1] = Len(w)
      BY DEF Nested
    <3>2. \E E \in [1 .. 1 -> Nat] : E[1] = Len(w)
      <4>. DEFINE E == [i \in 1 .. 1 |-> Len(w)]
      <4>1. E \in [1 .. 1 -> Nat] /\ E[1] = Len(w)
        BY <2>1
      <4>. QED
        BY ONLY <4>1
    <3>. QED
      BY <3>1, <3>2, Zenon DEF Fits
  <2>. QED
    BY ONLY <2>2, <2>4, <2>5, <2>6, <2>7, <2>8
<1>2. w = <<>> \/ w[1] # "lbrace" => ~IsDocument(w)
  BY DEF IsDocument
<1>. QED
  BY <1>1, <1>2

\* F folds the first m tokens of r as Closers does.
Folded(F, m, r) == F = [n \in 0 .. m |-> IF n = 0 THEN <<>> ELSE CloserStep(F[n - 1], r[n])]

LEMMA FoldedIs ==
  ASSUME NEW F, NEW m \in Nat, NEW r, Folded(F, m, r)
  PROVE  F[0] = <<>> /\ \A n \in 1 .. m : F[n] = CloserStep(F[n - 1], r[n])
<1>1. \A n \in 0 .. m : F[n] = IF n = 0 THEN <<>> ELSE CloserStep(F[n - 1], r[n])
  BY DEF Folded
<1>. QED
  BY <1>1

LEMMA FoldedExists ==
  ASSUME NEW r, NEW m \in Nat
  PROVE  \E F : Folded(F, m, r)
<1>. DEFINE T == {n \in Nat : ~ \E F : Folded(F, n, r)}
<1>1. SUFFICES ASSUME T # {} PROVE FALSE
  OBVIOUS
<1>2. PICK n \in T : \A k \in T : n <= k
  <2>1. T \in SUBSET Nat
    OBVIOUS
  <2>. QED
    BY ONLY <1>1, <2>1, LeastNatural, Zenon
<1>3. n # 0
  <2>1. Folded([k \in 0 .. 0 |-> <<>>], 0, r)
    BY DEF Folded
  <2>. QED
    BY <2>1
<1>4. n - 1 \in Nat /\ ~(n <= n - 1) /\ n \in Nat
  BY <1>2, <1>3
<1>5. n - 1 \notin T
  BY <1>2, <1>4
<1>6. PICK F : Folded(F, n - 1, r)
  BY <1>4, <1>5
<1>7. F[0] = <<>> /\ \A k \in 1 .. n - 1 : F[k] = CloserStep(F[k - 1], r[k])
  BY <1>4, <1>6, FoldedIs
<1>. DEFINE G == [k \in 0 .. n |-> IF k = n THEN CloserStep(F[n - 1], r[n]) ELSE F[k]]
<1>8. \A k \in 0 .. n - 1 : G[k] = F[k]
  BY <1>4
<1>9. G[n] = CloserStep(F[n - 1], r[n])
  BY <1>4
<1>10. G = [k \in 0 .. n |-> G[k]]
  OBVIOUS
<1>. HIDE DEF G
<1>11. ASSUME NEW k \in 0 .. n PROVE G[k] = IF k = 0 THEN <<>> ELSE CloserStep(G[k - 1], r[k])
  <2>1. CASE k = 0
    BY <1>4, <1>7, <1>8, <2>1
  <2>2. CASE k = n /\ k # 0
    <3>1. G[n - 1] = F[n - 1]
      BY <1>4, <1>8
    <3>. QED
      BY <1>9, <2>2, <3>1
  <2>3. CASE k # 0 /\ k # n
    <3>1. k \in 1 .. n - 1 /\ k - 1 \in 0 .. n - 1 /\ k \in 0 .. n - 1
      BY <1>4, <2>3
    <3>2. G[k] = F[k] /\ G[k - 1] = F[k - 1] /\ F[k] = CloserStep(F[k - 1], r[k])
      BY <1>7, <1>8, <3>1
    <3>. QED
      BY <2>3, <3>2
  <2>. QED
    BY <2>1, <2>2, <2>3
<1>12. Folded(G, n, r)
  BY <1>10, <1>11, Zenon DEF Folded
<1>. QED
  BY <1>2, <1>12

LEMMA FoldedAgree ==
  ASSUME NEW F, NEW m \in Nat, NEW r, Folded(F, m, r), NEW G, NEW k \in Nat, NEW q, Folded(G, k, q),
         m <= k, \A n \in 1 .. m : q[n] = r[n]
  PROVE  F[m] = G[m]
<1>. DEFINE T == {n \in Nat : n <= m /\ F[n] # G[n]}
<1>1. F[0] = <<>> /\ \A n \in 1 .. m : F[n] = CloserStep(F[n - 1], r[n])
  BY FoldedIs
<1>2. G[0] = <<>> /\ \A n \in 1 .. k : G[n] = CloserStep(G[n - 1], q[n])
  BY FoldedIs
<1>3. ASSUME T # {} PROVE FALSE
  <2>1. PICK n \in T : \A j \in T : n <= j
    <3>1. T \in SUBSET Nat
      OBVIOUS
    <3>. QED
      BY ONLY <1>3, <3>1, LeastNatural, Zenon
  <2>2. n # 0 /\ n \in 1 .. m /\ n \in 1 .. k
    BY <1>1, <1>2, <2>1
  <2>3. F[n - 1] = G[n - 1]
    BY <2>1, <2>2
  <2>. QED
    BY <1>1, <1>2, <2>1, <2>2, <2>3
<1>. QED
  BY <1>3

LEMMA ClosersFold ==
  ASSUME NEW r, Len(r) \in Nat
  PROVE  \E F : Folded(F, Len(r), r) /\ Closers(r) = F[Len(r)]
<1>. DEFINE F0 == CHOOSE F : Folded(F, Len(r), r)
<1>1. Closers(r) = F0[Len(r)]
  BY Zenon DEF Closers, Folded
<1>2. Folded(F0, Len(r), r)
  BY FoldedExists, Zenon
<1>. QED
  BY <1>1, <1>2

LEMMA ClosersAppend ==
  ASSUME NEW r \in Seq(Tokens), NEW t \in Tokens
  PROVE  Closers(Append(r, t)) = CloserStep(Closers(r), t)
<1>. DEFINE q == Append(r, t)
<1>1. /\ q \in Seq(Tokens) /\ Len(r) \in Nat /\ Len(q) \in Nat /\ Len(q) = Len(r) + 1
      /\ q[Len(r) + 1] = t /\ \A n \in 1 .. Len(r) : q[n] = r[n]
  OBVIOUS
<1>. HIDE DEF q
<1>2. PICK F : Folded(F, Len(r), r) /\ Closers(r) = F[Len(r)]
  BY ONLY <1>1, ClosersFold
<1>3. PICK G : Folded(G, Len(q), q) /\ Closers(q) = G[Len(q)]
  BY ONLY <1>1, ClosersFold
<1>4. F[Len(r)] = G[Len(r)]
  <2>1. Len(r) <= Len(q)
    BY <1>1
  <2>. QED
    BY ONLY <1>1, <1>2, <1>3, <2>1, FoldedAgree
<1>5. G[Len(q)] = CloserStep(G[Len(q) - 1], q[Len(q)])
  BY ONLY <1>1, <1>3, FoldedIs
<1>6. Len(q) - 1 = Len(r)
  BY <1>1
<1>. QED
  BY <1>1, <1>2, <1>3, <1>4, <1>5, <1>6 DEF q

LEMMA ClosersEmpty == Closers(<<>>) = <<>>
<1>1. Len(<<>>) = 0
  OBVIOUS
<1>2. PICK F : Folded(F, Len(<<>>), <<>>) /\ Closers(<<>>) = F[Len(<<>>)]
  BY <1>1, ClosersFold
<1>. QED
  BY <1>1, <1>2, FoldedIs

\* The brackets that close n open lists, the innermost first.
ClosersAre(c, n, K) ==
  /\ c \in Seq(Tokens) /\ Len(c) = n
  /\ \A j \in 1 .. n : c[j] = Closer(K[n + 1 - j])

LEMMA ClosersOpen ==
  ASSUME NEW c, NEW n \in Nat, NEW K, ClosersAre(c, n, K), K[n + 1] \in Kinds
  PROVE  ClosersAre(CloserStep(c, Opener(K[n + 1])), n + 1, K)
<1>. DEFINE x == Closer(K[n + 1])
            d == <<x>> \o c
<1>1. x \in Tokens
  BY DEF Closer, Tokens, Symbols
<1>2. CloserStep(c, Opener(K[n + 1])) = <<x>> \o c
  BY DEF CloserStep, Opener, Closer, Kinds
<1>3. c \in Seq(Tokens) /\ Len(c) = n /\ \A j \in 1 .. n : c[j] = Closer(K[n + 1 - j])
  BY DEF ClosersAre
<1>. HIDE DEF x
<1>4. d \in Seq(Tokens) /\ Len(d) = n + 1 /\ d[1] = x /\ \A j \in 1 .. n : d[j + 1] = c[j]
  BY <1>1, <1>3
<1>. HIDE DEF d
<1>5. ASSUME NEW j \in 1 .. n + 1 PROVE d[j] = Closer(K[(n + 1) + 1 - j])
  <2>1. CASE j = 1
    <3>1. (n + 1) + 1 - j = n + 1
      BY <2>1
    <3>. QED
      BY <1>4, <2>1, <3>1 DEF x
  <2>2. CASE j # 1
    <3>1. j - 1 \in 1 .. n /\ (n + 1) + 1 - j = n + 1 - (j - 1) /\ (j - 1) + 1 = j
      BY <2>2
    <3>2. d[(j - 1) + 1] = c[j - 1] /\ c[j - 1] = Closer(K[n + 1 - (j - 1)])
      BY <1>3, <1>4, <3>1, Zenon
    <3>. QED
      BY ONLY <3>1, <3>2
  <2>. QED
    BY <2>1, <2>2
<1>. QED
  BY <1>2, <1>4, <1>5 DEF ClosersAre, d

LEMMA ClosersClose ==
  ASSUME NEW c, NEW n \in Nat \ {0}, NEW K, ClosersAre(c, n, K), NEW t \in {"rbrace", "rsqbracket"}
  PROVE  ClosersAre(CloserStep(c, t), n - 1, K)
<1>1. c \in Seq(Tokens) /\ Len(c) = n /\ c # <<>> /\ \A j \in 1 .. n : c[j] = Closer(K[n + 1 - j])
  BY DEF ClosersAre
<1>2. CloserStep(c, t) = Tail(c)
  BY <1>1 DEF CloserStep
<1>. DEFINE d == Tail(c)
<1>3. d \in Seq(Tokens) /\ Len(d) = n - 1 /\ \A j \in 1 .. n - 1 : d[j] = c[j + 1]
  BY <1>1
<1>. HIDE DEF d
<1>4. ASSUME NEW j \in 1 .. n - 1 PROVE d[j] = Closer(K[(n - 1) + 1 - j])
  <2>1. j + 1 \in 1 .. n /\ (n - 1) + 1 - j = n + 1 - (j + 1)
    OBVIOUS
  <2>2. d[j] = c[j + 1] /\ c[j + 1] = Closer(K[n + 1 - (j + 1)])
    BY <1>1, <1>3, <2>1, Zenon
  <2>. QED
    BY ONLY <2>1, <2>2
<1>. QED
  BY <1>2, <1>3, <1>4 DEF ClosersAre, d

LEMMA ClosersKept ==
  ASSUME NEW c, NEW t, t \notin {"lbrace", "rbrace", "lsqbracket", "rsqbracket"}
  PROVE  CloserStep(c, t) = c
BY DEF CloserStep

\* After L comes the rest of an item, up to M, and then the closing brackets.
LEMMA FitsCompleted ==
  ASSUME NEW w \in Seq(Tokens), NEW n \in Nat \ {0}, NEW K, \A i \in 1 .. n : K[i] \in Kinds,
         NEW M \in Nat, Len(w) = M + n, \A j \in 1 .. n : w[M + j] = Closer(K[n + 1 - j]),
         NEW L, NEW mode, Expected(w, L, K[n], M + 1, mode)
  PROVE  Fits(w, n, K, L, mode)
<1>. DEFINE E == [i \in 1 .. n |-> M + n + 1 - i]
<1>1. E \in [1 .. n -> Nat] /\ \A i \in 1 .. n : E[i] = M + n + 1 - i
  OBVIOUS
<1>. HIDE DEF E
<1>2. E[1] = Len(w) /\ E[n] = M + 1
  BY <1>1
<1>3. ASSUME NEW i \in 1 .. n PROVE E[i] \in 1 .. Len(w) /\ w[E[i]] = Closer(K[i])
  <2>1. E[i] = M + (n + 1 - i) /\ n + 1 - i \in 1 .. n /\ n + 1 - (n + 1 - i) = i
    BY <1>1
  <2>2. w[M + (n + 1 - i)] = Closer(K[n + 1 - (n + 1 - i)])
    BY <2>1
  <2>. QED
    BY <2>1, <2>2
<1>4. ASSUME NEW i \in 1 .. n - 1 PROVE Expected(w, E[i + 1], K[i], E[i], "after")
  <2>. DEFINE P == E[i + 1]
  <2>1. i \in 1 .. n /\ i + 1 \in 1 .. n
    OBVIOUS
  <2>2. P \in 1 .. Len(w) /\ E[i] = P + 1
    BY <1>1, <1>3, <2>1
  <2>3. P \in Nat /\ K[i] \in Kinds /\ P + 1 \in 1 .. Len(w) /\ w[P + 1] = Closer(K[i])
    BY <1>3, <2>1, <2>2
  <2>4. Inside(w, P, K[i], E[i]) /\ P + 1 <= Len(w)
    BY <2>2, <2>3 DEF Inside
  <2>. HIDE DEF P
  <2>5. Expected(w, P, K[i], E[i], "after") <=> Inside(w, P, K[i], E[i]) /\ E[i] = P + 1
    BY ONLY <2>3, <2>4, w \in Seq(Tokens), AfterToken
  <2>. QED
    BY <2>2, <2>4, <2>5 DEF P
<1>5. Nested(w, n, K, E)
  BY <1>2, <1>4 DEF Nested
<1>. QED
  BY <1>1, <1>2, <1>5 DEF Fits

\* What completes an item.
RestOf(mode) ==
  CASE mode = "colon" -> <<"colon", "word">>
    [] mode = "value" -> <<"word">>
    [] OTHER -> <<>>

Modes == {"item", "colon", "value", "after"}

LEMMA RestExpected ==
  ASSUME NEW w \in Seq(Tokens), NEW L \in Nat, NEW kind \in Kinds, NEW mode \in Modes, NEW M,
         M = L + Len(RestOf(mode)), M + 1 <= Len(w), w[M + 1] = Closer(kind),
         \A j \in 1 .. Len(RestOf(mode)) : w[L + j] = RestOf(mode)[j]
  PROVE  Expected(w, L, kind, M + 1, mode)
<1>1. ASSUME NEW P \in Nat, P + 1 = M + 1 PROVE Expected(w, P, kind, M + 1, "after")
  <2>1. M + 1 = P + 1 /\ P + 1 <= Len(w) /\ w[P + 1] = Closer(kind)
    BY <1>1
  <2>2. Inside(w, P, kind, M + 1)
    BY <1>1, <2>1 DEF Inside
  <2>3. Expected(w, P, kind, M + 1, "after") <=> Inside(w, P, kind, M + 1) /\ M + 1 = P + 1
    BY ONLY <2>1, P \in Nat, kind \in Kinds, w \in Seq(Tokens), AfterToken
  <2>. QED
    BY <2>1, <2>2, <2>3
<1>2. ASSUME NEW P \in Nat, P + 1 = M, w[P + 1] = "word" PROVE Expected(w, P, kind, M + 1, "value")
  <2>1. P + 1 <= Len(w) /\ w[P + 1] \in Literals \cup Strings
    BY <1>2 DEF Literals
  <2>2. Expected(w, P, kind, M + 1, "value") <=> Expected(w, P + 1, kind, M + 1, "after")
    BY ONLY <2>1, P \in Nat, kind \in Kinds, w \in Seq(Tokens), ValueToken
  <2>3. P + 1 \in Nat /\ (P + 1) + 1 = M + 1
    BY <1>2
  <2>. QED
    BY <1>1, <2>2, <2>3
<1>3. CASE mode = "after"
  <2>1. L + 1 = M + 1
    BY <1>3 DEF RestOf
  <2>. QED
    BY <1>1, <1>3, <2>1
<1>4. CASE mode = "item"
  <2>1. L + 1 = M + 1
    BY <1>4 DEF RestOf
  <2>2. L + 1 <= Len(w) /\ w[L + 1] = Closer(kind) /\ Inside(w, L, kind, M + 1)
    BY <2>1 DEF Inside
  <2>3. kind = "object" => Expected(w, L, kind, M + 1, "item")
    <3>1. ASSUME kind = "object" PROVE Expected(w, L, "object", M + 1, "item")
      <4>1. Inside(w, L, "object", M + 1) /\ w[L + 1] = "rbrace" /\ M + 1 = L + 1
        BY <2>1, <2>2, <3>1 DEF Closer
      <4>. QED
        BY ONLY <2>2, <4>1, L \in Nat, w \in Seq(Tokens), FieldToken
    <3>. QED
      BY <3>1
  <2>4. kind = "array" => Expected(w, L, kind, M + 1, "item")
    <3>1. ASSUME kind = "array" PROVE Expected(w, L, "array", M + 1, "item")
      <4>1. Inside(w, L, "array", M + 1) /\ w[L + 1] = "rsqbracket" /\ M + 1 = L + 1
        BY <2>1, <2>2, <3>1 DEF Closer
      <4>. QED
        BY ONLY <2>2, <4>1, L \in Nat, w \in Seq(Tokens), ElementToken
    <3>. QED
      BY <3>1
  <2>. QED
    BY <1>4, <2>3, <2>4 DEF Kinds
<1>5. CASE mode = "value"
  <2>1. RestOf(mode) = <<"word">>
    BY <1>5 DEF RestOf
  <2>2. L + 1 = M /\ w[L + 1] = "word"
    BY <2>1
  <2>. QED
    BY <1>2, <1>5, <2>2
<1>6. CASE mode = "colon"
  <2>1. RestOf(mode) = <<"colon", "word">>
    BY <1>6 DEF RestOf
  <2>2. M = L + 2 /\ w[L + 1] = "colon" /\ w[L + 2] = "word"
    BY <2>1
  <2>3. L + 1 <= Len(w) /\ L + 1 \in Nat /\ (L + 1) + 1 = M
    BY <2>2
  <2>4. Expected(w, L, kind, M + 1, "colon") <=> Expected(w, L + 1, kind, M + 1, "value")
    BY ONLY <2>2, <2>3, L \in Nat, kind \in Kinds, w \in Seq(Tokens), ColonToken
  <2>5. w[(L + 1) + 1] = "word"
    BY <2>2
  <2>. QED
    BY <1>2, <1>6, <2>3, <2>4, <2>5
<1>. QED
  BY <1>3, <1>4, <1>5, <1>6 DEF Modes

Extends(w, r) == Len(r) <= Len(w) /\ \A i \in 1 .. Len(r) : w[i] = r[i]

\* What is read when n lists are open, and which of its extensions are
\* documents: those that go on as is expected.
OpenAt(r, n, K, mode) ==
  /\ r \in Seq(Tokens) /\ r # <<>>
  /\ \A i \in 1 .. Len(r) : r[i] \notin Final
  /\ n \in Nat \ {0} /\ mode \in Modes /\ \A i \in 1 .. n : K[i] \in Kinds
  /\ ClosersAre(Closers(r), n, K)
  /\ \A w \in Seq(Tokens) : Extends(w, r) => (IsDocument(w) <=> Fits(w, n, K, Len(r), mode))

\* What is read when the root is closed: it is the only document.
Complete(r) ==
  /\ r \in Seq(Tokens)
  /\ \A i \in 1 .. Len(r) : r[i] \notin Final
  /\ \A w \in Seq(Tokens) : Extends(w, r) => (IsDocument(w) <=> Len(w) = Len(r))

\* What is read when an error is met, at the first token that is one.
Wrong(r) ==
  /\ r \in Seq(Tokens) /\ Closers(r) \in Seq(Tokens)
  /\ \A i \in 1 .. Len(r) - 1 : r[i] \notin Final
  /\ \A w \in Seq(Tokens) : Extends(w, r) => ~IsDocument(w)
  /\ Front(r) # <<>> => IsPrefixOfDocument(Front(r))

LEMMA RestIs ==
  /\ {<<>>, <<"word">>, <<"colon", "word">>} \subseteq Seq(Tokens)
  /\ \A mode : RestOf(mode) \in {<<>>, <<"word">>, <<"colon", "word">>}
<1>1. "word" \in Tokens /\ "colon" \in Tokens
  BY DEF Tokens, Symbols, Literals
<1>2. <<"word">> \in Seq(Tokens) /\ <<"colon", "word">> \in Seq(Tokens) /\ <<>> \in Seq(Tokens)
  BY <1>1
<1>3. \A mode : RestOf(mode) = <<>> \/ RestOf(mode) = <<"word">> \/ RestOf(mode) = <<"colon", "word">>
  BY DEF RestOf
<1>. QED
  BY <1>2, <1>3

\* Three sequences, one after the other.
LEMMA ThreeParts ==
  ASSUME NEW S, NEW r \in Seq(S), NEW x \in Seq(S), NEW c \in Seq(S)
  PROVE  /\ r \o x \o c \in Seq(S) /\ Len(r \o x \o c) = Len(r) + Len(x) + Len(c)
         /\ \A i \in 1 .. Len(r) : (r \o x \o c)[i] = r[i]
         /\ \A j \in 1 .. Len(x) : (r \o x \o c)[Len(r) + j] = x[j]
         /\ \A j \in 1 .. Len(c) : (r \o x \o c)[Len(r) + Len(x) + j] = c[j]
<1>. DEFINE u == r \o x
<1>1. /\ u \in Seq(S) /\ Len(u) = Len(r) + Len(x) /\ Len(r) \in Nat /\ Len(x) \in Nat /\ Len(c) \in Nat
      /\ \A i \in 1 .. Len(r) : u[i] = r[i]
      /\ \A j \in 1 .. Len(x) : u[Len(r) + j] = x[j]
  OBVIOUS
<1>. HIDE DEF u
<1>2. /\ u \o c \in Seq(S) /\ Len(u \o c) = Len(u) + Len(c)
      /\ \A i \in 1 .. Len(u) : (u \o c)[i] = u[i]
      /\ \A j \in 1 .. Len(c) : (u \o c)[Len(u) + j] = c[j]
  <2>1. u \in Seq(S) /\ c \in Seq(S) /\ Len(u) \in Nat /\ Len(c) \in Nat
    BY <1>1
  <2>. QED
    BY ONLY <2>1
<1>3. \A i \in 1 .. Len(r) : i \in 1 .. Len(u)
  BY <1>1
<1>4. \A j \in 1 .. Len(x) : Len(r) + j \in 1 .. Len(u)
  BY <1>1
<1>5. \A j \in 1 .. Len(c) : (u \o c)[Len(r) + Len(x) + j] = c[j]
  BY ONLY <1>1, <1>2
<1>6. \A i \in 1 .. Len(r) : (u \o c)[i] = r[i]
  BY ONLY <1>1, <1>2, <1>3
<1>7. \A j \in 1 .. Len(x) : (u \o c)[Len(r) + j] = x[j]
  BY ONLY <1>1, <1>2, <1>4
<1>8. Len(u \o c) = Len(r) + Len(x) + Len(c)
  BY ONLY <1>1, <1>2
<1>. QED
  BY ONLY <1>2, <1>5, <1>6, <1>7, <1>8 DEF u

LEMMA OpenIsPrefix ==
  ASSUME NEW r, NEW n, NEW K, NEW mode, OpenAt(r, n, K, mode)
  PROVE  IsPrefixOfDocument(r)
<1>. DEFINE c == Closers(r)
            rest == RestOf(mode)
            w == r \o rest \o c
            L == Len(r)
            M == L + Len(rest)
<1>1. r \in Seq(Tokens) /\ n \in Nat \ {0} /\ mode \in Modes /\ \A i \in 1 .. n : K[i] \in Kinds
  BY DEF OpenAt
<1>2. c \in Seq(Tokens) /\ Len(c) = n /\ \A j \in 1 .. n : c[j] = Closer(K[n + 1 - j])
  BY DEF OpenAt, ClosersAre
<1>3. rest \in Seq(Tokens) /\ rest \in {<<>>, <<"word">>, <<"colon", "word">>}
  BY RestIs
<1>4. L \in Nat /\ M \in Nat
  BY <1>1, <1>3
<1>5. \A x \in Seq(Tokens) : Extends(x, r) => (IsDocument(x) <=> Fits(x, n, K, L, mode))
  BY DEF OpenAt
<1>. HIDE DEF c, rest
<1>6. /\ w \in Seq(Tokens) /\ Len(w) = M + n
      /\ \A i \in 1 .. L : w[i] = r[i]
      /\ \A j \in 1 .. Len(rest) : w[L + j] = rest[j]
      /\ \A j \in 1 .. n : w[M + j] = c[j]
  <2>1. /\ w \in Seq(Tokens) /\ Len(w) = Len(r) + Len(rest) + Len(c)
        /\ \A i \in 1 .. Len(r) : w[i] = r[i]
        /\ \A j \in 1 .. Len(rest) : w[Len(r) + j] = rest[j]
        /\ \A j \in 1 .. Len(c) : w[Len(r) + Len(rest) + j] = c[j]
    <3>1. r \in Seq(Tokens) /\ rest \in Seq(Tokens) /\ c \in Seq(Tokens)
      BY <1>1, <1>2, <1>3
    <3>. QED
      BY ONLY <3>1, ThreeParts
  <2>. HIDE DEF w
  <2>. QED
    BY <1>2, <2>1
<1>. HIDE DEF w, L
<1>7. Extends(w, r)
  BY <1>1, <1>4, <1>6, <1>3 DEF Extends, L
<1>8. \A j \in 1 .. n : w[M + j] = Closer(K[n + 1 - j])
  BY <1>2, <1>6
<1>9. w[M + 1] = Closer(K[n]) /\ M + 1 <= Len(w)
  <2>1. 1 \in 1 .. n /\ n + 1 - 1 = n
    BY <1>1
  <2>2. w[M + 1] = Closer(K[n + 1 - 1])
    BY <1>8, <2>1, Zenon
  <2>3. M + 1 <= Len(w)
    BY <1>1, <1>4, <1>6
  <2>. QED
    BY ONLY <2>1, <2>2, <2>3
<1>10. Expected(w, L, K[n], M + 1, mode)
  <2>1. K[n] \in Kinds
    BY <1>1
  <2>2. M = L + Len(RestOf(mode)) /\ \A j \in 1 .. Len(RestOf(mode)) : w[L + j] = RestOf(mode)[j]
    BY <1>6 DEF rest
  <2>. HIDE DEF M
  <2>. QED
    BY ONLY <1>1, <1>4, <1>6, <1>9, <2>1, <2>2, RestExpected
<1>11. Fits(w, n, K, L, mode)
  <2>. HIDE DEF M
  <2>. QED
    BY ONLY <1>1, <1>4, <1>6, <1>8, <1>10, FitsCompleted
<1>12. IsDocument(w)
  BY <1>5, <1>6, <1>7, <1>11
<1>. QED
  BY <1>3, <1>12 DEF IsPrefixOfDocument, w, c

LEMMA WrongIsNoPrefix ==
  ASSUME NEW r, Wrong(r)
  PROVE  ~IsPrefixOfDocument(r)
<1>1. SUFFICES ASSUME NEW rest \in {<<>>, <<"word">>, <<"colon", "word">>}, IsDocument(r \o rest \o Closers(r))
               PROVE  FALSE
  BY DEF IsPrefixOfDocument
<1>. DEFINE c == Closers(r)
            w == r \o rest \o c
<1>2. r \in Seq(Tokens) /\ c \in Seq(Tokens) /\ rest \in Seq(Tokens)
  BY RestIs DEF Wrong
<1>. HIDE DEF c
<1>3. w \in Seq(Tokens) /\ Len(r) <= Len(w) /\ \A i \in 1 .. Len(r) : w[i] = r[i]
  BY <1>2, ThreeParts
<1>4. IsDocument(w)
  BY <1>1 DEF c
<1>. HIDE DEF w
<1>. QED
  BY <1>3, <1>4 DEF Wrong, Extends

\* What one more token does to what can follow.
LEMMA ExtendsAppend ==
  ASSUME NEW r \in Seq(Tokens), NEW t \in Tokens, NEW w \in Seq(Tokens), Extends(w, Append(r, t))
  PROVE  Extends(w, r) /\ Len(r) \in Nat /\ Len(r) + 1 <= Len(w) /\ w[Len(r) + 1] = t
BY DEF Extends

LEMMA AppendFacts ==
  ASSUME NEW r \in Seq(Tokens), NEW t \in Tokens
  PROVE  /\ Append(r, t) \in Seq(Tokens) /\ Append(r, t) # <<>>
         /\ Len(Append(r, t)) = Len(r) + 1 /\ Len(r) \in Nat
         /\ Front(Append(r, t)) = r
         /\ (\A i \in 1 .. Len(r) : r[i] \notin Final) =>
              /\ \A i \in 1 .. Len(r) : Append(r, t)[i] \notin Final
              /\ t \notin Final => \A i \in 1 .. Len(r) + 1 : Append(r, t)[i] \notin Final
<1>1. Front(Append(r, t)) = SubSeq(Append(r, t), 1, Len(Append(r, t)) - 1)
  BY DEF Front
<1>2. SubSeq(Append(r, t), 1, Len(r)) = r
  OBVIOUS
<1>. QED
  BY <1>1, <1>2

\* q has one token more than r; what was expected before it is, after it, what
\* the second mode expects.
Turns(q, L, kind, mode, mode1) ==
  \A w \in Seq(Tokens) : Extends(w, q) =>
    \A e : Expected(w, L, kind, e, mode) <=> Expected(w, L + 1, kind, e, mode1)
Fails(q, L, kind, mode) ==
  \A w \in Seq(Tokens) : Extends(w, q) => \A e : ~Expected(w, L, kind, e, mode)
Ends(q, L, kind, mode) ==
  \A w \in Seq(Tokens) : Extends(w, q) =>
    \A e : Expected(w, L, kind, e, mode) <=> Inside(w, L, kind, e) /\ e = L + 1
Opens(q, L, kind, inner, mode) ==
  \A w \in Seq(Tokens) : Extends(w, q) =>
    \A e : Expected(w, L, kind, e, mode)
           <=> \E k \in Nat : Expected(w, L + 1, inner, k, "item") /\ Expected(w, k, kind, e, "after")

LEMMA TurnsOn ==
  ASSUME NEW r, NEW n, NEW K, NEW mode, OpenAt(r, n, K, mode), NEW t \in Tokens,
         t \notin Final \cup {"lbrace", "rbrace", "lsqbracket", "rsqbracket"},
         NEW mode1 \in Modes, Turns(Append(r, t), Len(r), K[n], mode, mode1)
  PROVE  OpenAt(Append(r, t), n, K, mode1)
<1>. DEFINE q == Append(r, t)
            L == Len(r)
<1>1. r \in Seq(Tokens) /\ \A i \in 1 .. Len(r) : r[i] \notin Final
  BY DEF OpenAt
<1>2. q \in Seq(Tokens) /\ q # <<>> /\ Len(q) = L + 1 /\ \A i \in 1 .. Len(q) : q[i] \notin Final
  BY <1>1, AppendFacts
<1>3. Closers(q) = Closers(r)
  BY <1>1, ClosersAppend, ClosersKept
<1>4. ASSUME NEW w \in Seq(Tokens), Extends(w, q) PROVE IsDocument(w) <=> Fits(w, n, K, L + 1, mode1)
  <2>1. Extends(w, r)
    BY <1>1, <1>4, ExtendsAppend
  <2>2. IsDocument(w) <=> Fits(w, n, K, L, mode)
    BY <2>1 DEF OpenAt
  <2>. DEFINE M == L + 1
  <2>3. \A e : Expected(w, L, K[n], e, mode) <=> Expected(w, M, K[n], e, mode1)
    BY <1>4, Zenon DEF Turns
  <2>. HIDE DEF L, M
  <2>4. Fits(w, n, K, L, mode) <=> Fits(w, n, K, M, mode1)
    BY ONLY <2>3, FitsSame
  <2>. QED
    BY <2>2, <2>4 DEF L, M
<1>5. n \in Nat \ {0} /\ (\A i \in 1 .. n : K[i] \in Kinds) /\ ClosersAre(Closers(r), n, K)
  BY DEF OpenAt
<1>. HIDE DEF q
<1>6. OpenAt(q, n, K, mode1)
  BY <1>2, <1>3, <1>4, <1>5, Zenon DEF OpenAt
<1>. QED
  BY <1>6 DEF q

LEMMA StepTokens ==
  ASSUME NEW c \in Seq(Tokens), NEW t
  PROVE  CloserStep(c, t) \in Seq(Tokens)
<1>1. <<"rbrace">> \o c \in Seq(Tokens) /\ <<"rsqbracket">> \o c \in Seq(Tokens)
  BY DEF Tokens, Symbols
<1>2. c # <<>> => Tail(c) \in Seq(Tokens)
  OBVIOUS
<1>. QED
  BY <1>1, <1>2 DEF CloserStep

LEMMA FailsOn ==
  ASSUME NEW r, NEW n, NEW K, NEW mode, OpenAt(r, n, K, mode), NEW t \in Tokens,
         Fails(Append(r, t), Len(r), K[n], mode)
  PROVE  Wrong(Append(r, t))
<1>. DEFINE q == Append(r, t)
            L == Len(r)
<1>1. r \in Seq(Tokens) /\ \A i \in 1 .. Len(r) : r[i] \notin Final
  BY DEF OpenAt
<1>2. q \in Seq(Tokens) /\ Len(q) - 1 = L /\ Front(q) = r /\ \A i \in 1 .. L : q[i] \notin Final
  BY <1>1, AppendFacts
<1>3. Closers(q) \in Seq(Tokens)
  <2>1. Closers(r) \in Seq(Tokens)
    BY DEF OpenAt, ClosersAre
  <2>. QED
    BY <1>1, <2>1, ClosersAppend, StepTokens
<1>4. ASSUME NEW w \in Seq(Tokens), Extends(w, q) PROVE ~IsDocument(w)
  <2>1. Extends(w, r)
    BY <1>1, <1>4, ExtendsAppend
  <2>2. IsDocument(w) <=> Fits(w, n, K, L, mode)
    BY <2>1 DEF OpenAt
  <2>3. \A e : ~Expected(w, L, K[n], e, mode)
    BY <1>4, Zenon DEF Fails
  <2>. HIDE DEF L
  <2>4. ~Fits(w, n, K, L, mode)
    BY ONLY <2>3, FitsNot
  <2>. QED
    BY <2>2, <2>4
<1>5. IsPrefixOfDocument(r)
  BY OpenIsPrefix
<1>. HIDE DEF q
<1>6. Wrong(q)
  BY <1>2, <1>3, <1>4, <1>5 DEF Wrong
<1>. QED
  BY <1>6 DEF q

LEMMA EndsOn ==
  ASSUME NEW r, NEW n, NEW K, NEW mode, OpenAt(r, n, K, mode), NEW t \in Tokens,
         t = Closer(K[n]), Ends(Append(r, t), Len(r), K[n], mode)
  PROVE  /\ n = 1 => Complete(Append(r, t))
         /\ n > 1 => OpenAt(Append(r, t), n - 1, K, "after")
<1>. DEFINE q == Append(r, t)
            L == Len(r)
<1>1. r \in Seq(Tokens) /\ \A i \in 1 .. Len(r) : r[i] \notin Final
  BY DEF OpenAt
<1>2. n \in Nat \ {0} /\ (\A i \in 1 .. n : K[i] \in Kinds) /\ ClosersAre(Closers(r), n, K)
  BY DEF OpenAt
<1>3. t \in {"rbrace", "rsqbracket"}
  BY DEF Closer
<1>4. t \notin Final
  BY <1>3 DEF Final
<1>5. q \in Seq(Tokens) /\ q # <<>> /\ Len(q) = L + 1 /\ \A i \in 1 .. Len(q) : q[i] \notin Final
  BY <1>1, <1>4, AppendFacts
<1>6. ASSUME NEW w \in Seq(Tokens), Extends(w, q)
      PROVE  /\ n = 1 => (IsDocument(w) <=> Len(w) = L + 1)
             /\ n > 1 => (IsDocument(w) <=> Fits(w, n - 1, K, L + 1, "after"))
  <2>1. Extends(w, r) /\ L \in Nat /\ L + 1 <= Len(w) /\ w[L + 1] = Closer(K[n])
    BY <1>1, <1>6, ExtendsAppend
  <2>2. IsDocument(w) <=> Fits(w, n, K, L, mode)
    BY <2>1 DEF OpenAt
  <2>3. \A e : Expected(w, L, K[n], e, mode) <=> Inside(w, L, K[n], e) /\ e = L + 1
    BY <1>6, Zenon DEF Ends
  <2>. HIDE DEF L
  <2>4. /\ n = 1 => (Fits(w, n, K, L, mode) <=> Len(w) = L + 1)
        /\ n > 1 => (Fits(w, n, K, L, mode) <=> Fits(w, n - 1, K, L + 1, "after"))
    BY ONLY <1>2, <2>1, <2>3, w \in Seq(Tokens), FitsPop
  <2>. QED
    BY <2>2, <2>4
<1>7. ClosersAre(Closers(q), n - 1, K)
  <2>1. Closers(q) = CloserStep(Closers(r), t)
    BY <1>1, ClosersAppend
  <2>. QED
    BY ONLY <1>2, <1>3, <2>1, ClosersClose
<1>8. n > 1 => n - 1 \in Nat \ {0} /\ \A i \in 1 .. n - 1 : K[i] \in Kinds
  BY <1>2
<1>. HIDE DEF q
<1>9. n = 1 => Complete(q)
  BY <1>5, <1>6 DEF Complete
<1>10. ASSUME n > 1 PROVE OpenAt(q, n - 1, K, "after")
  <2>. DEFINE m == n - 1
  <2>1. "after" \in Modes
    BY DEF Modes
  <2>2. \A w \in Seq(Tokens) : Extends(w, q) => (IsDocument(w) <=> Fits(w, m, K, Len(q), "after"))
    BY <1>5, <1>6, <1>10
  <2>3. m \in Nat \ {0} /\ (\A i \in 1 .. m : K[i] \in Kinds) /\ ClosersAre(Closers(q), m, K)
    BY <1>7, <1>8, <1>10
  <2>. HIDE DEF m
  <2>4. OpenAt(q, m, K, "after")
    BY <1>5, <2>1, <2>2, <2>3 DEF OpenAt
  <2>. QED
    BY <2>4 DEF m
<1>. QED
  BY <1>9, <1>10 DEF q

LEMMA OpensOn ==
  ASSUME NEW r, NEW n, NEW K, NEW mode, OpenAt(r, n, K, mode), NEW t \in Tokens, NEW K1,
         \A i \in 1 .. n : K1[i] = K[i], K1[n + 1] \in Kinds, t = Opener(K1[n + 1]),
         Opens(Append(r, t), Len(r), K[n], K1[n + 1], mode)
  PROVE  OpenAt(Append(r, t), n + 1, K1, "item")
<1>. DEFINE q == Append(r, t)
            L == Len(r)
<1>1. r \in Seq(Tokens) /\ \A i \in 1 .. Len(r) : r[i] \notin Final
  BY DEF OpenAt
<1>2. n \in Nat \ {0} /\ (\A i \in 1 .. n : K[i] \in Kinds) /\ ClosersAre(Closers(r), n, K) /\ K1[n] = K[n]
  BY DEF OpenAt
<1>3. t \notin Final
  BY DEF Opener, Final
<1>4. q \in Seq(Tokens) /\ q # <<>> /\ Len(q) = L + 1 /\ \A i \in 1 .. Len(q) : q[i] \notin Final
  BY <1>1, <1>3, AppendFacts
<1>5. ASSUME NEW w \in Seq(Tokens), Extends(w, q) PROVE IsDocument(w) <=> Fits(w, n + 1, K1, L + 1, "item")
  <2>1. Extends(w, r)
    BY <1>1, <1>5, ExtendsAppend
  <2>2. IsDocument(w) <=> Fits(w, n, K, L, mode)
    BY <2>1 DEF OpenAt
  <2>. DEFINE M == L + 1
  <2>3. \A e : Expected(w, L, K1[n], e, mode)
               <=> \E k \in Nat : Expected(w, M, K1[n + 1], k, "item") /\ Expected(w, k, K1[n], e, "after")
    BY <1>2, <1>5, Zenon DEF Opens
  <2>. HIDE DEF L, M
  <2>4. Fits(w, n, K1, L, mode) <=> Fits(w, n + 1, K1, M, "item")
    BY ONLY <1>2, <2>3, FitsPush
  <2>5. Fits(w, n, K, L, mode) <=> Fits(w, n, K1, L, mode)
    BY <1>2, FitsAgree
  <2>. QED
    BY <2>2, <2>4, <2>5 DEF M
<1>6. ClosersAre(Closers(q), n + 1, K1)
  <2>1. Closers(q) = CloserStep(Closers(r), t)
    BY <1>1, ClosersAppend
  <2>2. ClosersAre(Closers(r), n, K1)
    <3>1. \A j \in 1 .. n : n + 1 - j \in 1 .. n
      BY <1>2
    <3>. QED
      BY <1>2, <3>1 DEF ClosersAre
  <2>3. n \in Nat
    BY <1>2
  <2>4. ClosersAre(CloserStep(Closers(r), Opener(K1[n + 1])), n + 1, K1)
    BY <2>2, <2>3, ClosersOpen
  <2>. QED
    BY <2>1, <2>4
<1>7. n + 1 \in Nat \ {0} /\ \A i \in 1 .. n + 1 : K1[i] \in Kinds
  <2>1. ASSUME NEW i \in 1 .. n + 1 PROVE K1[i] \in Kinds
    <3>1. i = n + 1 \/ i \in 1 .. n
      BY <1>2
    <3>. QED
      BY <1>2, <3>1
  <2>. QED
    BY <1>2, <2>1
<1>. DEFINE m == n + 1
<1>8. "item" \in Modes
  BY DEF Modes
<1>9. \A w \in Seq(Tokens) : Extends(w, q) => (IsDocument(w) <=> Fits(w, m, K1, Len(q), "item"))
  BY <1>4, <1>5
<1>10. m \in Nat \ {0} /\ (\A i \in 1 .. m : K1[i] \in Kinds) /\ ClosersAre(Closers(q), m, K1)
  BY <1>6, <1>7
<1>. HIDE DEF q, m
<1>11. OpenAt(q, m, K1, "item")
  BY <1>4, <1>8, <1>9, <1>10 DEF OpenAt
<1>. QED
  BY <1>11 DEF q, m

\* What a token does in each place.
LEMMA FieldIsRead ==
  ASSUME NEW r, NEW n, NEW K, OpenAt(r, n, K, "item"), K[n] = "object", NEW t \in Tokens
  PROVE  /\ t = "rbrace" => /\ n = 1 => Complete(Append(r, t))
                            /\ n > 1 => OpenAt(Append(r, t), n - 1, K, "after")
         /\ t \in Strings => OpenAt(Append(r, t), n, K, "colon")
         /\ t \notin {"rbrace"} \cup Strings => Wrong(Append(r, t))
<1>. DEFINE q == Append(r, t)
            L == Len(r)
<1>1. r \in Seq(Tokens) /\ L \in Nat
  BY DEF OpenAt
<1>2. ASSUME NEW w \in Seq(Tokens), Extends(w, q)
      PROVE  /\ w[L + 1] = t
             /\ \A e : t = "rbrace" => (Expected(w, L, "object", e, "item") <=> Inside(w, L, "object", e) /\ e = L + 1)
             /\ \A e : t \in Strings => (Expected(w, L, "object", e, "item") <=> Expected(w, L + 1, "object", e, "colon"))
             /\ \A e : t \notin {"rbrace"} \cup Strings => ~Expected(w, L, "object", e, "item")
  <2>1. L + 1 <= Len(w) /\ w[L + 1] = t
    BY <1>1, <1>2, ExtendsAppend
  <2>. HIDE DEF L
  <2>. QED
    BY <1>1, <2>1, FieldToken
<1>. HIDE DEF q, L
<1>3. ASSUME t = "rbrace" PROVE (n = 1 => Complete(q)) /\ (n > 1 => OpenAt(q, n - 1, K, "after"))
  <2>1. Ends(q, L, K[n], "item")
    BY <1>2, <1>3 DEF Ends
  <2>2. t = Closer(K[n])
    BY <1>3 DEF Closer
  <2>. QED
    BY <2>1, <2>2, EndsOn DEF q, L
<1>4. ASSUME t \in Strings PROVE OpenAt(q, n, K, "colon")
  <2>1. Turns(q, L, K[n], "item", "colon")
    BY <1>2, <1>4 DEF Turns
  <2>2. t \notin Final \cup {"lbrace", "rbrace", "lsqbracket", "rsqbracket"} /\ "colon" \in Modes
    BY <1>4, TokensApart DEF Modes, Kinds, Opener, Closer
  <2>. QED
    BY <2>1, <2>2, TurnsOn DEF q, L
<1>5. ASSUME t \notin {"rbrace"} \cup Strings PROVE Wrong(q)
  <2>1. Fails(q, L, K[n], "item")
    BY <1>2, <1>5 DEF Fails
  <2>. QED
    BY <2>1, FailsOn DEF q, L
<1>. QED
  BY <1>3, <1>4, <1>5 DEF q

LEMMA ColonIsRead ==
  ASSUME NEW r, NEW n, NEW K, OpenAt(r, n, K, "colon"), NEW t \in Tokens
  PROVE  /\ t = "colon" => OpenAt(Append(r, t), n, K, "value")
         /\ t # "colon" => Wrong(Append(r, t))
<1>. DEFINE q == Append(r, t)
            L == Len(r)
<1>1. r \in Seq(Tokens) /\ L \in Nat /\ K[n] \in Kinds
  BY DEF OpenAt
<1>2. ASSUME NEW w \in Seq(Tokens), Extends(w, q)
      PROVE  /\ \A e : t = "colon" => (Expected(w, L, K[n], e, "colon") <=> Expected(w, L + 1, K[n], e, "value"))
             /\ \A e : t # "colon" => ~Expected(w, L, K[n], e, "colon")
  <2>1. L + 1 <= Len(w) /\ w[L + 1] = t
    BY <1>1, <1>2, ExtendsAppend
  <2>. HIDE DEF L
  <2>. QED
    BY <1>1, <2>1, ColonToken
<1>. HIDE DEF q, L
<1>3. ASSUME t = "colon" PROVE OpenAt(q, n, K, "value")
  <2>1. Turns(q, L, K[n], "colon", "value")
    BY <1>2, <1>3 DEF Turns
  <2>2. t \notin Final \cup {"lbrace", "rbrace", "lsqbracket", "rsqbracket"} /\ "value" \in Modes
    BY <1>3 DEF Modes, Final
  <2>. QED
    BY <2>1, <2>2, TurnsOn DEF q, L
<1>4. ASSUME t # "colon" PROVE Wrong(q)
  <2>1. Fails(q, L, K[n], "colon")
    BY <1>2, <1>4 DEF Fails
  <2>. QED
    BY <2>1, FailsOn DEF q, L
<1>. QED
  BY <1>3, <1>4 DEF q

\* A value, or the first token of an element.
LEMMA ValueIsRead ==
  ASSUME NEW r, NEW n, NEW K, NEW mode, OpenAt(r, n, K, mode), NEW t \in Tokens,
         mode = "value" \/ (mode = "item" /\ K[n] = "array" /\ t # "rsqbracket"), NEW K1, \A i \in 1 .. n : K1[i] = K[i]
  PROVE  /\ K1[n + 1] \in Kinds /\ t = Opener(K1[n + 1]) => OpenAt(Append(r, t), n + 1, K1, "item")
         /\ t \in Literals \cup Strings => OpenAt(Append(r, t), n, K, "after")
         /\ t \notin Literals \cup Strings \cup {"lbrace", "lsqbracket"} => Wrong(Append(r, t))
<1>. DEFINE q == Append(r, t)
            L == Len(r)
<1>1. r \in Seq(Tokens) /\ L \in Nat /\ K[n] \in Kinds
  BY DEF OpenAt
<1>2. ASSUME NEW w \in Seq(Tokens), Extends(w, q)
      PROVE  /\ L + 1 <= Len(w) /\ w[L + 1] = t
             /\ \A e : Expected(w, L, K[n], e, mode) <=> Expected(w, L, K[n], e, "value")
  <2>1. L + 1 <= Len(w) /\ w[L + 1] = t
    BY <1>1, <1>2, ExtendsAppend
  <2>. HIDE DEF L
  <2>2. CASE mode = "value"
    BY <2>1, <2>2
  <2>3. CASE mode = "item" /\ K[n] = "array" /\ t # "rsqbracket"
    <3>1. \A e : Expected(w, L, "array", e, "item") <=> Expected(w, L, "array", e, "value")
      BY <1>1, <2>1, <2>3, ElementToken
    <3>. QED
      BY <2>1, <2>3, <3>1
  <2>. QED
    BY <2>2, <2>3
<1>. HIDE DEF q, L
<1>3. ASSUME K1[n + 1] \in Kinds, t = Opener(K1[n + 1]) PROVE OpenAt(q, n + 1, K1, "item")
  <2>1. ASSUME NEW w \in Seq(Tokens), Extends(w, q)
        PROVE  \A e : Expected(w, L, K[n], e, mode)
                 <=> \E k \in Nat : Expected(w, L + 1, K1[n + 1], k, "item") /\ Expected(w, k, K[n], e, "after")
    <3>1. L + 1 <= Len(w) /\ w[L + 1] = Opener(K1[n + 1])
      BY <1>2, <1>3, <2>1
    <3>. DEFINE inner == K1[n + 1]
                kind == K[n]
    <3>2. inner \in Kinds /\ kind \in Kinds /\ w[L + 1] = Opener(inner)
      BY <1>1, <1>3, <3>1
    <3>. HIDE DEF inner, kind
    <3>3. \A e : Expected(w, L, kind, e, "value")
                 <=> \E k \in Nat : Expected(w, L + 1, inner, k, "item") /\ Expected(w, k, kind, e, "after")
      BY ONLY <1>1, <3>1, <3>2, w \in Seq(Tokens), OpenerToken
    <3>. QED
      BY <1>2, <2>1, <3>3 DEF inner, kind
  <2>2. Opens(q, L, K[n], K1[n + 1], mode)
    BY <2>1, Zenon DEF Opens
  <2>. QED
    BY <1>3, <2>2, OpensOn DEF q, L
<1>4. ASSUME t \in Literals \cup Strings PROVE OpenAt(q, n, K, "after")
  <2>1. ASSUME NEW w \in Seq(Tokens), Extends(w, q), NEW e
        PROVE  Expected(w, L, K[n], e, mode) <=> Expected(w, L + 1, K[n], e, "after")
    <3>1. L + 1 <= Len(w) /\ w[L + 1] \in Literals \cup Strings
      BY <1>2, <1>4, <2>1
    <3>2. Expected(w, L, K[n], e, "value") <=> Expected(w, L + 1, K[n], e, "after")
      BY ONLY <1>1, <3>1, w \in Seq(Tokens), ValueToken
    <3>. QED
      BY <1>2, <2>1, <3>2
  <2>2. Turns(q, L, K[n], mode, "after")
    BY <2>1, Zenon DEF Turns
  <2>3. t \notin Final \cup {"lbrace", "rbrace", "lsqbracket", "rsqbracket"} /\ "after" \in Modes
    BY <1>4, TokensApart DEF Modes, Kinds, Opener, Closer
  <2>. QED
    BY <2>2, <2>3, TurnsOn DEF q, L
<1>5. ASSUME t \notin Literals \cup Strings \cup {"lbrace", "lsqbracket"} PROVE Wrong(q)
  <2>1. ASSUME NEW w \in Seq(Tokens), Extends(w, q), NEW e
        PROVE  ~Expected(w, L, K[n], e, mode)
    <3>1. L + 1 <= Len(w) /\ w[L + 1] \notin Literals \cup Strings \cup {"lbrace", "lsqbracket"}
      BY <1>2, <1>5, <2>1
    <3>2. ~Expected(w, L, K[n], e, "value")
      BY ONLY <1>1, <3>1, w \in Seq(Tokens), ValueToken
    <3>. QED
      BY <1>2, <2>1, <3>2
  <2>2. Fails(q, L, K[n], mode)
    BY <2>1, Zenon DEF Fails
  <2>. QED
    BY <2>2, FailsOn DEF q, L
<1>. QED
  BY <1>3, <1>4, <1>5 DEF q

LEMMA ElementsEnd ==
  ASSUME NEW r, NEW n, NEW K, OpenAt(r, n, K, "item"), K[n] = "array", NEW t \in Tokens, t = "rsqbracket"
  PROVE  /\ n = 1 => Complete(Append(r, t))
         /\ n > 1 => OpenAt(Append(r, t), n - 1, K, "after")
<1>. DEFINE q == Append(r, t)
            L == Len(r)
<1>1. r \in Seq(Tokens) /\ L \in Nat
  BY DEF OpenAt
<1>2. ASSUME NEW w \in Seq(Tokens), Extends(w, q)
      PROVE  \A e : Expected(w, L, "array", e, "item") <=> Inside(w, L, "array", e) /\ e = L + 1
  <2>1. L + 1 <= Len(w) /\ w[L + 1] = "rsqbracket"
    BY <1>1, <1>2, ExtendsAppend
  <2>. HIDE DEF L
  <2>. QED
    BY <1>1, <2>1, ElementToken
<1>. HIDE DEF q, L
<1>3. Ends(q, L, K[n], "item")
  BY <1>2 DEF Ends
<1>4. t = Closer(K[n])
  BY DEF Closer
<1>. QED
  BY <1>3, <1>4, EndsOn DEF q, L

LEMMA AfterIsRead ==
  ASSUME NEW r, NEW n, NEW K, OpenAt(r, n, K, "after"), NEW t \in Tokens
  PROVE  /\ t = "comma" => OpenAt(Append(r, t), n, K, "item")
         /\ t = Closer(K[n]) => /\ n = 1 => Complete(Append(r, t))
                                /\ n > 1 => OpenAt(Append(r, t), n - 1, K, "after")
         /\ t \notin {"comma", Closer(K[n])} => Wrong(Append(r, t))
<1>. DEFINE q == Append(r, t)
            L == Len(r)
            kind == K[n]
<1>1. r \in Seq(Tokens) /\ L \in Nat /\ kind \in Kinds
  BY DEF OpenAt
<1>. HIDE DEF kind
<1>2. ASSUME NEW w \in Seq(Tokens), Extends(w, q)
      PROVE  /\ \A e : t = "comma" => (Expected(w, L, kind, e, "after") <=> Expected(w, L + 1, kind, e, "item"))
             /\ \A e : t = Closer(kind) => (Expected(w, L, kind, e, "after") <=> Inside(w, L, kind, e) /\ e = L + 1)
             /\ \A e : t \notin {"comma", Closer(kind)} => ~Expected(w, L, kind, e, "after")
  <2>1. L + 1 <= Len(w) /\ w[L + 1] = t
    BY <1>1, <1>2, ExtendsAppend
  <2>. HIDE DEF L
  <2>. QED
    BY <1>1, <2>1, AfterToken
<1>. HIDE DEF q, L
<1>3. ASSUME t = "comma" PROVE OpenAt(q, n, K, "item")
  <2>1. Turns(q, L, K[n], "after", "item")
    BY <1>2, <1>3 DEF Turns, kind
  <2>2. t \notin Final \cup {"lbrace", "rbrace", "lsqbracket", "rsqbracket"} /\ "item" \in Modes
    BY <1>3 DEF Modes, Final
  <2>. QED
    BY <2>1, <2>2, TurnsOn DEF q, L
<1>4. ASSUME t = Closer(K[n]) PROVE (n = 1 => Complete(q)) /\ (n > 1 => OpenAt(q, n - 1, K, "after"))
  <2>1. Ends(q, L, K[n], "after")
    BY <1>2, <1>4 DEF Ends, kind
  <2>. QED
    BY <1>4, <2>1, EndsOn DEF q, L
<1>5. ASSUME t \notin {"comma", Closer(K[n])} PROVE Wrong(q)
  <2>1. Fails(q, L, K[n], "after")
    BY <1>2, <1>5 DEF Fails, kind
  <2>. QED
    BY <2>1, FailsOn DEF q, L
<1>. QED
  BY <1>3, <1>4, <1>5 DEF q

\* The first token.
LEMMA RootIsRead ==
  ASSUME NEW t \in Tokens, NEW K, K[1] = "object"
  PROVE  /\ t = "lbrace" => OpenAt(Append(<<>>, t), 1, K, "item")
         /\ t # "lbrace" => Wrong(Append(<<>>, t))
<1>. DEFINE q == Append(<<>>, t)
<1>1. <<>> \in Seq(Tokens) /\ Len(<<>>) = 0
  OBVIOUS
<1>2. q \in Seq(Tokens) /\ q # <<>> /\ Len(q) = 1 /\ q[1] = t
  OBVIOUS
<1>3. Front(q) = <<>>
  BY <1>1, AppendFacts
<1>4. Closers(q) = CloserStep(<<>>, t)
  BY <1>1, ClosersAppend, ClosersEmpty
<1>. HIDE DEF q
<1>5. ASSUME NEW w \in Seq(Tokens), Extends(w, q) PROVE w # <<>> /\ w[1] = t
  BY <1>2, <1>5 DEF Extends
<1>6. ASSUME t = "lbrace" PROVE OpenAt(q, 1, K, "item")
  <2>1. ASSUME NEW w \in Seq(Tokens), Extends(w, q) PROVE IsDocument(w) <=> Fits(w, 1, K, 1, "item")
    BY <1>5, <1>6, <2>1, DocumentIs
  <2>2. ClosersAre(Closers(q), 1, K)
    <3>1. ClosersAre(<<>>, 0, K)
      BY DEF ClosersAre
    <3>2. K[0 + 1] \in Kinds /\ t = Opener(K[0 + 1]) /\ 0 \in Nat /\ 0 + 1 = 1
      BY <1>6 DEF Kinds, Opener
    <3>3. ClosersAre(CloserStep(<<>>, Opener(K[0 + 1])), 0 + 1, K)
      BY <3>1, <3>2, ClosersOpen
    <3>. QED
      BY ONLY <1>4, <3>2, <3>3
  <2>3. /\ \A i \in 1 .. Len(q) : q[i] \notin Final
        /\ 1 \in Nat \ {0} /\ "item" \in Modes /\ \A i \in 1 .. 1 : K[i] \in Kinds
    BY <1>2, <1>6 DEF Final, Modes, Kinds
  <2>4. \A w \in Seq(Tokens) : Extends(w, q) => (IsDocument(w) <=> Fits(w, 1, K, Len(q), "item"))
    BY <1>2, <2>1
  <2>. QED
    BY <1>2, <2>2, <2>3, <2>4, Zenon DEF OpenAt
<1>7. ASSUME t # "lbrace" PROVE Wrong(q)
  <2>1. Closers(q) \in Seq(Tokens)
    BY <1>1, <1>4, StepTokens
  <2>2. \A w \in Seq(Tokens) : Extends(w, q) => ~IsDocument(w)
    BY <1>5, <1>7, DocumentIs DEF IsDocument
  <2>3. \A i \in 1 .. Len(q) - 1 : q[i] \notin Final
    BY <1>2
  <2>. QED
    BY <1>2, <1>3, <2>1, <2>2, <2>3, Zenon DEF Wrong
<1>. QED
  BY <1>6, <1>7 DEF q

(***************************************************************************)
(* The parser reads no further than a document can go on.                  *)
(***************************************************************************)
KindsIn(st) == [i \in 1 .. Len(st) |-> st[i].kind]
ModeAt(p) == IF p = "returned" THEN "after" ELSE p

\* The tokens there are before the end of the file is repeated.
Room(src) == IF src = <<>> THEN MaxTokens ELSE Len(src)

Reads(src, r, st, p, v) ==
  /\ src \in Seq(Tokens) /\ r \in Seq(Tokens)
  /\ \A i \in 1 .. Len(r) - 1 : r[i] \notin Final
  /\ p = "root" => r = <<>>
  /\ p \in Modes \/ (p = "returned" /\ v # Null) =>
       OpenAt(r, Len(st), KindsIn(st), ModeAt(p)) /\ Len(r) <= Room(src)
  /\ p = "parsed" /\ v # Null => Complete(r)
  /\ p \in {"returned", "parsed"} /\ v = Null => Wrong(r)

LEMMA ReadsOpen ==
  ASSUME NEW src \in Seq(Tokens), NEW r, NEW st, NEW p, NEW v, OpenAt(r, Len(st), KindsIn(st), ModeAt(p)),
         Len(r) <= Room(src), p \in Modes \/ (p = "returned" /\ v # Null)
  PROVE  Reads(src, r, st, p, v)
<1>1. r \in Seq(Tokens) /\ \A i \in 1 .. Len(r) : r[i] \notin Final
  BY DEF OpenAt
<1>2. \A i \in 1 .. Len(r) - 1 : r[i] \notin Final
  BY <1>1
<1>3. p \notin {"root", "parsed"} /\ (p = "returned" => v # Null)
  BY DEF Modes
<1>. QED
  BY <1>1, <1>2, <1>3 DEF Reads

LEMMA ReadsWrong ==
  ASSUME NEW src \in Seq(Tokens), NEW r, NEW st, NEW p \in {"returned", "parsed"}, Wrong(r)
  PROVE  Reads(src, r, st, p, Null)
BY DEF Reads, Wrong, Modes

LEMMA ReadsComplete ==
  ASSUME NEW src \in Seq(Tokens), NEW r, NEW st, NEW v, v # Null, Complete(r)
  PROVE  Reads(src, r, st, "parsed", v)
<1>1. r \in Seq(Tokens) /\ \A i \in 1 .. Len(r) : r[i] \notin Final
  BY DEF Complete
<1>2. \A i \in 1 .. Len(r) - 1 : r[i] \notin Final
  BY <1>1
<1>. QED
  BY <1>1, <1>2 DEF Reads, Modes

LEMMA OpenAgrees ==
  ASSUME NEW r, NEW n, NEW K, NEW mode, OpenAt(r, n, K, mode), NEW K1, \A i \in 1 .. n : K1[i] = K[i]
  PROVE  OpenAt(r, n, K1, mode)
<1>1. n \in Nat \ {0} /\ \A i \in 1 .. n : K1[i] \in Kinds
  BY DEF OpenAt
<1>2. ClosersAre(Closers(r), n, K1)
  <2>1. \A j \in 1 .. n : n + 1 - j \in 1 .. n
    BY <1>1
  <2>. QED
    BY <2>1 DEF OpenAt, ClosersAre
<1>3. \A w : Fits(w, n, K, Len(r), mode) <=> Fits(w, n, K1, Len(r), mode)
  BY <1>1, FitsAgree
<1>4. /\ r \in Seq(Tokens) /\ r # <<>> /\ mode \in Modes /\ \A i \in 1 .. Len(r) : r[i] \notin Final
      /\ \A w \in Seq(Tokens) : Extends(w, r) => (IsDocument(w) <=> Fits(w, n, K, Len(r), mode))
  BY DEF OpenAt
<1>. QED
  BY <1>1, <1>2, <1>3, <1>4 DEF OpenAt

LEMMA OpenIsNotFinal ==
  ASSUME NEW r \in Seq(Tokens), NEW t \in Tokens, NEW n, NEW K, NEW mode, OpenAt(Append(r, t), n, K, mode)
  PROVE  t \notin Final
<1>1. Append(r, t)[Len(r) + 1] = t /\ Len(r) + 1 \in 1 .. Len(Append(r, t))
  OBVIOUS
<1>. QED
  BY <1>1 DEF OpenAt

Reading == Reads(source, read, stack, pc, ret)

\* A token that is read while there is room is the next of the file or its end.
LEMMA TokenRead ==
  ASSUME Reading, Len(read) <= Room(source), NEW t \in NextTokens, Read(t)
  PROVE  /\ t \in Tokens /\ read' = Append(read, t) /\ source' = source
         /\ source \in Seq(Tokens) /\ read \in Seq(Tokens)
         /\ t \notin Final => Len(Append(read, t)) <= Room(source)
<1>1. source \in Seq(Tokens) /\ read \in Seq(Tokens)
  BY DEF Reading, Reads
<1>2. "eof" \in Tokens /\ "eof" \in Final
  BY DEF Tokens, Symbols, Final
<1>3. Len(read) \in Nat /\ Len(source) \in Nat /\ MaxTokens \in Nat /\ Alphabet \subseteq Tokens
  BY <1>1, TokensAssumption
<1>4. Len(Append(read, t)) = Len(read) + 1
  BY <1>1
<1>5. Len(read) <= Len(source) + MaxTokens
  BY <1>3 DEF Room
<1>6. read' = Append(read, t) /\ source' = source
  BY <1>3, <1>5 DEF Read
<1>7. CASE source = <<>>
  <2>1. t \in IF Len(read) < MaxTokens THEN Alphabet ELSE {"eof"}
    BY <1>7 DEF NextTokens
  <2>2. t \in Tokens /\ (t \notin Final => Len(read) + 1 <= MaxTokens)
    BY <1>2, <1>3, <2>1
  <2>. QED
    BY <1>1, <1>4, <1>6, <1>7, <2>2 DEF Room
<1>8. CASE source # <<>>
  <2>1. t \in {"eof"} \cup (IF Len(read) < Len(source) THEN {source[Len(read) + 1]} ELSE {})
    BY <1>8 DEF NextTokens
  <2>2. t = "eof" \/ (Len(read) < Len(source) /\ t = source[Len(read) + 1])
    BY <2>1
  <2>3. t \in Tokens /\ (t \notin Final => Len(read) + 1 <= Len(source))
    BY <1>1, <1>2, <1>3, <2>2
  <2>. QED
    BY <1>1, <1>4, <1>6, <1>8, <2>3 DEF Room
<1>. QED
  BY <1>7, <1>8

LEMMA StackKinds ==
  ASSUME Blocks, stack # <<>>
  PROVE  /\ Len(stack) \in Nat \ {0} /\ Last(stack) = stack[Len(stack)] /\ Last(stack).ent # Null
         /\ KindsIn(stack)[Len(stack)] = top.kind /\ top.kind \in Kinds
         /\ Len(Front(stack)) = Len(stack) - 1
         /\ \A i \in 1 .. Len(stack) - 1 : KindsIn(Front(stack))[i] = KindsIn(stack)[i]
<1>1. stack \in Seq(Frames)
  BY DEF Blocks, ParserInv, StackInv
<1>2. /\ Len(stack) \in Nat \ {0} /\ Last(stack) = stack[Len(stack)] /\ Last(stack) \in Frames
      /\ Len(Front(stack)) = Len(stack) - 1
      /\ \A i \in 1 .. Len(stack) - 1 : Front(stack)[i] = stack[i]
  BY <1>1, FrontIs
<1>3. Last(stack).ent # Null /\ Last(stack).kind \in Kinds
  BY <1>2 DEF Frames, Kinds, Null
<1>4. KindsIn(stack)[Len(stack)] = top.kind
  BY <1>2 DEF KindsIn, top
<1>5. \A i \in 1 .. Len(stack) - 1 : KindsIn(Front(stack))[i] = KindsIn(stack)[i]
  BY <1>2 DEF KindsIn
<1>. QED
  BY <1>2, <1>3, <1>4, <1>5 DEF top

\* Where a call reads, or takes what is returned.
LEMMA ActiveCall ==
  ASSUME Blocks, Reading, pc \in Modes \/ (pc = "returned" /\ ret # Null)
  PROVE  /\ stack # <<>> /\ OpenAt(read, Len(stack), KindsIn(stack), ModeAt(pc)) /\ Len(read) <= Room(source)
<1>1. stack # <<>>
  BY ParsedStack DEF Modes
<1>. QED
  BY <1>1 DEF Reading, Reads

\* The innermost call returns: with its entity after what closes its list, or
\* with nothing where there is an error.
LEMMA CloseReads ==
  ASSUME Blocks, stack # <<>>, NEW t \in Tokens, read' = Append(read, t), source' = source, source \in Seq(Tokens),
         read \in Seq(Tokens), t \notin Final => Len(Append(read, t)) <= Room(source),
         Len(stack) = 1 => Complete(Append(read, t)),
         Len(stack) > 1 => OpenAt(Append(read, t), Len(stack) - 1, KindsIn(stack), "after"), Close
  PROVE  Reading'
<1>1. /\ stack' = Front(stack) /\ ret' = Last(stack).ent
      /\ pc' = IF Len(stack) = 1 THEN "parsed" ELSE "returned"
  BY DEF Close, Return, top
<1>. DEFINE q == Append(read, t)
            st == Front(stack)
            v == Last(stack).ent
<1>2. v # Null /\ Len(st) = Len(stack) - 1 /\ Len(stack) \in Nat \ {0}
  BY StackKinds
<1>3. \A i \in 1 .. Len(stack) - 1 : KindsIn(st)[i] = KindsIn(stack)[i]
  BY StackKinds
<1>4. CASE Len(stack) = 1
  <2>1. Reads(source, q, st, "parsed", v)
    BY <1>2, <1>4, ReadsComplete
  <2>. QED
    BY <1>1, <1>4, <2>1 DEF Reading
<1>5. CASE Len(stack) # 1
  <2>1. OpenAt(q, Len(stack) - 1, KindsIn(stack), "after")
    BY <1>2, <1>5
  <2>2. OpenAt(q, Len(stack) - 1, KindsIn(st), "after")
    <3>. HIDE DEF q, st
    <3>. QED
      BY <1>3, <2>1, OpenAgrees
  <2>3. t \notin Final
    BY <2>1, OpenIsNotFinal
  <2>4. OpenAt(q, Len(st), KindsIn(st), ModeAt("returned")) /\ Len(q) <= Room(source)
    BY <1>2, <2>2, <2>3 DEF ModeAt
  <2>5. Reads(source, q, st, "returned", v)
    <3>. HIDE DEF q, st, v
    <3>. QED
      BY <1>2, <2>4, ReadsOpen
  <2>. QED
    BY <1>1, <1>5, <2>5 DEF Reading
<1>. QED
  BY <1>4, <1>5

LEMMA ErrorReads ==
  ASSUME source \in Seq(Tokens), source' = source, Wrong(read'), ret' = Null, pc' \in {"returned", "parsed"}
  PROVE  Reading'
<1>1. Reads(source, read', stack', pc', Null)
  BY ReadsWrong
<1>. QED
  BY <1>1 DEF Reading

LEMMA ErrorReturns ==
  ASSUME NEW t, ParseError(t)
  PROVE  ret' = Null /\ pc' \in {"returned", "parsed"}
BY DEF ParseError, Abandon, Return

\* The call goes on.
LEMMA GoesOn ==
  ASSUME NEW t \in Tokens, read' = Append(read, t), source' = source, source \in Seq(Tokens),
         read \in Seq(Tokens), t \notin Final => Len(Append(read, t)) <= Room(source),
         OpenAt(Append(read, t), Len(stack'), KindsIn(stack'), ModeAt(pc')),
         pc' \in Modes \/ (pc' = "returned" /\ ret' # Null)
  PROVE  Reading'
<1>1. t \notin Final
  BY OpenIsNotFinal
<1>2. OpenAt(read', Len(stack'), KindsIn(stack'), ModeAt(pc')) /\ Len(read') <= Room(source)
  BY <1>1
<1>3. Reads(source, read', stack', pc', ret')
  BY <1>2, ReadsOpen
<1>. QED
  BY <1>3 DEF Reading

\* Only the name of the innermost call changes.
LEMMA NameKinds ==
  ASSUME Blocks, stack # <<>>, NEW nm, stack' = [stack EXCEPT ![Len(stack)].name = nm]
  PROVE  Len(stack') = Len(stack) /\ \A i \in 1 .. Len(stack) : KindsIn(stack')[i] = KindsIn(stack)[i]
<1>1. stack \in Seq(Frames)
  BY DEF Blocks, ParserInv, StackInv
<1>2. Len(stack') = Len(stack) /\ \A i \in 1 .. Len(stack) : stack'[i].kind = stack[i].kind
  BY <1>1 DEF Frames
<1>. QED
  BY <1>2 DEF KindsIn

LEMMA CallKinds ==
  ASSUME Blocks, NEW kind, Call(kind)
  PROVE  /\ Len(stack') = Len(stack) + 1 /\ KindsIn(stack')[Len(stack) + 1] = kind
         /\ \A i \in 1 .. Len(stack) : KindsIn(stack')[i] = KindsIn(stack)[i]
         /\ pc' = "item"
<1>1. stack \in Seq(Frames)
  BY DEF Blocks, ParserInv, StackInv
<1>2. stack' = Append(stack, Frame(kind, allocs + 1)) /\ pc' = "item"
  BY DEF Call
<1>. DEFINE f == Frame(kind, allocs + 1)
<1>3. f.kind = kind
  BY DEF Frame
<1>. HIDE DEF f
<1>4. /\ Len(Append(stack, f)) = Len(stack) + 1 /\ Append(stack, f)[Len(stack) + 1] = f
      /\ Len(stack) \in Nat /\ \A i \in 1 .. Len(stack) : Append(stack, f)[i] = stack[i]
  BY <1>1
<1>5. Len(stack') = Len(stack) + 1 /\ stack'[Len(stack) + 1] = f /\ \A i \in 1 .. Len(stack) : stack'[i] = stack[i]
  BY <1>2, <1>4 DEF f
<1>. QED
  BY <1>2, <1>3, <1>4, <1>5 DEF KindsIn

LEMMA EntityReads ==
  ASSUME Blocks, Reading, NEW t \in NextTokens, Read(t),
         pc = "value" \/ (pc = "item" /\ top.kind = "array" /\ t # "rsqbracket"), ParseEntity(t)
  PROVE  Reading'
<1>. DEFINE q == Append(read, t)
            n == Len(stack)
            K == KindsIn(stack)
<1>1. stack # <<>> /\ OpenAt(read, n, K, pc) /\ Len(read) <= Room(source)
  BY ActiveCall DEF Modes, ModeAt
<1>2. /\ t \in Tokens /\ read' = q /\ source' = source /\ source \in Seq(Tokens) /\ read \in Seq(Tokens)
      /\ t \notin Final => Len(q) <= Room(source)
  BY <1>1, TokenRead
<1>3. n \in Nat \ {0} /\ K[n] = top.kind
  BY <1>1, StackKinds
<1>4. pc = "value" \/ (pc = "item" /\ K[n] = "array" /\ t # "rsqbracket")
  BY <1>3
<1>. HIDE DEF K
<1>5. ASSUME NEW kind \in Kinds, t = Opener(kind), Call(kind) PROVE Reading'
  <2>. DEFINE K1 == KindsIn(stack')
  <2>1. Len(stack') = n + 1 /\ K1[n + 1] = kind /\ (\A i \in 1 .. n : K1[i] = K[i]) /\ pc' = "item"
    BY <1>5, CallKinds DEF K
  <2>. HIDE DEF K1, q, n
  <2>2. OpenAt(q, n + 1, K1, "item")
    <3>1. K1[n + 1] \in Kinds /\ t = Opener(K1[n + 1])
      BY <1>5, <2>1
    <3>. QED
      BY ONLY <1>1, <1>2, <1>4, <2>1, <3>1, ValueIsRead DEF q
  <2>3. OpenAt(q, Len(stack'), KindsIn(stack'), ModeAt(pc')) /\ pc' \in Modes
    BY <2>1, <2>2 DEF K1, ModeAt, Modes
  <2>. QED
    BY <1>2, <2>3, GoesOn DEF q
<1>6. CASE t = "lbrace" /\ Call("object")
  BY <1>5, <1>6 DEF Kinds, Opener
<1>7. CASE t = "lsqbracket" /\ Call("array")
  BY <1>5, <1>7 DEF Kinds, Opener
<1>8. CASE /\ t \in Literals \cup Strings
           /\ allocs' = AfterRead(t) + 1
           /\ ret' = allocs' /\ pc' = "returned"
           /\ UNCHANGED <<stack, superseded>>
  <2>1. ret' # Null
    BY <1>8, AllocsAreNat DEF AfterRead, Null
  <2>. HIDE DEF q, n
  <2>2. OpenAt(q, n, K, "after")
    BY ONLY <1>1, <1>2, <1>4, <1>8, ValueIsRead DEF q
  <2>3. OpenAt(q, Len(stack'), KindsIn(stack'), ModeAt(pc'))
    BY <1>8, <2>2 DEF n, K, ModeAt
  <2>. QED
    BY <1>2, <1>8, <2>1, <2>3, GoesOn DEF q
<1>9. CASE /\ t \notin Literals \cup Strings \cup {"lbrace", "lsqbracket"}
           /\ ret' = Null /\ pc' = "returned"
  <2>. HIDE DEF q, n
  <2>1. Wrong(q)
    BY ONLY <1>1, <1>2, <1>4, <1>9, ValueIsRead DEF q
  <2>. QED
    BY <1>2, <1>9, <2>1, ErrorReads
<1>. QED
  BY <1>6, <1>7, <1>8, <1>9 DEF ParseEntity

LEMMA InputReads ==
  ASSUME Blocks, Reading, NEW t \in NextTokens, ParseInput(t)
  PROVE  Reading'
<1>1. pc = "root" /\ read = <<>> /\ stack = <<>> /\ source \in Seq(Tokens) /\ Read(t)
  BY ParsedStack DEF ParseInput, Reading, Reads
<1>2. Len(read) <= Room(source)
  <2>1. Len(read) = 0 /\ Len(source) \in Nat /\ MaxTokens \in Nat
    BY <1>1, TokensAssumption
  <2>. QED
    BY <2>1 DEF Room
<1>3. /\ t \in Tokens /\ read' = Append(<<>>, t) /\ source' = source /\ read \in Seq(Tokens)
      /\ t \notin Final => Len(Append(read, t)) <= Room(source)
  BY <1>1, <1>2, TokenRead
<1>4. CASE t = "lbrace"
  <2>1. Call("object")
    BY <1>4 DEF ParseInput
  <2>. DEFINE K1 == KindsIn(stack')
  <2>2. Len(stack') = 1 /\ K1[1] = "object" /\ pc' = "item"
    <3>1. Len(stack) = 0
      BY <1>1
    <3>. QED
      BY <2>1, <3>1, CallKinds
  <2>. HIDE DEF K1
  <2>3. OpenAt(Append(<<>>, t), 1, K1, "item")
    BY <1>3, <1>4, <2>2, RootIsRead
  <2>4. OpenAt(Append(read, t), Len(stack'), KindsIn(stack'), ModeAt(pc')) /\ pc' \in Modes
    BY <1>1, <2>2, <2>3 DEF K1, ModeAt, Modes
  <2>. QED
    BY <1>1, <1>3, <2>4, GoesOn
<1>5. CASE t # "lbrace"
  <2>1. ret' = Null /\ pc' = "parsed"
    BY <1>5 DEF ParseInput
  <2>2. Wrong(Append(<<>>, t))
    <3>. DEFINE K1 == [i \in 1 .. 1 |-> "object"]
    <3>1. K1[1] = "object"
      OBVIOUS
    <3>. HIDE DEF K1
    <3>. QED
      BY <1>3, <1>5, <3>1, RootIsRead
  <2>. QED
    BY <1>1, <1>3, <2>1, <2>2, ErrorReads
<1>. QED
  BY <1>4, <1>5

LEMMA FieldReads ==
  ASSUME Blocks, Reading, NEW t \in NextTokens, ReadField(t)
  PROVE  Reading'
<1>. DEFINE q == Append(read, t)
            n == Len(stack)
            K == KindsIn(stack)
<1>1. pc = "item" /\ top.kind = "object" /\ Read(t)
  BY DEF ReadField
<1>2. stack # <<>> /\ OpenAt(read, n, K, "item") /\ Len(read) <= Room(source)
  BY <1>1, ActiveCall DEF Modes, ModeAt
<1>3. /\ t \in Tokens /\ read' = q /\ source' = source /\ source \in Seq(Tokens) /\ read \in Seq(Tokens)
      /\ t \notin Final => Len(q) <= Room(source)
  BY <1>1, <1>2, TokenRead
<1>4. n \in Nat \ {0} /\ K[n] = "object"
  BY <1>1, <1>2, StackKinds
<1>5. /\ t = "rbrace" => (n = 1 => Complete(q)) /\ (n > 1 => OpenAt(q, n - 1, K, "after"))
      /\ t \in Strings => OpenAt(q, n, K, "colon")
      /\ t \notin {"rbrace"} \cup Strings => Wrong(q)
  BY <1>2, <1>3, <1>4, FieldIsRead
<1>6. CASE t \in CloserOf("object") /\ Close
  <2>1. t = "rbrace"
    BY <1>6 DEF CloserOf
  <2>. QED
    BY <1>2, <1>3, <1>5, <1>6, <2>1, CloseReads
<1>7. CASE t \in Strings /\ stack' = [stack EXCEPT ![Len(stack)].name = TextOf(t)] /\ pc' = "colon"
  <2>1. Len(stack') = n /\ \A i \in 1 .. n : KindsIn(stack')[i] = K[i]
    BY <1>2, <1>7, NameKinds
  <2>2. OpenAt(q, n, K, "colon")
    BY <1>5, <1>7
  <2>. HIDE DEF q, n, K
  <2>3. OpenAt(q, n, KindsIn(stack'), "colon")
    BY ONLY <2>1, <2>2, OpenAgrees
  <2>4. OpenAt(q, Len(stack'), KindsIn(stack'), ModeAt(pc')) /\ pc' \in Modes
    BY <1>7, <2>1, <2>3 DEF ModeAt, Modes
  <2>. QED
    BY <1>3, <2>4, GoesOn DEF q
<1>8. CASE t \notin CloserOf("object") \cup Strings /\ ParseError(t)
  <2>1. Wrong(q)
    BY <1>5, <1>8 DEF CloserOf
  <2>. QED
    BY <1>3, <1>8, <2>1, ErrorReturns, ErrorReads
<1>. QED
  BY <1>6, <1>7, <1>8 DEF ReadField

LEMMA ColonReads ==
  ASSUME Blocks, Reading, NEW t \in NextTokens, ReadColon(t)
  PROVE  Reading'
<1>. DEFINE q == Append(read, t)
            n == Len(stack)
            K == KindsIn(stack)
<1>1. pc = "colon" /\ Read(t)
  BY DEF ReadColon
<1>2. stack # <<>> /\ OpenAt(read, n, K, "colon") /\ Len(read) <= Room(source)
  BY <1>1, ActiveCall DEF Modes, ModeAt
<1>3. /\ t \in Tokens /\ read' = q /\ source' = source /\ source \in Seq(Tokens) /\ read \in Seq(Tokens)
      /\ t \notin Final => Len(q) <= Room(source)
  BY <1>1, <1>2, TokenRead
<1>4. (t = "colon" => OpenAt(q, n, K, "value")) /\ (t # "colon" => Wrong(q))
  BY <1>2, <1>3, ColonIsRead
<1>5. CASE t = "colon"
  <2>1. pc' = "value" /\ stack' = stack
    BY <1>5 DEF ReadColon
  <2>2. OpenAt(q, Len(stack'), KindsIn(stack'), ModeAt(pc')) /\ pc' \in Modes
    BY <1>4, <1>5, <2>1 DEF ModeAt, Modes
  <2>. QED
    BY <1>3, <2>2, GoesOn
<1>6. CASE t # "colon"
  <2>1. ParseError(t)
    BY <1>6 DEF ReadColon
  <2>. QED
    BY <1>3, <1>4, <1>6, <2>1, ErrorReturns, ErrorReads
<1>. QED
  BY <1>5, <1>6

LEMMA ElementReads ==
  ASSUME Blocks, Reading, NEW t \in NextTokens, ReadElement(t)
  PROVE  Reading'
<1>. DEFINE q == Append(read, t)
            n == Len(stack)
            K == KindsIn(stack)
<1>1. pc = "item" /\ top.kind = "array" /\ Read(t)
  BY DEF ReadElement
<1>2. stack # <<>> /\ OpenAt(read, n, K, "item") /\ Len(read) <= Room(source)
  BY <1>1, ActiveCall DEF Modes, ModeAt
<1>3. /\ t \in Tokens /\ read' = q /\ source' = source /\ source \in Seq(Tokens) /\ read \in Seq(Tokens)
      /\ t \notin Final => Len(q) <= Room(source)
  BY <1>1, <1>2, TokenRead
<1>4. n \in Nat \ {0} /\ K[n] = "array"
  BY <1>1, <1>2, StackKinds
<1>5. CASE t \in Final /\ ParseError(t)
  <2>1. t \notin Literals \cup Strings \cup {"lbrace", "lsqbracket"} /\ t # "rsqbracket"
    BY <1>5, TokensApart DEF Final
  <2>2. Wrong(q)
    <3>. HIDE DEF K, n
    <3>. QED
      BY ONLY <1>2, <1>3, <1>4, <2>1, ValueIsRead
  <2>. QED
    BY <1>3, <1>5, <2>2, ErrorReturns, ErrorReads
<1>6. CASE t \in CloserOf("array") /\ Close
  <2>1. t = "rsqbracket"
    BY <1>6 DEF CloserOf
  <2>2. (n = 1 => Complete(q)) /\ (n > 1 => OpenAt(q, n - 1, K, "after"))
    BY <1>2, <1>3, <1>4, <2>1, ElementsEnd
  <2>. QED
    BY <1>2, <1>3, <1>6, <2>2, CloseReads
<1>7. CASE t \notin Final \cup CloserOf("array") /\ ParseEntity(t)
  <2>1. t # "rsqbracket"
    BY <1>7 DEF CloserOf
  <2>. QED
    BY <1>1, <1>7, <2>1, EntityReads
<1>. QED
  BY <1>5, <1>6, <1>7 DEF ReadElement

LEMMA AfterReads ==
  ASSUME Blocks, Reading, NEW t \in NextTokens, ReadAfter(t)
  PROVE  Reading'
<1>. DEFINE q == Append(read, t)
            n == Len(stack)
            K == KindsIn(stack)
<1>1. pc = "after" /\ Read(t)
  BY DEF ReadAfter
<1>2. stack # <<>> /\ OpenAt(read, n, K, "after") /\ Len(read) <= Room(source)
  BY <1>1, ActiveCall DEF Modes, ModeAt
<1>3. /\ t \in Tokens /\ read' = q /\ source' = source /\ source \in Seq(Tokens) /\ read \in Seq(Tokens)
      /\ t \notin Final => Len(q) <= Room(source)
  BY <1>1, <1>2, TokenRead
<1>4. n \in Nat \ {0} /\ K[n] = top.kind /\ top.kind \in Kinds
  BY <1>2, StackKinds
<1>5. /\ t = "comma" => OpenAt(q, n, K, "item")
      /\ t = Closer(K[n]) => (n = 1 => Complete(q)) /\ (n > 1 => OpenAt(q, n - 1, K, "after"))
      /\ t \notin {"comma", Closer(K[n])} => Wrong(q)
  BY <1>2, <1>3, AfterIsRead
<1>6. CloserOf(top.kind) = {Closer(K[n])}
  BY <1>4 DEF CloserOf, Closer
<1>7. CASE NextItem(t) /\ pc' = "item" /\ stack' = stack
  <2>1. OpenAt(q, Len(stack'), KindsIn(stack'), ModeAt(pc')) /\ pc' \in Modes
    BY <1>5, <1>7 DEF NextItem, ModeAt, Modes
  <2>. QED
    BY <1>3, <2>1, GoesOn
<1>8. CASE t \in CloserOf(top.kind) /\ Close
  <2>1. t = Closer(K[n])
    BY <1>6, <1>8
  <2>. QED
    BY <1>2, <1>3, <1>5, <1>8, <2>1, CloseReads
<1>9. CASE ~NextItem(t) /\ t \notin CloserOf(top.kind) /\ ParseError(t)
  <2>1. Wrong(q)
    BY <1>5, <1>6, <1>9 DEF NextItem
  <2>. QED
    BY <1>3, <1>9, <2>1, ErrorReturns, ErrorReads
<1>. QED
  BY <1>7, <1>8, <1>9 DEF ReadAfter

LEMMA TakeReads ==
  ASSUME Blocks, Reading, TakeEntity
  PROVE  Reading'
<1>1. pc = "returned" /\ read' = read /\ source' = source /\ source \in Seq(Tokens)
  BY DEF TakeEntity, Reading, Reads
<1>2. CASE ret = Null
  <2>1. Wrong(read)
    BY <1>1, <1>2 DEF Reading, Reads
  <2>2. ret' = Null /\ pc' \in {"returned", "parsed"}
    BY <1>2 DEF TakeEntity, Abandon, Return
  <2>. QED
    BY <1>1, <2>1, <2>2, ErrorReads
<1>3. CASE ret # Null
  <2>1. stack' = [stack EXCEPT ![Len(stack)].name = Null] /\ pc' = "after"
    BY <1>3 DEF TakeEntity
  <2>2. stack # <<>> /\ OpenAt(read, Len(stack), KindsIn(stack), "after") /\ Len(read) <= Room(source)
    BY <1>1, <1>3, ActiveCall DEF ModeAt
  <2>3. Len(stack') = Len(stack) /\ \A i \in 1 .. Len(stack) : KindsIn(stack')[i] = KindsIn(stack)[i]
    BY <2>1, <2>2, NameKinds
  <2>. DEFINE n == Len(stack)
              K == KindsIn(stack)
  <2>. HIDE DEF n, K
  <2>4. OpenAt(read, n, KindsIn(stack'), "after")
    BY <2>2, <2>3, OpenAgrees DEF n, K
  <2>5. OpenAt(read', Len(stack'), KindsIn(stack'), ModeAt(pc')) /\ Len(read') <= Room(source) /\ pc' \in Modes
    BY <1>1, <2>1, <2>2, <2>3, <2>4 DEF n, ModeAt, Modes
  <2>6. Reads(source, read', stack', pc', ret')
    BY <1>1, <2>5, ReadsOpen
  <2>. QED
    BY <1>1, <2>6 DEF Reading
<1>. QED
  BY <1>2, <1>3

LEMMA ParseReads ==
  ASSUME Blocks, Reading, Parse
  PROVE  Reading'
<1>1. ASSUME NEW t \in NextTokens, ReadValue(t) PROVE Reading'
  BY <1>1, EntityReads DEF ReadValue
<1>. QED
  BY <1>1, InputReads, FieldReads, ColonReads, ElementReads, AfterReads, TakeReads, Zenon DEF Parse

LEMMA CleanupReads ==
  ASSUME Blocks, Reading, stack = <<>>, cleanup_haversine_state
  PROVE  Reading'
<1>1. /\ read' = read /\ source' = source /\ stack' = stack /\ ret' = Null
      /\ pc' = IF pc = "parsed" THEN "done" ELSE pc
  BY DEF cleanup_haversine_state
<1>2. pc \in {"root", "parsed", "done"}
  BY ParsedStack
<1>. QED
  BY <1>1, <1>2 DEF Reading, Reads, Modes

LEMMA ReadingSame ==
  ASSUME Reading, UNCHANGED vars
  PROVE  Reading'
BY DEF Reading, vars

\* A cleanup finds no call active.
LEMMA CleanedReads ==
  ASSUME BlocksInv, Reading, step # "parse" \/ pc = "parsed", cleanup_haversine_state
  PROVE  Reading'
<1>1. stack = <<>> /\ Blocks
  BY ParsedStack DEF BlocksInv, Outside
<1>. QED
  BY <1>1, CleanupReads

LEMMA ReadingStep ==
  ASSUME BlocksInv, Reading, [Next]_allvars
  PROVE  Reading'
<1>1. CASE Start
  BY <1>1, CleanedReads DEF Start
<1>2. CASE OpenFile
  BY <1>2, ReadingSame DEF OpenFile
<1>3. CASE AllocateForFile
  BY <1>3, ReadingSame DEF AllocateForFile
<1>4. CASE ReadFile
  BY <1>4, ReadingSame DEF ReadFile
<1>5. CASE ParseFile
  BY <1>5, ParseReads DEF ParseFile, BlocksInv
<1>6. CASE CheckRoot
  BY <1>6, CleanedReads, ReadingSame DEF CheckRoot, Reject
<1>7. CASE AllocatePairs \/ AllocateAnswers
  BY <1>7, ReadingSame DEF AllocatePairs, AllocateAnswers, AllocateField
<1>8. CASE CheckChecksum
  BY <1>8, CleanedReads, ReadingSame DEF CheckChecksum, Reject
<1>9. CASE ReadPoint
  BY <1>9, CleanedReads, ReadingSame DEF ReadPoint, Reject, Die
<1>10. CASE SetupReturns
  BY <1>10, ReadingSame DEF SetupReturns
<1>11. CASE Calculate
  BY <1>11, ReadingSame DEF Calculate, Die
<1>12. CASE Validate
  BY <1>12, ReadingSame DEF Validate, Die
<1>13. CASE Finish
  BY <1>13, CleanedReads DEF Finish
<1>14. CASE UNCHANGED allvars
  BY <1>14, ReadingSame DEF allvars
<1>. QED
  BY <1>1, <1>2, <1>3, <1>4, <1>5, <1>6, <1>7, <1>8, <1>9, <1>10, <1>11, <1>12, <1>13, <1>14
  DEF Next, Run, Terminating

LEMMA ReadingStart == StateInit => Reading
<1>. SUFFICES ASSUME StateInit PROVE Reading
  OBVIOUS
<1>1. source \in Files \cup {<<>>} /\ read = <<>> /\ pc = "root"
  BY DEF StateInit, Init
<1>2. source \in Seq(Tokens)
  <2>1. \A f \in Files : f \in Seq(Tokens)
    BY TokensAssumption, Zenon
  <2>2. <<>> \in Seq(Tokens)
    OBVIOUS
  <2>. QED
    BY <1>1, <2>1, <2>2, Zenon
<1>. QED
  BY <1>1, <1>2 DEF Reading, Reads, Modes

\* What the parser has read is at any time the beginning of a document, and of
\* exactly those that go on as its calls expect; when they are all back, it is a
\* document itself, or with its last token the beginning of none
\* (parse_json_object, parse_json_array and parse_json_entity).
THEOREM ReadingIsRight == Spec => []Reading
<1>1. BlocksInv /\ Reading /\ [Next]_allvars => Reading'
  BY ReadingStep
<1>2. StateInit => Reading
  BY ReadingStart
<1>. QED
  BY <1>1, <1>2, BlocksAreOwned, PTL DEF Spec

LEMMA ReadingStops == Reading => StopsAtFirstError
<1>. SUFFICES ASSUME Reading PROVE StopsAtFirstError
  OBVIOUS
<1>1. \A i \in 1 .. Len(read) - 1 : read[i] \notin Final
  BY DEF Reading, Reads
<1>2. pc = "parsed" /\ ret = Null => Wrong(read)
  BY DEF Reading, Reads
<1>3. Wrong(read) => ~IsPrefixOfDocument(read) /\ (Front(read) # <<>> => IsPrefixOfDocument(Front(read)))
  BY WrongIsNoPrefix DEF Wrong
<1>. QED
  BY <1>1, <1>2, <1>3 DEF StopsAtFirstError

\* A parse that fails has read what begins no document, and up to its last token
\* what begins one; it meets no token after the one that get_next_token repeats
\* at the end of a file.
THEOREM FailsAtTheFirstError == Spec => []StopsAtFirstError
BY ReadingIsRight, ReadingStops, PTL

\* A parse that succeeds has read a document, and none that goes on.
THEOREM AcceptsDocuments == Spec => [](pc = "parsed" /\ ret # Null => IsDocument(read))
<1>1. Reading => (pc = "parsed" /\ ret # Null => IsDocument(read))
  <2>1. Complete(read) => IsDocument(read)
    BY DEF Complete, Extends
  <2>. QED
    BY <2>1 DEF Reading, Reads
<1>. QED
  BY <1>1, ReadingIsRight, PTL

(***************************************************************************)
(* Sequences put together: FlattenSeq is a function recursive in the       *)
(* position.                                                               *)
(***************************************************************************)
\* F flattens the first m parts of q.
Flattened(F, m, q) == F = [i \in 1 .. m |-> IF i = 1 THEN q[i] ELSE F[i - 1] \o q[i]]

LEMMA FlattenedIs ==
  ASSUME NEW F, NEW m \in Nat, NEW q, Flattened(F, m, q)
  PROVE  \A i \in 1 .. m : F[i] = IF i = 1 THEN q[i] ELSE F[i - 1] \o q[i]
BY DEF Flattened

LEMMA FlattenedExists ==
  ASSUME NEW q, NEW m \in Nat
  PROVE  \E F : Flattened(F, m, q)
<1>. DEFINE T == {n \in Nat : ~ \E F : Flattened(F, n, q)}
<1>1. SUFFICES ASSUME T # {} PROVE FALSE
  OBVIOUS
<1>2. PICK n \in T : \A k \in T : n <= k
  <2>1. T \in SUBSET Nat
    OBVIOUS
  <2>. QED
    BY ONLY <1>1, <2>1, LeastNatural, Zenon
<1>3. n # 0
  <2>1. Flattened([k \in 1 .. 0 |-> q[k]], 0, q)
    BY DEF Flattened
  <2>. QED
    BY <2>1
<1>4. n - 1 \in Nat /\ ~(n <= n - 1) /\ n \in Nat
  BY <1>2, <1>3
<1>5. n - 1 \notin T
  BY <1>2, <1>4
<1>6. PICK F : Flattened(F, n - 1, q)
  BY <1>4, <1>5
<1>7. \A k \in 1 .. n - 1 : F[k] = IF k = 1 THEN q[k] ELSE F[k - 1] \o q[k]
  BY <1>4, <1>6, FlattenedIs
<1>. DEFINE G == [k \in 1 .. n |-> IF k = n THEN (IF n = 1 THEN q[n] ELSE F[n - 1] \o q[n]) ELSE F[k]]
<1>8. \A k \in 1 .. n - 1 : G[k] = F[k]
  BY <1>4
<1>9. G[n] = IF n = 1 THEN q[n] ELSE F[n - 1] \o q[n]
  BY <1>3, <1>4
<1>10. G = [k \in 1 .. n |-> G[k]]
  OBVIOUS
<1>. HIDE DEF G
<1>11. ASSUME NEW k \in 1 .. n PROVE G[k] = IF k = 1 THEN q[k] ELSE G[k - 1] \o q[k]
  <2>1. CASE k = n /\ k = 1
    BY <1>9, <2>1
  <2>2. CASE k = n /\ k # 1
    <3>1. n - 1 \in 1 .. n - 1
      BY <1>4, <2>2
    <3>2. G[n - 1] = F[n - 1]
      BY <1>8, <3>1
    <3>. QED
      BY <1>9, <2>2, <3>2
  <2>3. CASE k # n
    <3>1. k \in 1 .. n - 1
      BY <1>4, <2>3
    <3>2. k # 1 => k - 1 \in 1 .. n - 1
      BY <1>4, <2>3
    <3>. QED
      BY <1>7, <1>8, <3>1, <3>2
  <2>. QED
    BY <2>1, <2>2, <2>3
<1>12. Flattened(G, n, q)
  BY <1>10, <1>11, Zenon DEF Flattened
<1>. QED
  BY <1>2, <1>12

LEMMA FlattenedAgree ==
  ASSUME NEW F, NEW m \in Nat, NEW q, Flattened(F, m, q), NEW G, NEW k \in Nat, NEW r, Flattened(G, k, r),
         m <= k, \A n \in 1 .. m : r[n] = q[n]
  PROVE  \A n \in 1 .. m : F[n] = G[n]
<1>. DEFINE T == {n \in Nat : n \in 1 .. m /\ F[n] # G[n]}
<1>1. \A n \in 1 .. m : F[n] = IF n = 1 THEN q[n] ELSE F[n - 1] \o q[n]
  BY FlattenedIs
<1>2. \A n \in 1 .. k : G[n] = IF n = 1 THEN r[n] ELSE G[n - 1] \o r[n]
  BY FlattenedIs
<1>3. ASSUME T # {} PROVE FALSE
  <2>1. PICK n \in T : \A j \in T : n <= j
    <3>1. T \in SUBSET Nat
      OBVIOUS
    <3>. QED
      BY ONLY <1>3, <3>1, LeastNatural, Zenon
  <2>2. n \in 1 .. m /\ n \in 1 .. k /\ F[n] # G[n]
    BY <2>1
  <2>3. n # 1 => n - 1 \in 1 .. m /\ ~(n <= n - 1)
    BY <2>2
  <2>4. n # 1 => F[n - 1] = G[n - 1]
    BY <2>1, <2>3
  <2>. QED
    BY <1>1, <1>2, <2>2, <2>4
<1>. QED
  BY <1>3

LEMMA FlattenedSeqs ==
  ASSUME NEW X, NEW F, NEW m \in Nat, NEW q, \A n \in 1 .. m : q[n] \in Seq(X), Flattened(F, m, q)
  PROVE  \A n \in 1 .. m : F[n] \in Seq(X)
<1>. DEFINE T == {n \in Nat : n \in 1 .. m /\ F[n] \notin Seq(X)}
<1>1. \A n \in 1 .. m : F[n] = IF n = 1 THEN q[n] ELSE F[n - 1] \o q[n]
  BY FlattenedIs
<1>3. ASSUME T # {} PROVE FALSE
  <2>1. PICK n \in T : \A j \in T : n <= j
    <3>1. T \in SUBSET Nat
      OBVIOUS
    <3>. QED
      BY ONLY <1>3, <3>1, LeastNatural, Zenon
  <2>2. n \in 1 .. m /\ F[n] \notin Seq(X) /\ q[n] \in Seq(X)
    BY <2>1
  <2>3. n # 1 => n - 1 \in 1 .. m /\ ~(n <= n - 1)
    BY <2>2
  <2>4. n # 1 => F[n - 1] \in Seq(X)
    BY <2>1, <2>3
  <2>5. F[n] = IF n = 1 THEN q[n] ELSE F[n - 1] \o q[n]
    BY <1>1, <2>2
  <2>6. n # 1 => F[n - 1] \o q[n] \in Seq(X)
    BY <2>2, <2>4
  <2>. QED
    BY ONLY <2>2, <2>5, <2>6
<1>. QED
  BY <1>3

LEMMA FlatIs ==
  ASSUME NEW q, Len(q) \in Nat
  PROVE  \E F : /\ Flattened(F, Len(q), q)
                /\ FlattenSeq(q) = IF Len(q) = 0 THEN q ELSE F[Len(q)]
<1>. DEFINE F0 == CHOOSE F : Flattened(F, Len(q), q)
<1>1. FlattenSeq(q) = IF Len(q) = 0 THEN q ELSE F0[Len(q)]
  BY Zenon DEF FlattenSeq, Flattened
<1>2. Flattened(F0, Len(q), q)
  BY FlattenedExists, Zenon
<1>. QED
  BY <1>1, <1>2

LEMMA FlatEmpty == FlattenSeq(<<>>) = <<>>
<1>1. Len(<<>>) = 0
  OBVIOUS
<1>. QED
  BY <1>1, FlatIs

LEMMA FlatSeq ==
  ASSUME NEW X, NEW q \in Seq(Seq(X))
  PROVE  FlattenSeq(q) \in Seq(X)
<1>1. Len(q) \in Nat /\ \A n \in 1 .. Len(q) : q[n] \in Seq(X)
  OBVIOUS
<1>2. PICK F : Flattened(F, Len(q), q) /\ FlattenSeq(q) = IF Len(q) = 0 THEN q ELSE F[Len(q)]
  BY <1>1, FlatIs
<1>3. \A n \in 1 .. Len(q) : F[n] \in Seq(X)
  BY ONLY <1>1, <1>2, FlattenedSeqs
<1>4. CASE Len(q) = 0
  <2>1. q = <<>>
    BY <1>4
  <2>. QED
    BY <1>2, <1>4, <2>1
<1>5. CASE Len(q) # 0
  BY <1>1, <1>2, <1>3, <1>5
<1>. QED
  BY <1>4, <1>5

LEMMA FlatAppend ==
  ASSUME NEW X, NEW q \in Seq(Seq(X)), NEW x \in Seq(X)
  PROVE  FlattenSeq(Append(q, x)) = FlattenSeq(q) \o x
<1>. DEFINE r == Append(q, x)
            m == Len(q)
<1>1. m \in Nat /\ Len(r) = m + 1 /\ r[m + 1] = x /\ \A n \in 1 .. m : r[n] = q[n]
  OBVIOUS
<1>. HIDE DEF r
<1>2. PICK F : Flattened(F, m, q) /\ FlattenSeq(q) = IF m = 0 THEN q ELSE F[m]
  BY <1>1, FlatIs
<1>3. PICK G : Flattened(G, m + 1, r) /\ FlattenSeq(r) = IF m + 1 = 0 THEN r ELSE G[m + 1]
  <2>1. Len(r) \in Nat
    BY <1>1
  <2>. QED
    BY <1>1, <2>1, FlatIs
<1>4. G[m + 1] = IF m + 1 = 1 THEN r[m + 1] ELSE G[m + 1 - 1] \o r[m + 1]
  <2>1. m + 1 \in Nat /\ m + 1 \in 1 .. m + 1
    BY <1>1
  <2>. QED
    BY <1>3, <2>1, FlattenedIs
<1>5. FlattenSeq(r) = G[m + 1]
  BY <1>1, <1>3
<1>6. CASE m = 0
  <2>1. q = <<>> /\ FlattenSeq(q) = q
    BY <1>2, <1>6
  <2>2. FlattenSeq(r) = x
    BY <1>1, <1>4, <1>5, <1>6
  <2>. QED
    BY <2>1, <2>2 DEF r
<1>7. CASE m # 0
  <2>1. \A n \in 1 .. m : F[n] = G[n]
    <3>1. m + 1 \in Nat /\ m <= m + 1
      BY <1>1
    <3>. HIDE DEF m
    <3>. QED
      BY ONLY <1>1, <1>2, <1>3, <3>1, FlattenedAgree
  <2>2. F[m] = G[m] /\ m + 1 - 1 = m
    BY <1>1, <1>7, <2>1
  <2>. QED
    BY <1>1, <1>2, <1>4, <1>5, <1>7, <2>2 DEF r
<1>. QED
  BY <1>6, <1>7

\* The first k parts.
FlatTo(q, k) == FlattenSeq([i \in 1 .. k |-> q[i]])

LEMMA FlatToIs ==
  ASSUME NEW X, NEW n \in Nat, NEW q, \A i \in 1 .. n : q[i] \in Seq(X)
  PROVE  /\ FlatTo(q, 0) = <<>>
         /\ \A k \in 0 .. n : FlatTo(q, k) \in Seq(X)
         /\ \A k \in 1 .. n : FlatTo(q, k) = FlatTo(q, k - 1) \o q[k]
<1>. DEFINE p(k) == [i \in 1 .. k |-> q[i]]
<1>1. FlatTo(q, 0) = <<>>
  <2>1. p(0) = <<>>
    OBVIOUS
  <2>. QED
    BY <2>1, FlatEmpty DEF FlatTo
<1>2. ASSUME NEW k \in 0 .. n PROVE p(k) \in Seq(Seq(X)) /\ FlatTo(q, k) \in Seq(X)
  <2>1. \A i \in 1 .. k : q[i] \in Seq(X)
    OBVIOUS
  <2>2. p(k) \in Seq(Seq(X))
    BY <2>1
  <2>. HIDE DEF p
  <2>3. FlattenSeq(p(k)) \in Seq(X)
    BY <2>2, FlatSeq
  <2>. QED
    BY <2>2, <2>3 DEF FlatTo, p
<1>3. ASSUME NEW k \in 1 .. n PROVE FlatTo(q, k) = FlatTo(q, k - 1) \o q[k]
  <2>1. p(k - 1) \in Seq(Seq(X)) /\ q[k] \in Seq(X)
    <3>1. k - 1 \in 0 .. n
      OBVIOUS
    <3>. QED
      BY <1>2, <3>1
  <2>2. p(k) = Append(p(k - 1), q[k])
    <3>1. Len(p(k - 1)) = k - 1
      OBVIOUS
    <3>2. p(k) \in Seq(Seq(X)) /\ Len(p(k)) = k /\ Len(Append(p(k - 1), q[k])) = k
      BY <1>2, <2>1, <3>1
    <3>3. \A i \in 1 .. k : p(k)[i] = Append(p(k - 1), q[k])[i]
      BY <2>1, <3>1
    <3>4. Append(p(k - 1), q[k]) \in Seq(Seq(X))
      BY <2>1
    <3>. HIDE DEF p
    <3>. QED
      BY ONLY <3>2, <3>3, <3>4
  <2>. HIDE DEF p
  <2>3. FlattenSeq(p(k)) = FlattenSeq(p(k - 1)) \o q[k]
    BY ONLY <2>1, <2>2, FlatAppend
  <2>. QED
    BY <2>3 DEF FlatTo, p
<1>. QED
  BY <1>1, <1>2, <1>3

LEMMA FlatToAll ==
  ASSUME NEW q, NEW n, q = [i \in 1 .. n |-> q[i]]
  PROVE  FlattenSeq(q) = FlatTo(q, n)
BY Zenon DEF FlatTo

LEMMA FlatToLast ==
  ASSUME NEW X, NEW n \in Nat, NEW m, m = n + 1, NEW q, \A i \in 1 .. m : q[i] \in Seq(X)
  PROVE  FlatTo(q, m) = FlatTo(q, n) \o q[m]
<1>1. m \in Nat /\ m \in 1 .. m /\ m - 1 = n
  OBVIOUS
<1>2. \A k \in 1 .. m : FlatTo(q, k) = FlatTo(q, k - 1) \o q[k]
  <2>1. m \in Nat /\ \A i \in 1 .. m : q[i] \in Seq(X)
    BY <1>1
  <2>. QED
    BY ONLY <2>1, FlatToIs, Zenon
<1>3. FlatTo(q, m) = FlatTo(q, m - 1) \o q[m]
  BY <1>1, <1>2, Zenon
<1>. QED
  BY <1>1, <1>3, Zenon

LEMMA ConcatIs ==
  ASSUME NEW X, NEW a \in Seq(X), NEW b1 \in Seq(X)
  PROVE  /\ a \o b1 \in Seq(X) /\ Len(a \o b1) = Len(a) + Len(b1)
         /\ \A i \in 1 .. Len(a) : (a \o b1)[i] = a[i]
         /\ \A i \in 1 .. Len(b1) : (a \o b1)[Len(a) + i] = b1[i]
OBVIOUS

LEMMA SeqSame ==
  ASSUME NEW X, NEW a \in Seq(X), NEW b1 \in Seq(X), Len(a) = Len(b1), \A i \in 1 .. Len(a) : a[i] = b1[i]
  PROVE  a = b1
OBVIOUS

LEMMA ConcatEmpty ==
  ASSUME NEW X, NEW a \in Seq(X)
  PROVE  a \o <<>> = a /\ <<>> \o a = a
OBVIOUS

LEMMA ConcatThree ==
  ASSUME NEW X, NEW a \in Seq(X), NEW b1 \in Seq(X), NEW c \in Seq(X)
  PROVE  (a \o b1) \o c = a \o (b1 \o c) /\ (a \o b1) \o c \in Seq(X)
<1>. DEFINE u == (a \o b1) \o c
            w == a \o (b1 \o c)
            n == Len(a) + Len(b1) + Len(c)
<1>1. u \in Seq(X) /\ w \in Seq(X) /\ Len(u) = n /\ Len(w) = n
  OBVIOUS
<1>2. ASSUME NEW i \in 1 .. n PROVE u[i] = w[i]
  OBVIOUS
<1>. HIDE DEF u, w
<1>3. u = w
  BY <1>1, <1>2, SeqSame
<1>. QED
  BY <1>1, <1>3 DEF u, w

LEMMA OneToken ==
  ASSUME NEW X, NEW x \in X
  PROVE  /\ <<x>> \in Seq(X) /\ Len(<<x>>) = 1 /\ <<x>>[1] = x
         /\ \A s1 \in Seq(X) : Append(s1, x) = s1 \o <<x>>
OBVIOUS

(***************************************************************************)
(* What a tree says: its tokens, its numbers, or what print_json prints of *)
(* it, each by a function recursive in the heap.                           *)
(***************************************************************************)
Views == {"tokens", "numbers", "printed"}
EntityKinds == Kinds \cup Literals \cup {"string"}
Words == Tokens \cup {"text", "items"} \cup Nat

Mark(v, t) == IF v = "numbers" THEN <<>> ELSE <<t>>
Sep(v) == IF v = "printed" THEN <<"comma">> ELSE <<>>

\* The text of a string.
TextIn(h, c) == h[h[c].names[1]].val

StringOf(v, h, c) ==
  IF v = "tokens" THEN <<TextIn(h, c)>> ELSE IF v = "printed" THEN Bare[TextIn(h, c)] ELSE <<>>
LeafOf(v, h, c) ==
  IF h[c].kind = "string" THEN StringOf(v, h, c)
  ELSE IF v = "numbers" THEN (IF h[c].kind = "number" THEN <<h[c].val>> ELSE <<>>)
  ELSE <<h[c].kind>>

NameOf(v, h, nm) == Mark(v, h[nm].val) \o Mark(v, "colon")
FieldOf(v, h, c, i) == IF h[c].kind = "object" THEN NameOf(v, h, h[c].names[i]) ELSE <<>>
ItemOf(v, h, W, c, i) == FieldOf(v, h, c, i) \o W[h[c].kids[i]] \o Sep(v)
ItemsOf(v, h, W, c) == FlatTo([i \in 1 .. Len(h[c].kids) |-> ItemOf(v, h, W, c, i)], Len(h[c].kids))
ListWord(v, h, W, c) == Mark(v, Opener(h[c].kind)) \o ItemsOf(v, h, W, c) \o Mark(v, Closer(h[c].kind))
WordOf(v, h, W, c) == IF h[c].kind \in Kinds THEN ListWord(v, h, W, c) ELSE LeafOf(v, h, c)

\* W is what the blocks of the heap say.
Written(v, h, W) ==
  /\ W \in [DOMAIN h -> Seq(Words)]
  /\ \A c \in DOMAIN h : W[c] = WordOf(v, h, W, c)

\* A block is one of those the parser makes.
ShapeOf(h, c) ==
  /\ h[c].names \in Seq(Nat \ {0}) /\ h[c].kids \in Seq(Nat \ {0})
  /\ h[c].kind \in EntityKinds \cup {"text", "items"}
  /\ h[c].kind = "object" => Len(h[c].names) = Len(h[c].kids)
  /\ h[c].kind = "string" => Len(h[c].names) = 1
  /\ h[c].kind \notin Kinds => h[c].kids = <<>>
  /\ h[c].kind = "text" => h[c].val \in Strings
  /\ h[c].kind = "number" => h[c].val \in Nat
  /\ \A i \in 1 .. Len(h[c].names) : h[c].names[i] \in DOMAIN h /\ h[h[c].names[i]].kind = "text"
  /\ \A i \in 1 .. Len(h[c].kids) : h[c].kids[i] \in DOMAIN h /\ h[h[c].kids[i]].kind \in EntityKinds

Shaped(h) == \A c \in DOMAIN h : ShapeOf(h, c)

LEMMA KindsApart ==
  /\ Kinds \cap Literals = {} /\ "string" \notin Kinds \cup Literals /\ "text" \notin EntityKinds
  /\ "items" \notin EntityKinds
BY DEF Kinds, Literals, EntityKinds

LEMMA MarkIs ==
  ASSUME NEW v, NEW t \in Words
  PROVE  Mark(v, t) \in Seq(Words) /\ Sep(v) \in Seq(Words)
<1>1. "comma" \in Words
  BY DEF Words, Tokens, Symbols
<1>. QED
  BY <1>1 DEF Mark, Sep

LEMMA BracketsAreWords ==
  /\ \A k : Opener(k) \in Words /\ Closer(k) \in Words
  /\ "colon" \in Words /\ "comma" \in Words /\ "error" \in Words
  /\ Literals \subseteq Words /\ Strings \subseteq Words /\ Nat \subseteq Words /\ Tokens \subseteq Words
BY DEF Words, Tokens, Symbols, Opener, Closer

LEMMA NameOfIs ==
  ASSUME NEW v, NEW h, NEW nm, h[nm].val \in Strings
  PROVE  NameOf(v, h, nm) \in Seq(Words)
<1>1. h[nm].val \in Words /\ "colon" \in Words
  BY BracketsAreWords
<1>2. Mark(v, h[nm].val) \in Seq(Words) /\ Mark(v, "colon") \in Seq(Words)
  BY <1>1, MarkIs
<1>. QED
  BY <1>2, ConcatIs DEF NameOf

LEMMA BareIs ==
  ASSUME NEW t \in Strings
  PROVE  Bare[t] \in Seq(Tokens \ Strings) /\ Bare[t] \in Seq(Tokens) /\ Bare[t] \in Seq(Words)
<1>. DEFINE S == (Symbols \ {"eof"}) \cup Literals
<1>1. Bare[t] \in Seq(S)
  BY BareAssumption
<1>2. S \subseteq Tokens \ Strings /\ Tokens \ Strings \subseteq Tokens /\ Tokens \subseteq Words
  BY StringsAssumption, BracketsAreWords DEF Tokens
<1>. HIDE DEF S
<1>. QED
  BY <1>1, <1>2

LEMMA LeafOfIs ==
  ASSUME NEW v, NEW h, Shaped(h), NEW c \in DOMAIN h, h[c].kind \notin Kinds
  PROVE  LeafOf(v, h, c) \in Seq(Words)
<1>1. ShapeOf(h, c)
  BY DEF Shaped
<1>2. CASE h[c].kind = "string"
  <2>1. h[c].names[1] \in DOMAIN h /\ h[h[c].names[1]].kind = "text"
    BY <1>1, <1>2 DEF ShapeOf
  <2>2. h[h[c].names[1]].val \in Strings
    BY <2>1 DEF Shaped, ShapeOf
  <2>3. TextIn(h, c) \in Words /\ Bare[TextIn(h, c)] \in Seq(Words)
    BY <2>2, BareIs, BracketsAreWords DEF TextIn
  <2>. QED
    BY <1>2, <2>3 DEF LeafOf, StringOf
<1>3. CASE h[c].kind # "string"
  <2>1. h[c].kind \in Words
    <3>1. h[c].kind \in Literals \cup {"text", "items"}
      BY <1>1, <1>3 DEF ShapeOf, EntityKinds
    <3>. QED
      BY <3>1 DEF Words, Tokens
  <2>2. h[c].kind = "number" => h[c].val \in Words
    BY <1>1, BracketsAreWords DEF ShapeOf
  <2>. QED
    BY <1>3, <2>1, <2>2 DEF LeafOf
<1>. QED
  BY <1>2, <1>3

LEMMA FieldOfIs ==
  ASSUME NEW v, NEW h, Shaped(h), NEW c \in DOMAIN h, NEW i \in 1 .. Len(h[c].kids)
  PROVE  FieldOf(v, h, c, i) \in Seq(Words)
<1>1. ShapeOf(h, c)
  BY DEF Shaped
<1>2. CASE h[c].kind = "object"
  <2>1. h[c].names[i] \in DOMAIN h /\ h[h[c].names[i]].kind = "text"
    BY <1>1, <1>2 DEF ShapeOf
  <2>2. h[h[c].names[i]].val \in Strings
    BY <2>1 DEF Shaped, ShapeOf
  <2>. QED
    BY <1>2, <2>2, NameOfIs DEF FieldOf
<1>3. CASE h[c].kind # "object"
  BY <1>3 DEF FieldOf
<1>. QED
  BY <1>2, <1>3

LEMMA ItemOfIs ==
  ASSUME NEW v, NEW h, Shaped(h), NEW c \in DOMAIN h, NEW i \in 1 .. Len(h[c].kids),
         NEW W, W[h[c].kids[i]] \in Seq(Words)
  PROVE  ItemOf(v, h, W, c, i) \in Seq(Words)
<1>1. FieldOf(v, h, c, i) \in Seq(Words)
  BY FieldOfIs
<1>2. Sep(v) \in Seq(Words)
  BY MarkIs, BracketsAreWords
<1>3. FieldOf(v, h, c, i) \o W[h[c].kids[i]] \in Seq(Words)
  BY <1>1, ConcatIs
<1>. QED
  BY <1>2, <1>3, ConcatIs DEF ItemOf

LEMMA ItemsOfIs ==
  ASSUME NEW v, NEW h, Shaped(h), NEW c \in DOMAIN h, NEW W, \A i \in 1 .. Len(h[c].kids) : W[h[c].kids[i]] \in Seq(Words)
  PROVE  /\ ItemsOf(v, h, W, c) \in Seq(Words)
         /\ h[c].kids = <<>> => ItemsOf(v, h, W, c) = <<>>
<1>. DEFINE q == [i \in 1 .. Len(h[c].kids) |-> ItemOf(v, h, W, c, i)]
            n == Len(h[c].kids)
<1>1. n \in Nat
  BY DEF Shaped, ShapeOf
<1>2. \A i \in 1 .. n : q[i] \in Seq(Words)
  BY ItemOfIs
<1>3. ItemsOf(v, h, W, c) = FlatTo(q, n)
  BY DEF ItemsOf
<1>. HIDE DEF q
<1>4. FlatTo(q, 0) = <<>> /\ FlatTo(q, n) \in Seq(Words)
  <2>1. n \in 0 .. n
    BY <1>1
  <2>. HIDE DEF n
  <2>2. FlatTo(q, 0) = <<>> /\ \A k \in 0 .. n : FlatTo(q, k) \in Seq(Words)
    BY ONLY <1>1, <1>2, FlatToIs
  <2>. QED
    BY <2>1, <2>2
<1>5. h[c].kids = <<>> => n = 0
  OBVIOUS
<1>. QED
  BY <1>3, <1>4, <1>5

LEMMA ListWordIs ==
  ASSUME NEW v, NEW h, Shaped(h), NEW c \in DOMAIN h, NEW W, \A i \in 1 .. Len(h[c].kids) : W[h[c].kids[i]] \in Seq(Words)
  PROVE  WordOf(v, h, W, c) \in Seq(Words)
<1>1. CASE h[c].kind \in Kinds
  <2>1. Mark(v, Opener(h[c].kind)) \in Seq(Words) /\ Mark(v, Closer(h[c].kind)) \in Seq(Words)
    BY MarkIs, BracketsAreWords
  <2>2. ItemsOf(v, h, W, c) \in Seq(Words)
    BY ItemsOfIs
  <2>3. Mark(v, Opener(h[c].kind)) \o ItemsOf(v, h, W, c) \in Seq(Words)
    BY <2>1, <2>2, ConcatIs
  <2>. QED
    BY <1>1, <2>1, <2>3, ConcatIs DEF WordOf, ListWord
<1>2. CASE h[c].kind \notin Kinds
  BY <1>2, LeafOfIs DEF WordOf
<1>. QED
  BY <1>1, <1>2

\* It depends on the block, its names and what its items say.
LEMMA WordDepends ==
  ASSUME NEW v, NEW h, Shaped(h), NEW c \in DOMAIN h, NEW W, NEW g, NEW V, g[c] = h[c],
         \A i \in 1 .. Len(h[c].names) : g[h[c].names[i]] = h[h[c].names[i]],
         \A i \in 1 .. Len(h[c].kids) : V[h[c].kids[i]] = W[h[c].kids[i]]
  PROVE  ItemsOf(v, g, V, c) = ItemsOf(v, h, W, c) /\ WordOf(v, g, V, c) = WordOf(v, h, W, c)
<1>1. ShapeOf(h, c)
  BY DEF Shaped
<1>2. ASSUME NEW i \in 1 .. Len(h[c].kids) PROVE ItemOf(v, g, V, c, i) = ItemOf(v, h, W, c, i)
  <2>1. FieldOf(v, g, c, i) = FieldOf(v, h, c, i)
    <3>1. CASE h[c].kind = "object"
      <4>1. i \in 1 .. Len(h[c].names)
        BY <1>1, <3>1 DEF ShapeOf
      <4>2. g[h[c].names[i]] = h[h[c].names[i]]
        BY <4>1
      <4>. QED
        BY <3>1, <4>2 DEF FieldOf, NameOf
    <3>2. CASE h[c].kind # "object"
      BY <3>2 DEF FieldOf
    <3>. QED
      BY <3>1, <3>2
  <2>2. V[g[c].kids[i]] = W[h[c].kids[i]]
    OBVIOUS
  <2>. QED
    BY <2>1, <2>2, Zenon DEF ItemOf
<1>3. [i \in 1 .. Len(g[c].kids) |-> ItemOf(v, g, V, c, i)] = [i \in 1 .. Len(h[c].kids) |-> ItemOf(v, h, W, c, i)]
  BY <1>2, Zenon
<1>4. ItemsOf(v, g, V, c) = ItemsOf(v, h, W, c)
  BY <1>3, Zenon DEF ItemsOf
<1>5. LeafOf(v, g, c) = LeafOf(v, h, c)
  <2>1. CASE h[c].kind = "string"
    <3>1. 1 \in 1 .. Len(h[c].names)
      <4>1. Len(h[c].names) = 1
        BY <1>1, <2>1, Zenon DEF ShapeOf
      <4>. QED
        BY <4>1
    <3>2. g[h[c].names[1]] = h[h[c].names[1]]
      BY <3>1
    <3>. QED
      BY <2>1, <3>2 DEF LeafOf, StringOf, TextIn
  <2>2. CASE h[c].kind # "string"
    BY <2>2 DEF LeafOf
  <2>. QED
    BY <2>1, <2>2
<1>. QED
  BY <1>4, <1>5, Zenon DEF WordOf, ListWord

\* A heap to which blocks without items are added.
Grows(h, g) ==
  /\ DOMAIN h \subseteq DOMAIN g
  /\ \A c \in DOMAIN h : g[c] = h[c]
  /\ \A c \in DOMAIN g \ DOMAIN h : g[c].kids = <<>>

LEMMA WrittenGrows ==
  ASSUME NEW v, NEW h, NEW g, NEW W, Shaped(h), Shaped(g), Grows(h, g), Written(v, h, W)
  PROVE  \E V : /\ Written(v, g, V)
                /\ \A c \in DOMAIN h : V[c] = W[c] /\ ItemsOf(v, g, V, c) = ItemsOf(v, h, W, c)
<1>. DEFINE V == [c \in DOMAIN g |-> IF c \in DOMAIN h THEN W[c] ELSE WordOf(v, g, W, c)]
<1>1. ASSUME NEW c \in DOMAIN h PROVE V[c] = W[c] /\ c \in DOMAIN g /\ g[c] = h[c]
  BY DEF Grows
<1>2. ASSUME NEW c \in DOMAIN g, c \notin DOMAIN h PROVE V[c] = WordOf(v, g, W, c) /\ g[c].kids = <<>>
  BY <1>2 DEF Grows
<1>3. DOMAIN V = DOMAIN g
  OBVIOUS
<1>4. V = [c \in DOMAIN g |-> V[c]]
  OBVIOUS
<1>. HIDE DEF V
<1>5. ASSUME NEW c \in DOMAIN h
      PROVE  ItemsOf(v, g, V, c) = ItemsOf(v, h, W, c) /\ WordOf(v, g, V, c) = WordOf(v, h, W, c)
  <2>1. ShapeOf(h, c)
    BY DEF Shaped
  <2>2. \A i \in 1 .. Len(h[c].names) : g[h[c].names[i]] = h[h[c].names[i]]
    BY <1>1, <2>1 DEF ShapeOf
  <2>3. \A i \in 1 .. Len(h[c].kids) : V[h[c].kids[i]] = W[h[c].kids[i]]
    BY <1>1, <2>1 DEF ShapeOf
  <2>4. g[c] = h[c]
    BY <1>1
  <2>. QED
    BY <2>2, <2>3, <2>4, WordDepends
<1>6. ASSUME NEW c \in DOMAIN g, c \notin DOMAIN h
      PROVE  WordOf(v, g, V, c) = V[c] /\ V[c] \in Seq(Words)
  <2>1. g[c].kids = <<>> /\ V[c] = WordOf(v, g, W, c)
    BY <1>2, <1>6
  <2>2. \A i \in 1 .. Len(g[c].kids) : FALSE
    BY <2>1
  <2>3. WordOf(v, g, V, c) = WordOf(v, g, W, c)
    BY <2>2, WordDepends
  <2>4. WordOf(v, g, W, c) \in Seq(Words)
    BY <2>2, ListWordIs
  <2>. QED
    BY <2>1, <2>3, <2>4
<1>7. ASSUME NEW c \in DOMAIN g PROVE V[c] \in Seq(Words) /\ V[c] = WordOf(v, g, V, c)
  <2>1. CASE c \in DOMAIN h
    BY <1>1, <1>5, <2>1 DEF Written
  <2>2. CASE c \notin DOMAIN h
    BY <1>6, <2>2
  <2>. QED
    BY <2>1, <2>2
<1>8. Written(v, g, V)
  BY <1>4, <1>7 DEF Written
<1>. QED
  BY <1>1, <1>5, <1>8

\* An entity to which the entity r is pushed, with its name nm in an object.
PushedOn(h, g, e, nm, r) ==
  /\ DOMAIN g = DOMAIN h /\ \A c \in DOMAIN h : c # e => g[c] = h[c]
  /\ e \in DOMAIN h /\ h[e].kind \in Kinds /\ g[e].kind = h[e].kind
  /\ g[e].kids = Append(h[e].kids, r)
  /\ g[e].names = IF h[e].kind = "object" THEN Append(h[e].names, nm) ELSE h[e].names
  /\ r \in DOMAIN h /\ r \in Nat \ {0} /\ r # e /\ h[r].kind \in EntityKinds
  /\ h[e].kind = "object" => nm \in Nat \ {0} /\ nm \in DOMAIN h /\ h[nm].kind = "text"
  /\ \A c \in DOMAIN h : \A i \in 1 .. Len(h[c].kids) : h[c].kids[i] # e

NewItem(v, h, W, e, nm, r) == (IF h[e].kind = "object" THEN NameOf(v, h, nm) ELSE <<>>) \o W[r] \o Sep(v)

ItemPushed(v, h, g, W, e, nm, r) == ItemsOf(v, g, W, e) = ItemsOf(v, h, W, e) \o NewItem(v, h, W, e, nm, r)

LEMMA PushedKinds ==
  ASSUME NEW h, NEW g, NEW e, NEW nm, NEW r, PushedOn(h, g, e, nm, r)
  PROVE  \A c \in DOMAIN h : g[c].kind = h[c].kind
BY DEF PushedOn

LEMMA PushedShape ==
  ASSUME NEW h, Shaped(h), NEW g, NEW e, NEW nm, NEW r, PushedOn(h, g, e, nm, r)
  PROVE  Shaped(g)
<1>0. /\ DOMAIN g = DOMAIN h /\ \A c \in DOMAIN h : g[c].kind = h[c].kind
      /\ e \in DOMAIN h /\ h[e].kind \in Kinds
  BY PushedKinds DEF PushedOn
<1>1. ASSUME NEW c \in DOMAIN h, c # e PROVE ShapeOf(g, c)
  <2>1. g[c] = h[c] /\ ShapeOf(h, c)
    BY <1>1 DEF PushedOn, Shaped
  <2>2. \A i \in 1 .. Len(h[c].names) :
          h[c].names[i] \in DOMAIN g /\ g[h[c].names[i]].kind = "text"
    BY <1>0, <2>1 DEF ShapeOf
  <2>3. \A i \in 1 .. Len(h[c].kids) : h[c].kids[i] \in DOMAIN g /\ g[h[c].kids[i]].kind \in EntityKinds
    BY <1>0, <2>1 DEF ShapeOf
  <2>. QED
    BY <2>1, <2>2, <2>3, Zenon DEF ShapeOf
<1>2. ShapeOf(g, e)
  <2>. DEFINE ks == h[e].kids
              ns == h[e].names
  <2>1. /\ ns \in Seq(Nat \ {0}) /\ ks \in Seq(Nat \ {0})
        /\ h[e].kind = "object" => Len(ns) = Len(ks)
        /\ \A i \in 1 .. Len(ns) : ns[i] \in DOMAIN h /\ h[ns[i]].kind = "text"
        /\ \A i \in 1 .. Len(ks) : ks[i] \in DOMAIN h /\ h[ks[i]].kind \in EntityKinds
    BY <1>0 DEF Shaped, ShapeOf
  <2>2. /\ g[e].kids = Append(ks, r) /\ r \in Nat \ {0} /\ r \in DOMAIN h /\ h[r].kind \in EntityKinds
        /\ g[e].names = IF h[e].kind = "object" THEN Append(ns, nm) ELSE ns
        /\ h[e].kind = "object" => nm \in Nat \ {0} /\ nm \in DOMAIN h /\ h[nm].kind = "text"
    BY DEF PushedOn
  <2>. HIDE DEF ks, ns
  <2>3. /\ g[e].kids \in Seq(Nat \ {0}) /\ Len(g[e].kids) = Len(ks) + 1
        /\ \A i \in 1 .. Len(g[e].kids) : g[e].kids[i] = r \/ (i \in 1 .. Len(ks) /\ g[e].kids[i] = ks[i])
    BY <2>1, <2>2
  <2>4. \A i \in 1 .. Len(g[e].kids) : g[e].kids[i] \in DOMAIN g /\ g[g[e].kids[i]].kind \in EntityKinds
    BY <1>0, <2>1, <2>2, <2>3
  <2>5. /\ g[e].names \in Seq(Nat \ {0})
        /\ h[e].kind = "object" => Len(g[e].names) = Len(ks) + 1
        /\ \A i \in 1 .. Len(g[e].names) :
             \/ h[e].kind = "object" /\ g[e].names[i] = nm
             \/ i \in 1 .. Len(ns) /\ g[e].names[i] = ns[i]
    <3>1. CASE h[e].kind = "object"
      <4>1. g[e].names = Append(ns, nm) /\ ns \in Seq(Nat \ {0}) /\ nm \in Nat \ {0} /\ Len(ns) = Len(ks)
        BY <2>1, <2>2, <3>1
      <4>2. /\ Append(ns, nm) \in Seq(Nat \ {0}) /\ Len(Append(ns, nm)) = Len(ns) + 1
            /\ \A i \in 1 .. Len(Append(ns, nm)) :
                 Append(ns, nm)[i] = nm \/ (i \in 1 .. Len(ns) /\ Append(ns, nm)[i] = ns[i])
        BY ONLY <4>1
      <4>. QED
        BY <3>1, <4>1, <4>2, Zenon
    <3>2. CASE h[e].kind # "object"
      <4>1. g[e].names = ns
        BY <2>2, <3>2, Zenon
      <4>2. \A i \in 1 .. Len(g[e].names) : i \in 1 .. Len(ns) /\ g[e].names[i] = ns[i]
        BY <4>1, Zenon
      <4>. QED
        BY <2>1, <3>2, <4>1, <4>2, Zenon
    <3>. QED
      BY <3>1, <3>2, Zenon
  <2>6. \A i \in 1 .. Len(g[e].names) : g[e].names[i] \in DOMAIN g /\ g[g[e].names[i]].kind = "text"
    BY <1>0, <2>1, <2>2, <2>5
  <2>7. g[e].kind = h[e].kind /\ g[e].kind \in Kinds
    BY <1>0
  <2>8. g[e].kind \in EntityKinds /\ g[e].kind # "string" /\ g[e].kind # "text" /\ g[e].kind # "number"
    BY <2>7 DEF EntityKinds, Kinds
  <2>. QED
    BY <2>3, <2>4, <2>5, <2>6, <2>7, <2>8, Zenon DEF ShapeOf
<1>. QED
  BY <1>0, <1>1, <1>2 DEF Shaped

LEMMA PushedItems ==
  ASSUME NEW v, NEW h, Shaped(h), NEW g, NEW e, NEW nm, NEW r, PushedOn(h, g, e, nm, r),
         NEW W, Written(v, h, W)
  PROVE  ItemPushed(v, h, g, W, e, nm, r)
<1>. DEFINE n == Len(h[e].kids)
            q == [i \in 1 .. n |-> ItemOf(v, h, W, e, i)]
            p == [i \in 1 .. n + 1 |-> ItemOf(v, g, W, e, i)]
            new == NewItem(v, h, W, e, nm, r)
<1>w. \A c \in DOMAIN h : W[c] \in Seq(Words)
  BY DEF Written
<1>0. /\ DOMAIN g = DOMAIN h /\ \A c \in DOMAIN h : c # e => g[c] = h[c]
      /\ e \in DOMAIN h /\ h[e].kind \in Kinds /\ g[e].kind = h[e].kind
      /\ g[e].kids = Append(h[e].kids, r)
      /\ g[e].names = IF h[e].kind = "object" THEN Append(h[e].names, nm) ELSE h[e].names
      /\ h[e].kind = "object" => nm \in Nat \ {0} /\ nm \in DOMAIN h /\ h[nm].kind = "text"
      /\ r \in Nat \ {0}
  BY DEF PushedOn
<1>1. /\ h[e].names \in Seq(Nat \ {0}) /\ h[e].kids \in Seq(Nat \ {0}) /\ n \in Nat
      /\ h[e].kind = "object" => Len(h[e].names) = n
      /\ \A i \in 1 .. Len(h[e].names) : h[e].names[i] \in DOMAIN h /\ h[h[e].names[i]].kind = "text"
  BY <1>0 DEF Shaped, ShapeOf
<1>2. Len(g[e].kids) = n + 1 /\ g[e].kids[n + 1] = r /\ \A i \in 1 .. n : g[e].kids[i] = h[e].kids[i]
  BY <1>0, <1>1
<1>3. h[e].kind = "object" =>
        g[e].names[n + 1] = nm /\ \A i \in 1 .. n : g[e].names[i] = h[e].names[i]
  BY <1>0, <1>1
<1>4. \A c \in DOMAIN h : h[c].kind = "text" => g[c] = h[c]
  BY <1>0, KindsApart DEF EntityKinds
<1>. HIDE DEF n
<1>5. ASSUME NEW i \in 1 .. n PROVE ItemOf(v, g, W, e, i) = ItemOf(v, h, W, e, i)
  <2>1. FieldOf(v, g, e, i) = FieldOf(v, h, e, i)
    <3>1. CASE h[e].kind = "object"
      <4>1. g[e].names[i] = h[e].names[i] /\ g[h[e].names[i]] = h[h[e].names[i]]
        BY <1>1, <1>3, <1>4, <3>1
      <4>. QED
        BY <1>0, <3>1, <4>1, Zenon DEF FieldOf, NameOf
    <3>2. CASE h[e].kind # "object"
      BY <1>0, <3>2, Zenon DEF FieldOf
    <3>. QED
      BY <3>1, <3>2
  <2>. QED
    BY <1>2, <2>1, Zenon DEF ItemOf
<1>6. ItemOf(v, g, W, e, n + 1) = new
  <2>1. FieldOf(v, g, e, n + 1) = IF h[e].kind = "object" THEN NameOf(v, h, nm) ELSE <<>>
    <3>1. CASE h[e].kind = "object"
      <4>1. g[e].names[n + 1] = nm /\ g[nm] = h[nm]
        BY <1>0, <1>3, <1>4, <3>1
      <4>. QED
        BY <1>0, <3>1, <4>1, Zenon DEF FieldOf, NameOf
    <3>2. CASE h[e].kind # "object"
      BY <1>0, <3>2, Zenon DEF FieldOf
    <3>. QED
      BY <3>1, <3>2
  <2>. QED
    BY <1>2, <2>1, Zenon DEF ItemOf, NewItem
<1>7. \A i \in 1 .. n + 1 : ItemOf(v, g, W, e, i) \in Seq(Words)
  <2>1. Shaped(g)
    BY PushedShape
  <2>2. \A i \in 1 .. n + 1 : W[g[e].kids[i]] \in Seq(Words)
    BY <1>w, <1>0, <1>2, <2>1 DEF Shaped, ShapeOf
  <2>. QED
    BY <1>0, <1>2, <2>1, <2>2, ItemOfIs
<1>8. ItemsOf(v, g, W, e) = FlatTo(p, n + 1) /\ ItemsOf(v, h, W, e) = FlatTo(q, n)
  BY <1>2 DEF ItemsOf, n
<1>. HIDE DEF new
<1>9. /\ n + 1 \in Nat /\ n + 1 \in 1 .. n + 1 /\ p[n + 1] = new
      /\ \A i \in 1 .. n + 1 : p[i] \in Seq(Words)
      /\ \A i \in 1 .. n : p[i] = q[i]
  BY <1>1, <1>5, <1>6, <1>7
<1>. HIDE DEF p, q
<1>10. FlatTo(p, n + 1) = FlatTo(p, n) \o p[n + 1]
  <2>1. ASSUME NEW m, m = n + 1 PROVE FlatTo(p, m) = FlatTo(p, n) \o p[m]
    <3>1. \A i \in 1 .. m : p[i] \in Seq(Words)
      BY <1>9, <2>1
    <3>. QED
      BY <1>1, <2>1, <3>1, FlatToLast
  <2>. QED
    BY <2>1, Zenon
<1>11. FlatTo(p, n) = FlatTo(q, n)
  <2>1. [i \in 1 .. n |-> p[i]] = [i \in 1 .. n |-> q[i]]
    BY <1>9, Zenon
  <2>. QED
    BY <2>1, Zenon DEF FlatTo
<1>. QED
  BY <1>8, <1>9, <1>10, <1>11, Zenon DEF new, ItemPushed

\* What the blocks say then: V where they said W.
PushedSays(v, h, W, g, V, e, nm, r) ==
  /\ Written(v, g, V)
  /\ \A c \in DOMAIN h : c # e => V[c] = W[c] /\ ItemsOf(v, g, V, c) = ItemsOf(v, h, W, c)
  /\ ItemsOf(v, g, V, e) = ItemsOf(v, h, W, e) \o NewItem(v, h, W, e, nm, r)

LEMMA WrittenPushed ==
  ASSUME NEW v, NEW h, Shaped(h), NEW g, NEW e, NEW nm, NEW r, PushedOn(h, g, e, nm, r), NEW W, Written(v, h, W)
  PROVE  \E V : PushedSays(v, h, W, g, V, e, nm, r)
<1>. DEFINE V == [c \in DOMAIN g |-> IF c = e THEN WordOf(v, g, W, e) ELSE W[c]]
<1>0. /\ DOMAIN g = DOMAIN h /\ \A c \in DOMAIN h : c # e => g[c] = h[c]
      /\ e \in DOMAIN h /\ h[e].kind \in Kinds /\ g[e].kids = Append(h[e].kids, r)
      /\ r # e /\ r \in Nat \ {0}
      /\ \A c \in DOMAIN h : \A i \in 1 .. Len(h[c].kids) : h[c].kids[i] # e
  BY DEF PushedOn
<1>1. V[e] = WordOf(v, g, W, e) /\ \A c \in DOMAIN h : c # e => V[c] = W[c]
  BY <1>0
<1>2. V = [c \in DOMAIN g |-> V[c]]
  OBVIOUS
<1>. HIDE DEF V
<1>3. Shaped(g)
  BY PushedShape
<1>4. \A c \in DOMAIN h : W[c] \in Seq(Words)
  BY DEF Written
<1>5. \A c \in DOMAIN h : h[c].kind = "text" => g[c] = h[c]
  BY <1>0, KindsApart DEF EntityKinds
<1>6. ASSUME NEW c \in DOMAIN h, c # e
      PROVE  ItemsOf(v, g, V, c) = ItemsOf(v, h, W, c) /\ WordOf(v, g, V, c) = WordOf(v, h, W, c)
  <2>1. ShapeOf(h, c)
    BY DEF Shaped
  <2>2. \A i \in 1 .. Len(h[c].names) : g[h[c].names[i]] = h[h[c].names[i]]
    BY <1>5, <2>1 DEF ShapeOf
  <2>3. \A i \in 1 .. Len(h[c].kids) : V[h[c].kids[i]] = W[h[c].kids[i]]
    BY <1>0, <1>1, <2>1 DEF ShapeOf
  <2>4. g[c] = h[c]
    BY <1>0, <1>6
  <2>. QED
    BY <2>2, <2>3, <2>4, WordDepends
<1>7. ItemsOf(v, g, V, e) = ItemsOf(v, g, W, e) /\ WordOf(v, g, V, e) = WordOf(v, g, W, e)
  <2>1. ASSUME NEW i \in 1 .. Len(g[e].kids) PROVE V[g[e].kids[i]] = W[g[e].kids[i]]
    <3>1. g[e].kids[i] \in DOMAIN g
      BY <1>0, <1>3 DEF Shaped, ShapeOf
    <3>2. h[e].kids \in Seq(Nat \ {0})
      BY <1>0 DEF Shaped, ShapeOf
    <3>3. g[e].kids[i] # e
      <4>1. g[e].kids[i] = r \/ (i \in 1 .. Len(h[e].kids) /\ g[e].kids[i] = h[e].kids[i])
        BY <1>0, <3>2
      <4>. QED
        BY <1>0, <4>1
    <3>. QED
      BY <1>0, <1>1, <3>1, <3>3
  <2>2. e \in DOMAIN g /\ (\A i \in 1 .. Len(g[e].names) : g[g[e].names[i]] = g[g[e].names[i]])
    BY <1>0
  <2>3. g[e] = g[e]
    OBVIOUS
  <2>. HIDE DEF V
  <2>. QED
    BY <1>3, <2>1, <2>2, <2>3, WordDepends
<1>8. ASSUME NEW c \in DOMAIN g PROVE V[c] \in Seq(Words) /\ V[c] = WordOf(v, g, V, c)
  <2>1. CASE c = e
    <3>1. \A i \in 1 .. Len(g[e].kids) : W[g[e].kids[i]] \in Seq(Words)
      BY <1>0, <1>3, <1>4 DEF Shaped, ShapeOf
    <3>2. WordOf(v, g, W, e) \in Seq(Words)
      BY <1>0, <1>3, <3>1, ListWordIs
    <3>. QED
      BY <1>1, <1>7, <2>1, <3>2
  <2>2. CASE c # e
    BY <1>0, <1>1, <1>6, <2>2 DEF Written
  <2>. QED
    BY <2>1, <2>2
<1>9. Written(v, g, V)
  BY <1>2, <1>8 DEF Written
<1>10. ItemsOf(v, g, V, e) = ItemsOf(v, h, W, e) \o NewItem(v, h, W, e, nm, r)
  <2>1. ItemPushed(v, h, g, W, e, nm, r)
    BY PushedItems
  <2>. QED
    BY <1>7, <2>1, Zenon DEF ItemPushed
<1>11. \A c \in DOMAIN h : c # e => V[c] = W[c] /\ ItemsOf(v, g, V, c) = ItemsOf(v, h, W, c)
  BY <1>1, <1>6
<1>. QED
  BY <1>9, <1>10, <1>11, Zenon DEF PushedSays

\* What the tokens read say so far: the tokens but for the commas, or the
\* numbers, which are counted.
CountTo(r, i) == Cardinality({j \in 1 .. i : r[j] = "number"})
SaidAt(v, r, i) ==
  IF v = "numbers" THEN (IF r[i] = "number" THEN <<CountTo(r, i)>> ELSE <<>>)
  ELSE IF r[i] = "comma" THEN <<>> ELSE <<r[i]>>
SaidTo(v, r, n) == FlatTo([i \in 1 .. n |-> SaidAt(v, r, i)], n)
Said(v, r) == SaidTo(v, r, Len(r))

LEMMA SaidAtIs ==
  ASSUME NEW v, NEW r \in Seq(Tokens), NEW i \in 1 .. Len(r)
  PROVE  SaidAt(v, r, i) \in Seq(Words)
<1>1. r[i] \in Words
  BY BracketsAreWords
<1>2. CountTo(r, i) \in Words
  <2>1. IsFiniteSet(1 .. i)
    BY FS_Interval
  <2>2. IsFiniteSet({j \in 1 .. i : r[j] = "number"})
    BY <2>1, FS_Subset
  <2>. QED
    BY <2>2, FS_CardinalityType, BracketsAreWords DEF CountTo
<1>. HIDE DEF Words
<1>. QED
  BY <1>1, <1>2 DEF SaidAt

LEMMA SaidAppend ==
  ASSUME NEW v, NEW r \in Seq(Tokens), NEW t \in Tokens
  PROVE  /\ Said(v, r) \in Seq(Words)
         /\ Said(v, Append(r, t)) = Said(v, r) \o SaidAt(v, Append(r, t), Len(r) + 1)
         /\ SaidAt(v, Append(r, t), Len(r) + 1) \in Seq(Words)
<1>. DEFINE n == Len(r)
            w == Append(r, t)
            q == [i \in 1 .. n |-> SaidAt(v, r, i)]
            p == [i \in 1 .. n + 1 |-> SaidAt(v, w, i)]
<1>1. /\ n \in Nat /\ w \in Seq(Tokens) /\ Len(w) = n + 1 /\ n + 1 \in 1 .. Len(w)
      /\ \A i \in 1 .. n : w[i] = r[i]
  OBVIOUS
<1>. HIDE DEF n, w
<1>2. \A i \in 1 .. n + 1 : SaidAt(v, w, i) \in Seq(Words)
  BY <1>1, SaidAtIs
<1>3. \A i \in 1 .. n : SaidAt(v, r, i) \in Seq(Words)
  BY SaidAtIs DEF n
<1>4. ASSUME NEW i \in 1 .. n PROVE SaidAt(v, w, i) = SaidAt(v, r, i)
  <2>1. w[i] = r[i]
    BY <1>1
  <2>2. {j \in 1 .. i : w[j] = "number"} = {j \in 1 .. i : r[j] = "number"}
    BY <1>1
  <2>. QED
    BY <2>1, <2>2, Zenon DEF SaidAt, CountTo
<1>5. /\ \A i \in 1 .. n + 1 : p[i] \in Seq(Words)
      /\ \A i \in 1 .. n : q[i] \in Seq(Words) /\ p[i] = q[i]
      /\ p[n + 1] = SaidAt(v, w, n + 1)
  BY <1>1, <1>2, <1>3, <1>4
<1>6. Said(v, w) = FlatTo(p, n + 1) /\ Said(v, r) = FlatTo(q, n)
  BY <1>1, Zenon DEF Said, SaidTo, n
<1>. HIDE DEF p, q
<1>7. ASSUME NEW m, m = n + 1 PROVE FlatTo(p, m) = FlatTo(p, n) \o p[m]
  <2>1. \A i \in 1 .. m : p[i] \in Seq(Words)
    BY <1>5, <1>7
  <2>2. n \in Nat
    BY <1>1
  <2>. QED
    BY <1>7, <2>1, <2>2, FlatToLast
<1>8. FlatTo(p, n + 1) = FlatTo(p, n) \o p[n + 1]
  BY <1>7, Zenon
<1>9. FlatTo(p, n) = FlatTo(q, n)
  <2>1. [i \in 1 .. n |-> p[i]] = [i \in 1 .. n |-> q[i]]
    BY <1>5, Zenon
  <2>. QED
    BY <2>1, Zenon DEF FlatTo
<1>10. FlatTo(q, n) \in Seq(Words)
  <2>1. n \in 0 .. n
    BY <1>1
  <2>. QED
    BY <1>1, <1>5, <2>1, FlatToIs
<1>11. Said(v, w) = Said(v, r) \o SaidAt(v, w, n + 1)
  BY <1>5, <1>6, <1>8, <1>9, Zenon
<1>. QED
  BY <1>1, <1>2, <1>6, <1>10, <1>11, Zenon DEF n, w

\* The token t says itself, or nothing.
LEMMA TokenSays ==
  ASSUME NEW v \in {"tokens", "numbers"}, NEW r \in Seq(Tokens), NEW t \in Tokens
  PROVE  /\ t = "comma" => Said(v, Append(r, t)) = Said(v, r)
         /\ t \notin {"comma", "number"} => Said(v, Append(r, t)) = Said(v, r) \o Mark(v, t)
         /\ t = "number" => Said(v, Append(r, t)) = Said(v, r) \o
              (IF v = "tokens" THEN <<t>> ELSE <<CountTo(Append(r, t), Len(r) + 1)>>)
<1>. DEFINE w == Append(r, t)
            n == Len(r) + 1
<1>1. w[n] = t
  OBVIOUS
<1>2. Said(v, w) = Said(v, r) \o SaidAt(v, w, n) /\ Said(v, r) \in Seq(Words)
  BY SaidAppend
<1>. HIDE DEF w, n
<1>3. CASE t = "comma"
  <2>1. SaidAt(v, w, n) = <<>>
    BY <1>1, <1>3 DEF SaidAt
  <2>2. Said(v, r) \o <<>> = Said(v, r)
    BY <1>2, ConcatEmpty
  <2>. QED
    BY <1>2, <1>3, <2>1, <2>2 DEF w
<1>4. CASE t \notin {"comma", "number"}
  <2>1. SaidAt(v, w, n) = Mark(v, t)
    BY <1>1, <1>4 DEF SaidAt, Mark
  <2>. QED
    BY <1>2, <1>4, <2>1 DEF w
<1>5. CASE t = "number"
  <2>1. SaidAt(v, w, n) = IF v = "tokens" THEN <<t>> ELSE <<CountTo(w, n)>>
    BY <1>1, <1>5 DEF SaidAt
  <2>. QED
    BY <1>2, <1>5, <2>1, Zenon DEF w, n
<1>. QED
  BY <1>3, <1>4, <1>5, Zenon

\* What a call has put together so far: its list, and the name of the field.
Piece(v, h, W, f) ==
  Mark(v, Opener(f.kind)) \o ItemsOf(v, h, W, f.ent) \o (IF f.name = Null THEN <<>> ELSE NameOf(v, h, f.name))
PiecesTo(v, h, W, st, n) == FlatTo([i \in 1 .. n |-> Piece(v, h, W, st[i])], n)

\* The call f has its entity, and a name where it waits for what belongs to it.
FrameShape(h, f, waiting) ==
  /\ f.ent \in DOMAIN h /\ h[f.ent].kind = f.kind /\ f.kind \in Kinds
  /\ f.name # Null <=> f.kind = "object" /\ waiting
  /\ f.name # Null => f.name \in DOMAIN h /\ h[f.name].kind = "text"

LEMMA PieceIs ==
  ASSUME NEW v, NEW h, Shaped(h), NEW W, Written(v, h, W), NEW f, NEW w, FrameShape(h, f, w)
  PROVE  /\ Piece(v, h, W, f) \in Seq(Words)
         /\ ItemsOf(v, h, W, f.ent) \in Seq(Words)
         /\ Mark(v, Opener(f.kind)) \in Seq(Words) /\ Mark(v, Closer(f.kind)) \in Seq(Words)
         /\ f.name # Null => NameOf(v, h, f.name) \in Seq(Words)
         /\ W[f.ent] = Mark(v, Opener(f.kind)) \o ItemsOf(v, h, W, f.ent) \o Mark(v, Closer(f.kind))
<1>1. f.ent \in DOMAIN h /\ h[f.ent].kind = f.kind /\ f.kind \in Kinds
  BY DEF FrameShape
<1>2. Mark(v, Opener(f.kind)) \in Seq(Words) /\ Mark(v, Closer(f.kind)) \in Seq(Words)
  BY MarkIs, BracketsAreWords
<1>3. \A i \in 1 .. Len(h[f.ent].kids) : W[h[f.ent].kids[i]] \in Seq(Words)
  BY <1>1 DEF Shaped, ShapeOf, Written
<1>4. ItemsOf(v, h, W, f.ent) \in Seq(Words)
  BY <1>1, <1>3, ItemsOfIs
<1>5. f.name # Null => NameOf(v, h, f.name) \in Seq(Words)
  <2>1. f.name # Null => h[f.name].val \in Strings
    BY DEF FrameShape, Shaped, ShapeOf
  <2>. QED
    BY <2>1, NameOfIs
<1>6. Mark(v, Opener(f.kind)) \o ItemsOf(v, h, W, f.ent) \in Seq(Words)
  BY <1>2, <1>4, ConcatIs
<1>7. Piece(v, h, W, f) \in Seq(Words)
  <2>1. (IF f.name = Null THEN <<>> ELSE NameOf(v, h, f.name)) \in Seq(Words)
    BY <1>5
  <2>. QED
    BY <1>6, <2>1, ConcatIs DEF Piece
<1>8. W[f.ent] = WordOf(v, h, W, f.ent)
  BY <1>1 DEF Written
<1>9. W[f.ent] = Mark(v, Opener(f.kind)) \o ItemsOf(v, h, W, f.ent) \o Mark(v, Closer(f.kind))
  BY <1>1, <1>8, Zenon DEF WordOf, ListWord
<1>. QED
  BY <1>2, <1>4, <1>5, <1>7, <1>9

\* The m-th call ends what the first m have put together.
Ending(v, h, W, st, n, m) == PiecesTo(v, h, W, st, m) = PiecesTo(v, h, W, st, n) \o Piece(v, h, W, st[m])

LEMMA PiecesNext ==
  ASSUME NEW v, NEW h, NEW W, NEW st, NEW n \in Nat, NEW m, m = n + 1, \A i \in 1 .. m : Piece(v, h, W, st[i]) \in Seq(Words)
  PROVE  Ending(v, h, W, st, n, m)
<1>. DEFINE q == [i \in 1 .. n |-> Piece(v, h, W, st[i])]
            p == [i \in 1 .. m |-> Piece(v, h, W, st[i])]
<1>0. m \in Nat /\ m \in 1 .. m /\ 1 .. n \subseteq 1 .. m
  OBVIOUS
<1>1. /\ \A i \in 1 .. m : p[i] \in Seq(Words)
      /\ \A i \in 1 .. n : q[i] \in Seq(Words) /\ p[i] = q[i]
      /\ p[m] = Piece(v, h, W, st[m])
  BY <1>0
<1>2. PiecesTo(v, h, W, st, m) = FlatTo(p, m) /\ PiecesTo(v, h, W, st, n) = FlatTo(q, n)
  BY Zenon DEF PiecesTo
<1>. HIDE DEF p, q
<1>3. FlatTo(p, m) = FlatTo(p, n) \o p[m]
  BY <1>1, FlatToLast
<1>4. [i \in 1 .. n |-> p[i]] = [i \in 1 .. n |-> q[i]]
  BY <1>1, Zenon
<1>5. FlatTo(p, n) = FlatTo(q, n)
  BY <1>4, Zenon DEF FlatTo
<1>. QED
  BY <1>1, <1>2, <1>3, <1>5, Zenon DEF Ending

LEMMA PiecesSame ==
  ASSUME NEW v, NEW h, NEW W, NEW st, NEW g, NEW V, NEW st2, NEW n,
         \A i \in 1 .. n : Piece(v, g, V, st2[i]) = Piece(v, h, W, st[i])
  PROVE  PiecesTo(v, g, V, st2, n) = PiecesTo(v, h, W, st, n)
<1>1. [i \in 1 .. n |-> Piece(v, g, V, st2[i])] = [i \in 1 .. n |-> Piece(v, h, W, st[i])]
  BY Zenon
<1>. QED
  BY <1>1, Zenon DEF PiecesTo

LEMMA PiecesNone ==
  ASSUME NEW v, NEW h, NEW W, NEW st
  PROVE  PiecesTo(v, h, W, st, 0) = <<>>
<1>. DEFINE q == [i \in 1 .. 0 |-> Piece(v, h, W, st[i])]
<1>1. \A i \in 1 .. 0 : q[i] \in Seq(Words)
  OBVIOUS
<1>. HIDE DEF q
<1>2. FlatTo(q, 0) = <<>>
  BY <1>1, FlatToIs
<1>. QED
  BY <1>2 DEF PiecesTo, q

\* A call waits for the rest of its item.
Waits(p) == p \in {"colon", "value", "returned"}
Framed(h, st, p) == \A i \in 1 .. Len(st) : FrameShape(h, st[i], i < Len(st) \/ Waits(p))

\* What was read is what the calls have put together, and what was returned.
Told(v, r, st, h, W, p, x) ==
  Said(v, r) \o (IF p = "colon" THEN Mark(v, "colon") ELSE <<>>)
    = PiecesTo(v, h, W, st, Len(st)) \o (IF p \in {"returned", "parsed"} THEN W[x] ELSE <<>>)
ToldAll(r, st, h, p, x) ==
  \A v \in Views : \E W : Written(v, h, W) /\ (v # "printed" => Told(v, r, st, h, W, p, x))

Tells(r, st, h, p, x) ==
  /\ Shaped(h) /\ r \in Seq(Tokens)
  /\ Framed(h, st, p)
  /\ p \in {"returned", "parsed"} => x \in DOMAIN h /\ h[x].kind \in EntityKinds
  /\ ToldAll(r, st, h, p, x)

LEMMA RootTells ==
  ASSUME NEW h, DOMAIN h = {}, NEW x
  PROVE  Tells(<<>>, <<>>, h, "root", x)
<1>1. Shaped(h) /\ Framed(h, <<>>, "root")
  BY DEF Shaped, Framed
<1>2. ASSUME NEW v \in Views PROVE \E W : Written(v, h, W) /\ (v # "printed" => Told(v, <<>>, <<>>, h, W, "root", x))
  <2>. DEFINE W == [c \in DOMAIN h |-> <<>>]
  <2>1. Written(v, h, W)
    BY DEF Written
  <2>. HIDE DEF W
  <2>2. Said(v, <<>>) = <<>>
    <3>. DEFINE q == [i \in 1 .. 0 |-> SaidAt(v, <<>>, i)]
    <3>1. \A i \in 1 .. 0 : q[i] \in Seq(Words)
      OBVIOUS
    <3>2. Len(<<>>) = 0
      OBVIOUS
    <3>. HIDE DEF q
    <3>3. FlatTo(q, 0) = <<>>
      BY <3>1, FlatToIs
    <3>. QED
      BY <3>2, <3>3 DEF Said, SaidTo, q
  <2>3. PiecesTo(v, h, W, <<>>, Len(<<>>)) = <<>>
    <3>1. Len(<<>>) = 0
      OBVIOUS
    <3>. QED
      BY <3>1, PiecesNone
  <2>4. Told(v, <<>>, <<>>, h, W, "root", x)
    BY <2>2, <2>3 DEF Told
  <2>. QED
    BY <2>1, <2>4
<1>3. ToldAll(<<>>, <<>>, h, "root", x)
  BY <1>2, Zenon DEF ToldAll
<1>. QED
  BY <1>1, <1>3 DEF Tells

LEMMA PieceGrows ==
  ASSUME NEW v, NEW h, NEW g, Grows(h, g), NEW f, NEW w, FrameShape(h, f, w), NEW W, NEW V,
         \A c \in DOMAIN h : ItemsOf(v, g, V, c) = ItemsOf(v, h, W, c)
  PROVE  FrameShape(g, f, w) /\ Piece(v, g, V, f) = Piece(v, h, W, f)
<1>1. f.ent \in DOMAIN h /\ (f.name # Null => f.name \in DOMAIN h)
  BY DEF FrameShape
<1>2. \A c \in DOMAIN h : c \in DOMAIN g /\ g[c] = h[c]
  BY DEF Grows
<1>3. FrameShape(g, f, w)
  BY <1>1, <1>2 DEF FrameShape
<1>4. ItemsOf(v, g, V, f.ent) = ItemsOf(v, h, W, f.ent)
  BY <1>1
<1>5. f.name # Null => NameOf(v, g, f.name) = NameOf(v, h, f.name)
  BY <1>1, <1>2, Zenon DEF NameOf
<1>6. Piece(v, g, V, f) = Piece(v, h, W, f)
  BY <1>4, <1>5, Zenon DEF Piece
<1>. QED
  BY <1>3, <1>6

\* Blocks that nothing points to yet tell nothing.
LEMMA TellsGrows ==
  ASSUME NEW r, NEW st, NEW h, NEW p, NEW x, Tells(r, st, h, p, x), NEW g, Grows(h, g), Shaped(g)
  PROVE  Tells(r, st, g, p, x)
<1>0. Shaped(h) /\ Framed(h, st, p) /\ ToldAll(r, st, h, p, x)
  BY DEF Tells
<1>1. ASSUME NEW v \in Views PROVE \E V : Written(v, g, V) /\ (v # "printed" => Told(v, r, st, g, V, p, x))
  <2>1. PICK W : Written(v, h, W) /\ (v # "printed" => Told(v, r, st, h, W, p, x))
    BY <1>0 DEF ToldAll
  <2>2. PICK V : /\ Written(v, g, V)
                 /\ \A c \in DOMAIN h : V[c] = W[c] /\ ItemsOf(v, g, V, c) = ItemsOf(v, h, W, c)
    BY <1>0, <2>1, WrittenGrows
  <2>3. ASSUME NEW i \in 1 .. Len(st) PROVE Piece(v, g, V, st[i]) = Piece(v, h, W, st[i])
    <3>1. FrameShape(h, st[i], i < Len(st) \/ Waits(p))
      BY <1>0, Zenon DEF Framed
    <3>. QED
      BY <2>2, <3>1, PieceGrows
  <2>4. PiecesTo(v, g, V, st, Len(st)) = PiecesTo(v, h, W, st, Len(st))
    BY <2>3, PiecesSame
  <2>5. p \in {"returned", "parsed"} => V[x] = W[x]
    BY <2>2 DEF Tells
  <2>6. Told(v, r, st, h, W, p, x) => Told(v, r, st, g, V, p, x)
    BY <2>4, <2>5, Zenon DEF Told
  <2>. QED
    BY <2>1, <2>2, <2>6
<1>2. ToldAll(r, st, g, p, x)
  BY <1>1, Zenon DEF ToldAll
<1>3. Framed(g, st, p)
  <2>1. ASSUME NEW i \in 1 .. Len(st) PROVE FrameShape(g, st[i], i < Len(st) \/ Waits(p))
    <3>1. FrameShape(h, st[i], i < Len(st) \/ Waits(p))
      BY <1>0, Zenon DEF Framed
    <3>. QED
      BY <3>1 DEF FrameShape, Grows
  <2>. QED
    BY <2>1, Zenon DEF Framed
<1>4. p \in {"returned", "parsed"} => x \in DOMAIN g /\ g[x].kind \in EntityKinds
  BY DEF Tells, Grows
<1>. QED
  BY <1>2, <1>3, <1>4 DEF Tells

LEMMA PiecesSeq ==
  ASSUME NEW v, NEW h, NEW W, NEW st, NEW n \in Nat, \A i \in 1 .. n : Piece(v, h, W, st[i]) \in Seq(Words)
  PROVE  PiecesTo(v, h, W, st, n) \in Seq(Words)
<1>. DEFINE q == [i \in 1 .. n |-> Piece(v, h, W, st[i])]
<1>1. (\A i \in 1 .. n : q[i] \in Seq(Words)) /\ n \in 0 .. n
  OBVIOUS
<1>2. PiecesTo(v, h, W, st, n) = FlatTo(q, n)
  BY Zenon DEF PiecesTo
<1>. HIDE DEF q
<1>. QED
  BY <1>1, <1>2, FlatToIs

\* What is told where nothing is pending.
LEMMA ToldIs ==
  ASSUME NEW v, NEW r \in Seq(Tokens), NEW st, Len(st) \in Nat, NEW h, Shaped(h), NEW W, Written(v, h, W), NEW p,
         Framed(h, st, p), NEW x
  PROVE  /\ Said(v, r) \in Seq(Words) /\ PiecesTo(v, h, W, st, Len(st)) \in Seq(Words)
         /\ \A i \in 1 .. Len(st) : Piece(v, h, W, st[i]) \in Seq(Words)
         /\ p = "colon" =>
              (Told(v, r, st, h, W, p, x) <=> Said(v, r) \o Mark(v, "colon") = PiecesTo(v, h, W, st, Len(st)))
         /\ p \in {"returned", "parsed"} =>
              (Told(v, r, st, h, W, p, x) <=> Said(v, r) = PiecesTo(v, h, W, st, Len(st)) \o W[x])
         /\ p \notin {"colon", "returned", "parsed"} =>
              (Told(v, r, st, h, W, p, x) <=> Said(v, r) = PiecesTo(v, h, W, st, Len(st)))
<1>. DEFINE S == Said(v, r)
            P == PiecesTo(v, h, W, st, Len(st))
<1>1. S \in Seq(Words)
  <2>1. "eof" \in Tokens
    BY DEF Tokens, Symbols
  <2>. QED
    BY <2>1, SaidAppend
<1>2. ASSUME NEW i \in 1 .. Len(st) PROVE Piece(v, h, W, st[i]) \in Seq(Words)
  <2>1. FrameShape(h, st[i], i < Len(st) \/ Waits(p))
    BY Zenon DEF Framed
  <2>. QED
    BY <2>1, PieceIs
<1>3. P \in Seq(Words)
  BY <1>2, PiecesSeq
<1>4. S \o <<>> = S /\ P \o <<>> = P
  BY <1>1, <1>3, ConcatEmpty
<1>. HIDE DEF S, P
<1>5. Told(v, r, st, h, W, p, x) <=>
        S \o (IF p = "colon" THEN Mark(v, "colon") ELSE <<>>) = P \o (IF p \in {"returned", "parsed"} THEN W[x] ELSE <<>>)
  BY DEF Told, S, P
<1>6. p = "colon" => (Told(v, r, st, h, W, p, x) <=> S \o Mark(v, "colon") = P)
  BY <1>4, <1>5
<1>7. p \in {"returned", "parsed"} => (Told(v, r, st, h, W, p, x) <=> S = P \o W[x])
  BY <1>4, <1>5
<1>8. p \notin {"colon", "returned", "parsed"} => (Told(v, r, st, h, W, p, x) <=> S = P)
  BY <1>4, <1>5
<1>. QED
  BY <1>1, <1>2, <1>3, <1>6, <1>7, <1>8 DEF S, P

\* A value is read: of a field, of an element, or the root.
Inner(st, p) ==
  /\ p \in {"root", "item", "value"}
  /\ \A i \in 1 .. Len(st) : i < Len(st) \/ p = "value" \/ st[i].kind = "array"

LEMMA InnerWaits ==
  ASSUME NEW h, NEW st, NEW p, Framed(h, st, p), Inner(st, p), NEW i \in 1 .. Len(st)
  PROVE  FrameShape(h, st[i], TRUE)
<1>1. FrameShape(h, st[i], i < Len(st) \/ Waits(p))
  BY Zenon DEF Framed
<1>2. (i < Len(st) \/ Waits(p)) \/ st[i].kind = "array"
  BY DEF Inner, Waits
<1>. QED
  BY <1>1, <1>2 DEF FrameShape

LEMMA CallTells ==
  ASSUME NEW r, NEW st \in Seq(Frames), NEW h, NEW p, NEW x, Tells(r, st, h, p, x), Inner(st, p),
         NEW F \in Frames, FrameShape(h, F, FALSE), h[F.ent].kids = <<>>, NEW y
  PROVE  Tells(Append(r, Opener(F.kind)), Append(st, F), h, "item", y)
<1>. DEFINE t == Opener(F.kind)
            w == Append(r, t)
            n == Len(st)
            st2 == Append(st, F)
<1>0. Shaped(h) /\ r \in Seq(Tokens) /\ Framed(h, st, p) /\ ToldAll(r, st, h, p, x)
  BY DEF Tells
<1>1. n \in Nat /\ Len(st2) = n + 1 /\ st2[n + 1] = F /\ \A i \in 1 .. n : st2[i] = st[i]
  OBVIOUS
<1>2. t \in Tokens /\ t \notin {"comma", "number"}
  BY DEF Opener, Tokens, Symbols
<1>3. w \in Seq(Tokens)
  BY <1>0, <1>2
<1>. HIDE DEF w, st2, n
<1>4. Framed(h, st2, "item")
  <2>1. ASSUME NEW i \in 1 .. Len(st2) PROVE FrameShape(h, st2[i], i < Len(st2) \/ Waits("item"))
    <3>1. CASE i = n + 1
      <4>1. (i < Len(st2) \/ Waits("item")) = FALSE
        BY <1>1, <3>1 DEF Waits
      <4>. QED
        BY <1>1, <3>1, <4>1
    <3>2. CASE i # n + 1
      <4>1. i \in 1 .. Len(st) /\ st2[i] = st[i] /\ (i < Len(st2) \/ Waits("item")) = TRUE
        BY <1>1, <3>2 DEF n
      <4>. QED
        BY <1>0, <4>1, InnerWaits
    <3>. QED
      BY <3>1, <3>2
  <2>. QED
    BY <2>1, Zenon DEF Framed
<1>5. ASSUME NEW v \in Views PROVE \E W : Written(v, h, W) /\ (v # "printed" => Told(v, w, st2, h, W, "item", y))
  <2>1. PICK W : Written(v, h, W) /\ (v # "printed" => Told(v, r, st, h, W, p, x))
    BY <1>0 DEF ToldAll
  <2>2. SUFFICES ASSUME v # "printed" PROVE Told(v, w, st2, h, W, "item", y)
    BY <2>1
  <2>3. v \in {"tokens", "numbers"}
    BY <2>2 DEF Views
  <2>4. Said(v, r) = PiecesTo(v, h, W, st, n)
    <3>1. p \notin {"colon", "returned", "parsed"}
      BY DEF Inner
    <3>. QED
      BY <1>0, <1>1, <2>1, <2>2, <3>1, ToldIs DEF n
  <2>5. Said(v, w) = Said(v, r) \o Mark(v, t)
    BY <1>0, <1>2, <2>3, TokenSays DEF w
  <2>6. Piece(v, h, W, F) = Mark(v, t)
    <3>1. F.name = Null /\ F.ent \in DOMAIN h
      BY DEF FrameShape
    <3>2. \A i \in 1 .. Len(h[F.ent].kids) : W[h[F.ent].kids[i]] \in Seq(Words)
      OBVIOUS
    <3>3. ItemsOf(v, h, W, F.ent) = <<>>
      BY <1>0, <3>1, <3>2, ItemsOfIs
    <3>4. Mark(v, t) \in Seq(Words)
      BY MarkIs, BracketsAreWords
    <3>5. Mark(v, t) \o <<>> = Mark(v, t)
      BY <3>4, ConcatEmpty
    <3>. QED
      BY <3>1, <3>3, <3>5 DEF Piece
  <2>7. PiecesTo(v, h, W, st2, n) = PiecesTo(v, h, W, st, n)
    <3>1. \A i \in 1 .. n : Piece(v, h, W, st2[i]) = Piece(v, h, W, st[i])
      BY <1>1
    <3>. QED
      BY <3>1, PiecesSame
  <2>8. \A i \in 1 .. Len(st2) : Piece(v, h, W, st2[i]) \in Seq(Words)
    <3>1. Len(st2) \in Nat
      BY <1>1
    <3>. QED
      BY <1>0, <1>3, <1>4, <2>1, <3>1, ToldIs
  <2>9. PiecesTo(v, h, W, st2, Len(st2)) = PiecesTo(v, h, W, st2, n) \o Piece(v, h, W, st2[Len(st2)])
    <3>1. n \in Nat /\ Len(st2) = n + 1
      BY <1>1
    <3>2. Ending(v, h, W, st2, n, Len(st2))
      BY <2>8, <3>1, PiecesNext
    <3>. QED
      BY <3>2, Zenon DEF Ending
  <2>10. Said(v, w) = PiecesTo(v, h, W, st2, Len(st2))
    BY <1>1, <2>4, <2>5, <2>6, <2>7, <2>9
  <2>. QED
    BY <1>0, <1>1, <1>3, <1>4, <2>1, <2>10, ToldIs
<1>6. ToldAll(w, st2, h, "item", y)
  BY <1>5, Zenon DEF ToldAll
<1>. QED
  BY <1>0, <1>3, <1>4, <1>6 DEF Tells, w, st2

\* An entity is read that is no list.
LEMMA LeafTells ==
  ASSUME NEW r, NEW st \in Seq(Frames), NEW h, NEW p, NEW x, Tells(r, st, h, p, x), Inner(st, p), p # "root",
         NEW e \in DOMAIN h, h[e].kind \in Literals \cup {"string"}, NEW t \in Tokens,
         \A v \in {"tokens", "numbers"} : Said(v, Append(r, t)) = Said(v, r) \o LeafOf(v, h, e)
  PROVE  Tells(Append(r, t), st, h, "returned", e)
<1>. DEFINE w == Append(r, t)
<1>0. Shaped(h) /\ r \in Seq(Tokens) /\ Framed(h, st, p) /\ ToldAll(r, st, h, p, x)
  BY DEF Tells
<1>1. w \in Seq(Tokens) /\ Len(st) \in Nat
  BY <1>0
<1>2. \A v \in {"tokens", "numbers"} : Said(v, w) = Said(v, r) \o LeafOf(v, h, e)
  OBVIOUS
<1>. HIDE DEF w
<1>3. Framed(h, st, "returned")
  <2>1. ASSUME NEW i \in 1 .. Len(st) PROVE FrameShape(h, st[i], i < Len(st) \/ Waits("returned"))
    <3>1. FrameShape(h, st[i], TRUE)
      BY <1>0, InnerWaits
    <3>2. (i < Len(st) \/ Waits("returned")) = TRUE
      BY DEF Waits
    <3>. QED
      BY <3>1, <3>2, Zenon
  <2>. QED
    BY <2>1, Zenon DEF Framed
<1>4. h[e].kind \notin Kinds /\ h[e].kind \in EntityKinds
  BY KindsApart DEF EntityKinds
<1>5. ASSUME NEW v \in Views PROVE \E W : Written(v, h, W) /\ (v # "printed" => Told(v, w, st, h, W, "returned", e))
  <2>1. PICK W : Written(v, h, W) /\ (v # "printed" => Told(v, r, st, h, W, p, x))
    BY <1>0 DEF ToldAll
  <2>2. SUFFICES ASSUME v # "printed" PROVE Told(v, w, st, h, W, "returned", e)
    BY <2>1
  <2>3. v \in {"tokens", "numbers"}
    BY <2>2 DEF Views
  <2>4. Said(v, r) = PiecesTo(v, h, W, st, Len(st))
    <3>1. p \notin {"colon", "returned", "parsed"}
      BY DEF Inner
    <3>. QED
      BY <1>0, <1>1, <2>1, <2>2, <3>1, ToldIs
  <2>5. W[e] = LeafOf(v, h, e)
    <3>1. W[e] = WordOf(v, h, W, e)
      BY <2>1 DEF Written
    <3>. QED
      BY <1>4, <3>1, Zenon DEF WordOf
  <2>6. Said(v, w) = PiecesTo(v, h, W, st, Len(st)) \o W[e]
    BY <1>2, <2>3, <2>4, <2>5, Zenon
  <2>. QED
    BY <1>0, <1>1, <1>3, <2>1, <2>6, ToldIs
<1>6. ToldAll(w, st, h, "returned", e)
  BY <1>5, Zenon DEF ToldAll
<1>. QED
  BY <1>0, <1>1, <1>3, <1>4, <1>6 DEF Tells, w

\* A colon or a comma is read.
LEMMA ColonTells ==
  ASSUME NEW r, NEW st \in Seq(Frames), NEW h, NEW x, Tells(r, st, h, "colon", x), NEW y
  PROVE  Tells(Append(r, "colon"), st, h, "value", y)
<1>. DEFINE w == Append(r, "colon")
<1>0. Shaped(h) /\ r \in Seq(Tokens) /\ Framed(h, st, "colon") /\ ToldAll(r, st, h, "colon", x)
  BY DEF Tells
<1>1. "colon" \in Tokens
  BY DEF Tokens, Symbols
<1>2. w \in Seq(Tokens) /\ Len(st) \in Nat
  BY <1>0, <1>1
<1>. HIDE DEF w
<1>3. Framed(h, st, "value")
  BY <1>0, Zenon DEF Framed, Waits
<1>4. ASSUME NEW v \in Views PROVE \E W : Written(v, h, W) /\ (v # "printed" => Told(v, w, st, h, W, "value", y))
  <2>1. PICK W : Written(v, h, W) /\ (v # "printed" => Told(v, r, st, h, W, "colon", x))
    BY <1>0 DEF ToldAll
  <2>2. SUFFICES ASSUME v # "printed" PROVE Told(v, w, st, h, W, "value", y)
    BY <2>1
  <2>3. v \in {"tokens", "numbers"}
    BY <2>2 DEF Views
  <2>4. Said(v, r) \o Mark(v, "colon") = PiecesTo(v, h, W, st, Len(st))
    BY <1>0, <1>2, <2>1, <2>2, ToldIs
  <2>5. Said(v, w) = Said(v, r) \o Mark(v, "colon")
    BY <1>0, <1>1, <2>3, TokenSays DEF w
  <2>6. Said(v, w) = PiecesTo(v, h, W, st, Len(st))
    BY <2>4, <2>5, Zenon
  <2>. QED
    BY <1>0, <1>2, <1>3, <2>1, <2>6, ToldIs
<1>5. ToldAll(w, st, h, "value", y)
  BY <1>4, Zenon DEF ToldAll
<1>. QED
  BY <1>0, <1>2, <1>3, <1>5 DEF Tells, w

LEMMA CommaTells ==
  ASSUME NEW r, NEW st \in Seq(Frames), NEW h, NEW x, Tells(r, st, h, "after", x), NEW y
  PROVE  Tells(Append(r, "comma"), st, h, "item", y)
<1>. DEFINE w == Append(r, "comma")
<1>0. Shaped(h) /\ r \in Seq(Tokens) /\ Framed(h, st, "after") /\ ToldAll(r, st, h, "after", x)
  BY DEF Tells
<1>1. "comma" \in Tokens
  BY DEF Tokens, Symbols
<1>2. w \in Seq(Tokens) /\ Len(st) \in Nat
  BY <1>0, <1>1
<1>. HIDE DEF w
<1>3. Framed(h, st, "item")
  <2>1. Waits("item") = Waits("after")
    BY DEF Waits
  <2>. QED
    BY <1>0, <2>1, Zenon DEF Framed
<1>4. ASSUME NEW v \in Views PROVE \E W : Written(v, h, W) /\ (v # "printed" => Told(v, w, st, h, W, "item", y))
  <2>1. PICK W : Written(v, h, W) /\ (v # "printed" => Told(v, r, st, h, W, "after", x))
    BY <1>0 DEF ToldAll
  <2>2. SUFFICES ASSUME v # "printed" PROVE Told(v, w, st, h, W, "item", y)
    BY <2>1
  <2>3. v \in {"tokens", "numbers"}
    BY <2>2 DEF Views
  <2>4. Said(v, r) = PiecesTo(v, h, W, st, Len(st))
    BY <1>0, <1>2, <2>1, <2>2, ToldIs
  <2>5. Said(v, w) = Said(v, r)
    BY <1>0, <1>1, <2>3, TokenSays DEF w
  <2>6. Said(v, w) = PiecesTo(v, h, W, st, Len(st))
    BY <2>4, <2>5, Zenon
  <2>. QED
    BY <1>0, <1>2, <1>3, <2>1, <2>6, ToldIs
<1>5. ToldAll(w, st, h, "item", y)
  BY <1>4, Zenon DEF ToldAll
<1>. QED
  BY <1>0, <1>2, <1>3, <1>5 DEF Tells, w

\* The pieces of all calls but the innermost, and its own.
LEMMA LastPiece ==
  ASSUME NEW v, NEW h, NEW W, NEW st, NEW n \in Nat, Len(st) = n + 1,
         \A i \in 1 .. Len(st) : Piece(v, h, W, st[i]) \in Seq(Words)
  PROVE  /\ Ending(v, h, W, st, n, Len(st))
         /\ PiecesTo(v, h, W, st, n) \in Seq(Words) /\ Piece(v, h, W, st[n + 1]) \in Seq(Words)
<1>1. Ending(v, h, W, st, n, Len(st))
  BY PiecesNext
<1>2. n + 1 \in 1 .. Len(st) /\ \A i \in 1 .. n : i \in 1 .. Len(st)
  OBVIOUS
<1>3. \A i \in 1 .. n : Piece(v, h, W, st[i]) \in Seq(Words)
  BY <1>2
<1>4. PiecesTo(v, h, W, st, n) \in Seq(Words)
  BY <1>3, PiecesSeq
<1>. QED
  BY <1>1, <1>2, <1>4

Assoc(a, b1, c) == (a \o b1) \o c = a \o (b1 \o c)

LEMMA ConcatAssoc ==
  ASSUME NEW X, NEW a \in Seq(X), NEW b1 \in Seq(X), NEW c \in Seq(X)
  PROVE  Assoc(a, b1, c)
BY ConcatThree DEF Assoc

AssocFour(a, b1, c, d) ==
  ((a \o b1) \o c) \o d = a \o (b1 \o (c \o d)) /\ (a \o (b1 \o c)) \o d = a \o (b1 \o (c \o d))

LEMMA ConcatFour ==
  ASSUME NEW X, NEW a \in Seq(X), NEW b1 \in Seq(X), NEW c \in Seq(X), NEW d \in Seq(X)
  PROVE  AssocFour(a, b1, c, d)
<1>1. a \o b1 \in Seq(X) /\ b1 \o c \in Seq(X) /\ c \o d \in Seq(X)
  BY ConcatIs
<1>. DEFINE ab == a \o b1
            bc == b1 \o c
            cd == c \o d
<1>2. Assoc(ab, c, d) /\ Assoc(a, b1, cd) /\ Assoc(a, bc, d) /\ Assoc(b1, c, d)
  <2>. HIDE DEF ab, bc, cd
  <2>1. ab \in Seq(X) /\ bc \in Seq(X) /\ cd \in Seq(X)
    BY <1>1 DEF ab, bc, cd
  <2>. QED
    BY <2>1, ConcatAssoc
<1>. QED
  BY <1>2, Zenon DEF Assoc, AssocFour

\* A list ends.
LEMMA CloseTells ==
  ASSUME NEW r, NEW st \in Seq(Frames), st # <<>>, NEW h, NEW p \in {"item", "after"}, NEW x, Tells(r, st, h, p, x),
         NEW t, t = Closer(Last(st).kind), NEW q, q = IF Len(st) = 1 THEN "parsed" ELSE "returned"
  PROVE  Tells(Append(r, t), Front(st), h, q, Last(st).ent)
<1>. DEFINE w == Append(r, t)
            n == Len(st) - 1
            f == Last(st)
            st2 == Front(st)
<1>0. Shaped(h) /\ r \in Seq(Tokens) /\ Framed(h, st, p) /\ ToldAll(r, st, h, p, x)
  BY DEF Tells
<1>1. /\ n \in Nat /\ Len(st) = n + 1 /\ f = st[n + 1] /\ st2 \in Seq(Frames) /\ Len(st2) = n /\ Len(st) \in Nat
      /\ \A i \in 1 .. n : st2[i] = st[i]
  BY FrontIs
<1>2. t \in Tokens /\ t \notin {"comma", "number"}
  BY DEF Closer, Tokens, Symbols
<1>3. w \in Seq(Tokens)
  BY <1>0, <1>2
<1>. HIDE DEF w, st2, n, f
<1>4. FrameShape(h, f, FALSE)
  <2>1. n + 1 \in 1 .. Len(st)
    BY <1>1
  <2>2. FrameShape(h, st[n + 1], n + 1 < Len(st) \/ Waits(p))
    BY <1>0, <2>1, Zenon DEF Framed
  <2>3. (n + 1 < Len(st) \/ Waits(p)) = FALSE
    BY <1>1 DEF Waits
  <2>. QED
    BY <1>1, <2>2, <2>3
<1>5. ASSUME NEW i \in 1 .. n PROVE FrameShape(h, st[i], TRUE)
  <2>1. i \in 1 .. Len(st) /\ (i < Len(st) \/ Waits(p)) = TRUE
    BY <1>1
  <2>. QED
    BY <1>0, <2>1 DEF Framed
<1>6. Framed(h, st2, q)
  <2>1. ASSUME NEW i \in 1 .. Len(st2) PROVE FrameShape(h, st2[i], i < Len(st2) \/ Waits(q))
    <3>1. i \in 1 .. n /\ st2[i] = st[i] /\ n # 0
      BY <1>1
    <3>2. (i < Len(st2) \/ Waits(q)) = TRUE
      BY <1>1, <3>1 DEF Waits
    <3>. QED
      BY <1>5, <3>1, <3>2
  <2>. QED
    BY <2>1, Zenon DEF Framed
<1>7. f.ent \in DOMAIN h /\ h[f.ent].kind \in EntityKinds /\ f.name = Null /\ t = Closer(f.kind)
  BY <1>4 DEF FrameShape, EntityKinds, f
<1>8. q \in {"returned", "parsed"}
  OBVIOUS
<1>9. ASSUME NEW v \in Views PROVE \E W : Written(v, h, W) /\ (v # "printed" => Told(v, w, st2, h, W, q, f.ent))
  <2>1. PICK W : Written(v, h, W) /\ (v # "printed" => Told(v, r, st, h, W, p, x))
    BY <1>0 DEF ToldAll
  <2>2. SUFFICES ASSUME v # "printed" PROVE Told(v, w, st2, h, W, q, f.ent)
    BY <2>1
  <2>3. v \in {"tokens", "numbers"}
    BY <2>2 DEF Views
  <2>. DEFINE PT == PiecesTo(v, h, W, st, n)
              A == Mark(v, Opener(f.kind)) \o ItemsOf(v, h, W, f.ent)
              T == Mark(v, t)
  <2>4. Said(v, r) = PiecesTo(v, h, W, st, Len(st)) /\ \A i \in 1 .. Len(st) : Piece(v, h, W, st[i]) \in Seq(Words)
    BY <1>0, <1>1, <2>1, <2>2, ToldIs
  <2>5. Ending(v, h, W, st, n, Len(st)) /\ PT \in Seq(Words)
    <3>1. n \in Nat /\ Len(st) = n + 1
      BY <1>1
    <3>. QED
      BY <2>4, <3>1, LastPiece
  <2>6. /\ Mark(v, Opener(f.kind)) \in Seq(Words) /\ ItemsOf(v, h, W, f.ent) \in Seq(Words) /\ T \in Seq(Words)
        /\ W[f.ent] = A \o T
    <3>1. /\ Mark(v, Opener(f.kind)) \in Seq(Words) /\ ItemsOf(v, h, W, f.ent) \in Seq(Words)
          /\ Mark(v, Closer(f.kind)) \in Seq(Words)
          /\ W[f.ent] = Mark(v, Opener(f.kind)) \o ItemsOf(v, h, W, f.ent) \o Mark(v, Closer(f.kind))
      BY <1>0, <1>4, <2>1, PieceIs
    <3>. QED
      BY <1>7, <3>1, Zenon
  <2>7. A \in Seq(Words)
    BY <2>6, ConcatIs
  <2>8. Piece(v, h, W, f) = A
    <3>1. A \o <<>> = A
      BY <2>7, ConcatEmpty
    <3>. QED
      BY <1>7, <3>1, Zenon DEF Piece
  <2>. HIDE DEF A, T, PT
  <2>9. Said(v, r) = PT \o A
    BY <1>1, <2>4, <2>5, <2>8, Zenon DEF Ending, PT
  <2>10. Said(v, w) = (PT \o A) \o T
    <3>1. Said(v, w) = Said(v, r) \o Mark(v, t)
      BY <1>0, <1>2, <2>3, TokenSays DEF w
    <3>. QED
      BY <2>9, <3>1, Zenon DEF T
  <2>11. Said(v, w) = PT \o W[f.ent]
    <3>1. (PT \o A) \o T = PT \o (A \o T)
      <4>1. Assoc(PT, A, T)
        BY <2>5, <2>6, <2>7, ConcatAssoc
      <4>. QED
        BY <4>1, Zenon DEF Assoc
    <3>. QED
      BY <2>6, <2>10, <3>1, Zenon
  <2>12. PiecesTo(v, h, W, st2, Len(st2)) = PT
    <3>1. \A i \in 1 .. n : Piece(v, h, W, st2[i]) = Piece(v, h, W, st[i])
      BY <1>1
    <3>2. PiecesTo(v, h, W, st2, n) = PiecesTo(v, h, W, st, n)
      BY <3>1, PiecesSame
    <3>. QED
      BY <1>1, <3>2 DEF PT
  <2>13. Said(v, w) = PiecesTo(v, h, W, st2, Len(st2)) \o W[f.ent]
    BY <2>11, <2>12
  <2>14. Len(st2) \in Nat
    BY <1>1
  <2>. QED
    BY <1>0, <1>3, <1>6, <1>8, <2>1, <2>13, <2>14, ToldIs
<1>10. ToldAll(w, st2, h, q, f.ent)
  BY <1>9, Zenon DEF ToldAll
<1>. QED
  BY <1>0, <1>3, <1>6, <1>7, <1>10 DEF Tells, w, st2, f

\* What the name of the innermost call becomes.
Renamed(st, nm) == [st EXCEPT ![Len(st)].name = nm]

LEMMA RenamedIs ==
  ASSUME NEW st \in Seq(Frames), st # <<>>, NEW nm \in Nat
  PROVE  LET n == Len(st) - 1
             f == Last(st)
             u == Renamed(st, nm)
         IN  /\ n \in Nat /\ Len(st) = n + 1 /\ f = st[n + 1] /\ u \in Seq(Frames) /\ Len(u) = n + 1
             /\ \A i \in 1 .. n : u[i] = st[i]
             /\ u[n + 1].kind = f.kind /\ u[n + 1].ent = f.ent /\ u[n + 1].name = nm
<1>. DEFINE u == [st EXCEPT ![Len(st)].name = nm]
            m == Len(st)
            f == Last(st)
<1>1. m \in Nat \ {0} /\ DOMAIN st = 1 .. m /\ f = st[m] /\ f \in Frames
  BY FrontIs
<1>2. /\ u \in Seq(Frames) /\ Len(u) = m
      /\ \A i \in 1 .. m : i # m => u[i] = st[i]
      /\ u[m] = [f EXCEPT !.name = nm]
  BY <1>1 DEF Frames
<1>. HIDE DEF u, m, f
<1>3. u[m].kind = f.kind /\ u[m].ent = f.ent /\ u[m].name = nm
  BY <1>1, <1>2 DEF Frames
<1>4. m - 1 \in Nat /\ m = (m - 1) + 1 /\ \A i \in 1 .. m - 1 : i \in 1 .. m /\ i # m
  BY <1>1
<1>5. \A i \in 1 .. m - 1 : u[i] = st[i]
  BY <1>2, <1>4
<1>6. /\ m - 1 \in Nat /\ m = (m - 1) + 1 /\ f = st[(m - 1) + 1] /\ u \in Seq(Frames) /\ Len(u) = (m - 1) + 1
      /\ u[(m - 1) + 1].kind = f.kind /\ u[(m - 1) + 1].ent = f.ent /\ u[(m - 1) + 1].name = nm
  <2>1. (m - 1) + 1 = m
    BY <1>4
  <2>. QED
    BY <1>1, <1>2, <1>3, <1>4, <2>1
<1>. QED
  BY <1>5, <1>6 DEF Renamed, u, m, f

\* A name is read.
LEMMA NameTells ==
  ASSUME NEW r, NEW st \in Seq(Frames), st # <<>>, Last(st).kind = "object", NEW h, NEW x, Tells(r, st, h, "item", x),
         NEW t \in Strings, NEW nm \in Nat \ {0}, nm \in DOMAIN h, h[nm].kind = "text", h[nm].val = t, NEW y
  PROVE  Tells(Append(r, t), Renamed(st, nm), h, "colon", y)
<1>. DEFINE w == Append(r, t)
            n == Len(st) - 1
            f == Last(st)
            st2 == Renamed(st, nm)
            f2 == st2[n + 1]
<1>0. Shaped(h) /\ r \in Seq(Tokens) /\ Framed(h, st, "item") /\ ToldAll(r, st, h, "item", x)
  BY DEF Tells
<1>1. /\ n \in Nat /\ Len(st) = n + 1 /\ f = st[n + 1] /\ st2 \in Seq(Frames) /\ Len(st2) = n + 1 /\ Len(st) \in Nat
      /\ f2.kind = f.kind /\ f2.ent = f.ent /\ f2.name = nm
      /\ \A i \in 1 .. n : st2[i] = st[i]
  BY RenamedIs
<1>2. t \in Tokens /\ t \notin {"comma", "number"}
  BY StringsAssumption DEF Tokens, Symbols, Literals
<1>3. w \in Seq(Tokens)
  BY <1>0, <1>2
<1>n. Len(st) \in Nat
  OBVIOUS
<1>k. f.kind = "object" /\ nm # Null
  BY DEF Null
<1>. HIDE DEF w, st2, n, f, f2
<1>4. FrameShape(h, f, FALSE)
  <2>1. n + 1 \in 1 .. Len(st)
    BY <1>1
  <2>2. FrameShape(h, st[n + 1], n + 1 < Len(st) \/ Waits("item"))
    BY <1>0, <2>1, Zenon DEF Framed
  <2>3. (n + 1 < Len(st) \/ Waits("item")) = FALSE
    BY <1>1 DEF Waits
  <2>. QED
    BY <1>1, <2>2, <2>3
<1>5. f.name = Null
  BY <1>4 DEF FrameShape
<1>6. FrameShape(h, f2, TRUE)
  BY <1>1, <1>4, <1>k DEF FrameShape
<1>7. Framed(h, st2, "colon")
  <2>1. ASSUME NEW i \in 1 .. Len(st2) PROVE FrameShape(h, st2[i], i < Len(st2) \/ Waits("colon"))
    <3>1. (i < Len(st2) \/ Waits("colon")) = TRUE
      BY DEF Waits
    <3>2. CASE i = n + 1
      BY <1>6, <3>1, <3>2 DEF f2
    <3>3. CASE i # n + 1
      <4>1. i \in 1 .. Len(st) /\ st2[i] = st[i] /\ (i < Len(st) \/ Waits("item")) = TRUE
        BY <1>1, <3>3
      <4>2. FrameShape(h, st[i], TRUE)
        BY <1>0, <4>1 DEF Framed
      <4>. QED
        BY <3>1, <4>1, <4>2
    <3>. QED
      BY <3>2, <3>3
  <2>. QED
    BY <2>1, Zenon DEF Framed
<1>8. ASSUME NEW v \in Views PROVE \E W : Written(v, h, W) /\ (v # "printed" => Told(v, w, st2, h, W, "colon", y))
  <2>1. PICK W : Written(v, h, W) /\ (v # "printed" => Told(v, r, st, h, W, "item", x))
    BY <1>0 DEF ToldAll
  <2>2. SUFFICES ASSUME v # "printed" PROVE Told(v, w, st2, h, W, "colon", y)
    BY <2>1
  <2>3. v \in {"tokens", "numbers"}
    BY <2>2 DEF Views
  <2>. DEFINE PT == PiecesTo(v, h, W, st, n)
              A == Mark(v, Opener(f.kind)) \o ItemsOf(v, h, W, f.ent)
              T == Mark(v, t)
              C == Mark(v, "colon")
  <2>4. Said(v, r) = PiecesTo(v, h, W, st, Len(st)) /\ \A i \in 1 .. Len(st) : Piece(v, h, W, st[i]) \in Seq(Words)
    <3>1. Told(v, r, st, h, W, "item", x)
      BY <2>1, <2>2
    <3>2. "item" \notin {"colon", "returned", "parsed"}
      OBVIOUS
    <3>3. Told(v, r, st, h, W, "item", x) <=> Said(v, r) = PiecesTo(v, h, W, st, Len(st))
      BY <1>0, <1>n, <2>1, <3>2, ToldIs
    <3>4. \A i \in 1 .. Len(st) : Piece(v, h, W, st[i]) \in Seq(Words)
      BY <1>0, <1>n, <2>1, ToldIs
    <3>. QED
      BY <3>1, <3>3, <3>4
  <2>5. Ending(v, h, W, st, n, Len(st)) /\ PT \in Seq(Words)
    <3>1. n \in Nat /\ Len(st) = n + 1
      BY <1>1
    <3>. QED
      BY <2>4, <3>1, LastPiece
  <2>6. Mark(v, Opener(f.kind)) \in Seq(Words) /\ ItemsOf(v, h, W, f.ent) \in Seq(Words)
    BY <1>0, <1>4, <2>1, PieceIs
  <2>7. A \in Seq(Words) /\ T \in Seq(Words) /\ C \in Seq(Words)
    <3>1. T \in Seq(Words) /\ C \in Seq(Words)
      BY <1>2, MarkIs, BracketsAreWords
    <3>. QED
      BY <2>6, <3>1, ConcatIs
  <2>8. Piece(v, h, W, f) = A
    <3>1. A \o <<>> = A
      BY <2>7, ConcatEmpty
    <3>. QED
      BY <1>5, <3>1, Zenon DEF Piece
  <2>9. Piece(v, h, W, f2) = A \o (T \o C)
    BY <1>1, <1>k, Zenon DEF Piece, NameOf
  <2>. HIDE DEF A, T, PT, C
  <2>10. Said(v, r) = PT \o A
    BY <1>1, <2>4, <2>5, <2>8, Zenon DEF Ending, PT
  <2>11. Said(v, w) = (PT \o A) \o T
    <3>1. Said(v, w) = Said(v, r) \o Mark(v, t)
      BY <1>0, <1>2, <2>3, TokenSays DEF w
    <3>. QED
      BY <2>10, <3>1, Zenon DEF T
  <2>12. Said(v, w) \o C = PT \o (A \o (T \o C))
    <3>1. AssocFour(PT, A, T, C)
      BY <2>5, <2>7, ConcatFour
    <3>. QED
      BY <2>11, <3>1, Zenon DEF AssocFour
  <2>13. PiecesTo(v, h, W, st2, n) = PT
    <3>1. \A i \in 1 .. n : Piece(v, h, W, st2[i]) = Piece(v, h, W, st[i])
      BY <1>1
    <3>2. PiecesTo(v, h, W, st2, n) = PiecesTo(v, h, W, st, n)
      BY <3>1, PiecesSame
    <3>. QED
      BY <3>2 DEF PT
  <2>14. Len(st2) \in Nat /\ Len(st2) = n + 1 /\ n \in Nat
    BY <1>1
  <2>15. Ending(v, h, W, st2, n, Len(st2))
    <3>1. \A i \in 1 .. Len(st2) : Piece(v, h, W, st2[i]) \in Seq(Words)
      BY <1>0, <1>3, <1>7, <2>1, <2>14, ToldIs
    <3>. QED
      BY <2>14, <3>1, LastPiece
  <2>16. PiecesTo(v, h, W, st2, Len(st2)) = PT \o (A \o (T \o C))
    <3>1. st2[Len(st2)] = f2
      BY <2>14 DEF f2
    <3>. QED
      BY <2>9, <2>13, <2>15, <3>1, Zenon DEF Ending
  <2>17. Said(v, w) \o Mark(v, "colon") = PiecesTo(v, h, W, st2, Len(st2))
    BY <2>12, <2>16, Zenon DEF C
  <2>. QED
    BY <1>0, <1>3, <1>7, <2>1, <2>14, <2>17, ToldIs
<1>9. ToldAll(w, st2, h, "colon", y)
  BY <1>8, Zenon DEF ToldAll
<1>. QED
  BY <1>0, <1>3, <1>7, <1>9 DEF Tells, w, st2

SamePiece(v, h, W, g, V, f) == Piece(v, g, V, f) = Piece(v, h, W, f)

LEMMA PiecePushed ==
  ASSUME NEW v, NEW h, NEW g, NEW e, NEW nm, NEW r, PushedOn(h, g, e, nm, r), NEW f, NEW w, FrameShape(h, f, w), f.ent # e,
         NEW W, NEW V, PushedSays(v, h, W, g, V, e, nm, r)
  PROVE  FrameShape(g, f, w) /\ SamePiece(v, h, W, g, V, f)
<1>1. f.ent \in DOMAIN h /\ (f.name # Null => f.name \in DOMAIN h /\ h[f.name].kind = "text")
  BY DEF FrameShape
<1>2. DOMAIN g = DOMAIN h /\ (\A c \in DOMAIN h : c # e => g[c] = h[c]) /\ h[e].kind \in Kinds
  BY DEF PushedOn
<1>3. f.name # Null => f.name # e
  BY <1>1, <1>2, KindsApart DEF EntityKinds
<1>4. FrameShape(g, f, w)
  BY <1>1, <1>2, <1>3 DEF FrameShape
<1>5. ItemsOf(v, g, V, f.ent) = ItemsOf(v, h, W, f.ent)
  BY <1>1 DEF PushedSays
<1>6. f.name # Null => NameOf(v, g, f.name) = NameOf(v, h, f.name)
  BY <1>1, <1>2, <1>3, Zenon DEF NameOf
<1>7. Piece(v, g, V, f) = Piece(v, h, W, f)
  BY <1>5, <1>6, Zenon DEF Piece
<1>. QED
  BY <1>4, <1>7 DEF SamePiece

\* The entity that was returned is pushed.
LEMMA TakeTells ==
  ASSUME NEW r, NEW st \in Seq(Frames), st # <<>>, NEW h, NEW x, Tells(r, st, h, "returned", x),
         \A i \in 1 .. Len(st) - 1 : st[i].ent # Last(st).ent, NEW g, PushedOn(h, g, Last(st).ent, Last(st).name, x), NEW y
  PROVE  Tells(r, Renamed(st, Null), g, "after", y)
<1>. DEFINE n == Len(st) - 1
            f == Last(st)
            e == f.ent
            st2 == Renamed(st, Null)
            f2 == st2[n + 1]
<1>0. Shaped(h) /\ r \in Seq(Tokens) /\ Framed(h, st, "returned") /\ ToldAll(r, st, h, "returned", x)
  BY DEF Tells
<1>1. /\ n \in Nat /\ Len(st) = n + 1 /\ f = st[n + 1] /\ st2 \in Seq(Frames) /\ Len(st2) = n + 1 /\ Len(st) \in Nat
      /\ f2.kind = f.kind /\ f2.ent = f.ent /\ f2.name = Null
      /\ \A i \in 1 .. n : st2[i] = st[i]
  <2>1. Null \in Nat
    BY DEF Null
  <2>. QED
    BY <2>1, RenamedIs
<1>n. Len(st) \in Nat
  OBVIOUS
<1>e. \A i \in 1 .. n : st[i].ent # e
  OBVIOUS
<1>p. PushedOn(h, g, e, f.name, x)
  OBVIOUS
<1>. HIDE DEF st2, n, f, f2
<1>2. DOMAIN g = DOMAIN h /\ g[e].kind = h[e].kind /\ h[e].kind \in Kinds
  BY <1>p DEF PushedOn
<1>3. Shaped(g)
  BY <1>0, <1>p, PushedShape
<1>4. FrameShape(h, f, TRUE)
  <2>1. n + 1 \in 1 .. Len(st)
    BY <1>1
  <2>2. FrameShape(h, st[n + 1], n + 1 < Len(st) \/ Waits("returned"))
    BY <1>0, <2>1, Zenon DEF Framed
  <2>3. (n + 1 < Len(st) \/ Waits("returned")) = TRUE
    BY <1>1 DEF Waits
  <2>. QED
    BY <1>1, <2>2, <2>3
<1>5. ASSUME NEW i \in 1 .. n PROVE FrameShape(h, st[i], TRUE)
  <2>1. i \in 1 .. Len(st) /\ (i < Len(st) \/ Waits("returned")) = TRUE
    BY <1>1
  <2>. QED
    BY <1>0, <2>1 DEF Framed
<1>6. FrameShape(g, f2, FALSE)
  BY <1>1, <1>2, <1>4 DEF FrameShape
<1>7. Framed(g, st2, "after")
  <2>1. ASSUME NEW i \in 1 .. Len(st2) PROVE FrameShape(g, st2[i], i < Len(st2) \/ Waits("after"))
    <3>1. CASE i = n + 1
      <4>1. (i < Len(st2) \/ Waits("after")) = FALSE
        BY <1>1, <3>1 DEF Waits
      <4>. QED
        BY <1>6, <3>1, <4>1 DEF f2
    <3>2. CASE i # n + 1
      <4>1. i \in 1 .. n /\ st2[i] = st[i] /\ (i < Len(st2) \/ Waits("after")) = TRUE
        BY <1>1, <3>2
      <4>2. f.name # Null => f.name # e
        BY <1>2, <1>4, KindsApart DEF FrameShape, EntityKinds
      <4>3. FrameShape(h, st[i], TRUE) /\ st[i].ent # e
        BY <1>5, <1>e, <4>1
      <4>4. FrameShape(g, st[i], TRUE)
        <5>1. st[i].name # Null => st[i].name # e
          BY <1>2, <4>3, KindsApart DEF FrameShape, EntityKinds
        <5>2. \A c \in DOMAIN h : c # e => g[c] = h[c]
          BY <1>p DEF PushedOn
        <5>. QED
          BY <1>2, <4>3, <5>1, <5>2 DEF FrameShape
      <4>. QED
        BY <4>1, <4>4
    <3>. QED
      BY <3>1, <3>2
  <2>. QED
    BY <2>1, Zenon DEF Framed
<1>8. ASSUME NEW v \in Views PROVE \E V : Written(v, g, V) /\ (v # "printed" => Told(v, r, st2, g, V, "after", y))
  <2>1. PICK W : Written(v, h, W) /\ (v # "printed" => Told(v, r, st, h, W, "returned", x))
    BY <1>0 DEF ToldAll
  <2>. DEFINE I == ItemsOf(v, h, W, e)
              N == IF f.name = Null THEN <<>> ELSE NameOf(v, h, f.name)
              A == Mark(v, Opener(f.kind)) \o I
              PT == PiecesTo(v, h, W, st, n)
              X == W[x]
  <2>w. PICK V : PushedSays(v, h, W, g, V, e, f.name, x)
    BY <1>0, <1>p, <2>1, WrittenPushed
  <2>2. Written(v, g, V) /\ ItemsOf(v, g, V, e) = I \o NewItem(v, h, W, e, f.name, x)
    BY <2>w DEF PushedSays
  <2>3. SUFFICES ASSUME v # "printed" PROVE Told(v, r, st2, g, V, "after", y)
    BY <2>2
  <2>4. /\ Said(v, r) = PiecesTo(v, h, W, st, Len(st)) \o X
        /\ \A i \in 1 .. Len(st) : Piece(v, h, W, st[i]) \in Seq(Words)
    BY <1>0, <1>n, <2>1, <2>3, ToldIs
  <2>5. Ending(v, h, W, st, n, Len(st)) /\ PT \in Seq(Words)
    <3>1. n \in Nat /\ Len(st) = n + 1
      BY <1>1
    <3>. QED
      BY <2>4, <3>1, LastPiece
  <2>6. /\ Mark(v, Opener(f.kind)) \in Seq(Words) /\ I \in Seq(Words)
        /\ f.name # Null => NameOf(v, h, f.name) \in Seq(Words)
    BY <1>0, <1>4, <2>1, PieceIs
  <2>7. A \in Seq(Words) /\ N \in Seq(Words) /\ X \in Seq(Words)
    <3>1. x \in DOMAIN h
      BY <1>p DEF PushedOn
    <3>2. X \in Seq(Words)
      BY <2>1, <3>1 DEF Written
    <3>3. N \in Seq(Words)
      BY <2>6
    <3>4. A \in Seq(Words)
      BY <2>6, ConcatIs
    <3>. QED
      BY <3>2, <3>3, <3>4
  <2>8. Piece(v, h, W, f) = A \o N
    BY Zenon DEF Piece
  <2>9. N \o X \in Seq(Words)
    BY <2>7, ConcatIs
  <2>10. NewItem(v, h, W, e, f.name, x) = N \o X
    <3>1. f.name # Null <=> h[e].kind = "object"
      BY <1>4 DEF FrameShape
    <3>2. N = IF h[e].kind = "object" THEN NameOf(v, h, f.name) ELSE <<>>
      BY <3>1, Zenon
    <3>3. Sep(v) = <<>>
      BY <2>3 DEF Sep
    <3>4. (N \o X) \o <<>> = N \o X
      BY <2>9, ConcatEmpty
    <3>. QED
      BY <3>2, <3>3, <3>4, Zenon DEF NewItem
  <2>11. Piece(v, g, V, f2) = A \o (N \o X)
    <3>. DEFINE O == Mark(v, Opener(f.kind))
                Y == N \o X
    <3>1. f2.ent = e /\ f2.kind = f.kind /\ f2.name = Null
      BY <1>1, Zenon
    <3>2. Piece(v, g, V, f2) = (O \o (I \o Y)) \o <<>>
      BY <2>2, <2>10, <3>1, Zenon DEF Piece
    <3>3. O \in Seq(Words) /\ I \in Seq(Words) /\ Y \in Seq(Words)
      BY <2>6, <2>9, Zenon
    <3>. HIDE DEF O, Y, I
    <3>4. Assoc(O, I, Y) /\ I \o Y \in Seq(Words)
      BY <3>3, ConcatAssoc, ConcatIs
    <3>5. O \o (I \o Y) \in Seq(Words)
      BY <3>3, <3>4, ConcatIs
    <3>6. (O \o (I \o Y)) \o <<>> = O \o (I \o Y)
      BY <3>5, ConcatEmpty
    <3>. QED
      BY <3>2, <3>4, <3>6, Zenon DEF Assoc, O, Y
  <2>. HIDE DEF A, N, X, PT, I
  <2>12. Said(v, r) = (PT \o (A \o N)) \o X
    BY <1>1, <2>4, <2>5, <2>8, Zenon DEF Ending, PT
  <2>13. Said(v, r) = PT \o (A \o (N \o X))
    <3>1. AssocFour(PT, A, N, X)
      BY <2>5, <2>7, ConcatFour
    <3>. QED
      BY <2>12, <3>1, Zenon DEF AssocFour
  <2>14. PiecesTo(v, g, V, st2, n) = PT
    <3>1. ASSUME NEW i \in 1 .. n PROVE Piece(v, g, V, st2[i]) = Piece(v, h, W, st[i])
      <4>1. FrameShape(h, st[i], TRUE) /\ st[i].ent # e /\ st2[i] = st[i]
        BY <1>1, <1>5, <1>e
      <4>2. Piece(v, g, V, st[i]) = Piece(v, h, W, st[i])
        <5>1. SamePiece(v, h, W, g, V, st[i])
          BY <1>p, <2>w, <4>1, PiecePushed
        <5>. QED
          BY <5>1, Zenon DEF SamePiece
      <4>. QED
        BY <4>1, <4>2
    <3>2. PiecesTo(v, g, V, st2, n) = PiecesTo(v, h, W, st, n)
      BY <3>1, PiecesSame
    <3>. QED
      BY <3>2 DEF PT
  <2>15. Len(st2) \in Nat /\ Len(st2) = n + 1 /\ n \in Nat
    BY <1>1
  <2>16. Ending(v, g, V, st2, n, Len(st2))
    <3>1. \A i \in 1 .. Len(st2) : Piece(v, g, V, st2[i]) \in Seq(Words)
      BY <1>0, <1>3, <1>7, <2>2, <2>15, ToldIs
    <3>. QED
      BY <2>15, <3>1, LastPiece
  <2>17. Said(v, r) = PiecesTo(v, g, V, st2, Len(st2))
    <3>1. st2[Len(st2)] = f2
      BY <2>15 DEF f2
    <3>. QED
      BY <2>11, <2>13, <2>14, <2>16, <3>1, Zenon DEF Ending
  <2>. QED
    <3>1. "after" \notin {"colon", "returned", "parsed"}
      OBVIOUS
    <3>2. Len(st2) \in Nat
      BY <2>15
    <3>. QED
      BY <1>0, <1>3, <1>7, <2>2, <2>17, <3>1, <3>2, ToldIs
<1>9. ToldAll(r, st2, g, "after", y)
  BY <1>8, Zenon DEF ToldAll
<1>. QED
  BY <1>0, <1>3, <1>7, <1>9 DEF Tells, st2

\* A block is added to which nothing points yet.
NewShape(h, c, blk) ==
  /\ c \notin DOMAIN h
  /\ blk.names \in Seq(Nat \ {0}) /\ blk.kids = <<>>
  /\ blk.kind \in EntityKinds \cup {"text", "items"}
  /\ blk.kind = "object" => blk.names = <<>>
  /\ blk.kind = "string" => Len(blk.names) = 1
  /\ blk.kind = "text" => blk.val \in Strings
  /\ blk.kind = "number" => blk.val \in Nat
  /\ \A i \in 1 .. Len(blk.names) : blk.names[i] \in DOMAIN h /\ h[blk.names[i]].kind = "text"

LEMMA ShapedWith ==
  ASSUME NEW h, Shaped(h), NEW c, NEW blk, NewShape(h, c, blk)
  PROVE  Shaped(With(h, c, blk)) /\ Grows(h, With(h, c, blk))
<1>. DEFINE g == With(h, c, blk)
<1>1. DOMAIN g = DOMAIN h \cup {c} /\ g[c] = blk /\ c \notin DOMAIN h /\ \A d \in DOMAIN h : g[d] = h[d]
  BY DEF NewShape, With
<1>. HIDE DEF g
<1>2. ASSUME NEW d \in DOMAIN h PROVE ShapeOf(g, d)
  <2>1. ShapeOf(h, d) /\ g[d] = h[d]
    BY <1>1 DEF Shaped
  <2>2. \A i \in 1 .. Len(h[d].names) : h[d].names[i] \in DOMAIN g /\ g[h[d].names[i]].kind = "text"
    BY <1>1, <2>1 DEF ShapeOf
  <2>3. \A i \in 1 .. Len(h[d].kids) : h[d].kids[i] \in DOMAIN g /\ g[h[d].kids[i]].kind \in EntityKinds
    BY <1>1, <2>1 DEF ShapeOf
  <2>. QED
    BY <2>1, <2>2, <2>3, Zenon DEF ShapeOf
<1>3. ShapeOf(g, c)
  <2>1. \A i \in 1 .. Len(blk.names) : blk.names[i] \in DOMAIN g /\ g[blk.names[i]].kind = "text"
    BY <1>1 DEF NewShape
  <2>2. /\ blk.kids \in Seq(Nat \ {0}) /\ Len(blk.kids) = 0
        /\ blk.kind = "object" => Len(blk.names) = Len(blk.kids)
        /\ blk.kind \notin Kinds => blk.kids = <<>>
        /\ \A i \in 1 .. Len(blk.kids) : FALSE
    BY DEF NewShape
  <2>. QED
    BY <1>1, <2>1, <2>2 DEF ShapeOf, NewShape
<1>4. Shaped(g)
  BY <1>1, <1>2, <1>3 DEF Shaped
<1>5. Grows(h, g)
  BY <1>1 DEF Grows, NewShape
<1>. QED
  BY <1>4, <1>5 DEF g

LEMMA TellsWith ==
  ASSUME NEW r, NEW st, NEW h, NEW p, NEW x, Tells(r, st, h, p, x), NEW c, NEW blk, NewShape(h, c, blk)
  PROVE  Tells(r, st, With(h, c, blk), p, x)
<1>1. Shaped(h)
  BY DEF Tells
<1>2. Shaped(With(h, c, blk)) /\ Grows(h, With(h, c, blk))
  BY <1>1, ShapedWith
<1>. QED
  BY <1>2, TellsGrows

\* Before and after each token: what was read is what the blocks say.
Telling ==
  /\ pc = "root" => DOMAIN heap = {}
  /\ pc \in Modes \/ (pc \in {"returned", "parsed"} /\ ret # Null) => Tells(read, stack, heap, pc, ret)

LEMMA NothingTells ==
  ASSUME ret' = Null, pc' \in {"returned", "parsed", "done"}
  PROVE  Telling'
BY DEF Telling, Modes

LEMMA FreshBlocks ==
  ASSUME Blocks
  PROVE  /\ allocs \in Nat /\ allocs + 1 \in Nat \ {0} /\ stack \in Seq(Frames)
         /\ \A k \in Nat \ {0} : allocs + k \notin DOMAIN heap
<1>1. allocs \in Nat /\ DOMAIN heap \subseteq 1 .. allocs /\ stack \in Seq(Frames)
  BY DEF Blocks, ParserInv, HeapOk, StackInv
<1>. QED
  BY <1>1

LEMMA CallIsTold ==
  ASSUME Blocks, Tells(read, stack, heap, pc, ret), Inner(stack, pc), NEW kind \in Kinds, Call(kind),
         read' = Append(read, Opener(kind))
  PROVE  Telling'
<1>. DEFINE e == allocs + 1
            blk == Block(kind, <<>>, Null)
            F == Frame(kind, e)
            g == With(heap, e, blk)
<1>1. heap' = g /\ stack' = Append(stack, F) /\ pc' = "item"
  BY DEF Call
<1>2. e \in Nat \ {0} /\ e \notin DOMAIN heap /\ stack \in Seq(Frames)
  BY FreshBlocks
<1>3. blk.kind = kind /\ blk.names = <<>> /\ blk.kids = <<>>
  BY DEF Block
<1>4. F.kind = kind /\ F.ent = e /\ F.name = Null /\ F \in Frames
  BY <1>2 DEF Frame, Frames, Kinds, Null
<1>5. kind \in EntityKinds /\ kind # "string" /\ kind # "text" /\ kind # "number"
  BY DEF EntityKinds, Kinds
<1>. HIDE DEF blk, F, e
<1>6. NewShape(heap, e, blk)
  BY <1>2, <1>3, <1>5 DEF NewShape
<1>7. Tells(read, stack, g, pc, ret)
  BY <1>6, TellsWith
<1>8. e \in DOMAIN g /\ g[e] = blk
  BY DEF With
<1>. HIDE DEF g
<1>9. FrameShape(g, F, FALSE)
  BY <1>3, <1>4, <1>8 DEF FrameShape
<1>10. g[F.ent].kids = <<>>
  BY <1>3, <1>4, <1>8
<1>11. Tells(Append(read, Opener(F.kind)), Append(stack, F), g, "item", ret')
  BY <1>2, <1>4, <1>7, <1>9, <1>10, CallTells
<1>12. Tells(read', stack', heap', pc', ret') /\ pc' \in Modes /\ pc' # "root"
  BY <1>1, <1>4, <1>11 DEF Modes
<1>. QED
  BY <1>12 DEF Telling

LEMMA LiteralIsTold ==
  ASSUME Blocks, Tells(read, stack, heap, pc, ret), Inner(stack, pc), pc # "root", NEW t \in Literals,
         heap' = With(heap, allocs + 1, Block(t, <<>>, ValueOf(t))), ret' = allocs + 1, pc' = "returned",
         UNCHANGED stack, read' = Append(read, t)
  PROVE  Telling'
<1>. DEFINE e == allocs + 1
            val == ValueOf(t)
            blk == Block(t, <<>>, val)
            g == With(heap, e, blk)
            m == Len(read) + 1
<1>1. e \in Nat \ {0} /\ e \notin DOMAIN heap /\ stack \in Seq(Frames)
  BY FreshBlocks
<1>2. blk.kind = t /\ blk.names = <<>> /\ blk.kids = <<>> /\ blk.val = val
  BY DEF Block
<1>3. t \in EntityKinds /\ t # "object" /\ t # "string" /\ t # "text" /\ t \in Tokens /\ t # "comma" /\ t \notin Kinds
  BY DEF EntityKinds, Literals, Tokens, Kinds
<1>4. read \in Seq(Tokens)
  BY DEF Tells
<1>5. t = "number" => val = CountTo(Append(read, t), m) /\ val \in Nat
  <2>1. Len(read') = m /\ DOMAIN read' = 1 .. m /\ m \in Nat
    BY <1>3, <1>4
  <2>2. IsFiniteSet(1 .. m)
    BY <2>1, FS_Interval
  <2>3. IsFiniteSet({i \in 1 .. m : read'[i] = "number"})
    BY <2>2, FS_Subset
  <2>4. CountTo(read', m) \in Nat
    BY <2>3, FS_CardinalityType DEF CountTo
  <2>5. t = "number" => val = CountTo(read', m)
    BY <2>1 DEF ValueOf, CountTo
  <2>. QED
    BY <2>4, <2>5
<1>. HIDE DEF blk, e, val, m
<1>6. NewShape(heap, e, blk)
  BY <1>1, <1>2, <1>3, <1>5 DEF NewShape
<1>7. Tells(read, stack, g, pc, ret)
  BY <1>6, TellsWith
<1>8. e \in DOMAIN g /\ g[e] = blk
  BY DEF With
<1>9. heap' = g
  BY DEF blk, e, val
<1>. HIDE DEF g
<1>10. g[e].kind \in Literals \cup {"string"}
  BY <1>2, <1>8
<1>11. ASSUME NEW v \in {"tokens", "numbers"} PROVE Said(v, Append(read, t)) = Said(v, read) \o LeafOf(v, g, e)
  <2>1. LeafOf(v, g, e) = IF v = "numbers" THEN (IF t = "number" THEN <<val>> ELSE <<>>) ELSE <<t>>
    BY <1>2, <1>3, <1>8, Zenon DEF LeafOf
  <2>2. CASE t = "number"
    <3>1. Said(v, Append(read, t)) = Said(v, read) \o
              (IF v = "tokens" THEN <<t>> ELSE <<CountTo(Append(read, t), Len(read) + 1)>>)
      BY <1>3, <1>4, <2>2, TokenSays
    <3>2. LeafOf(v, g, e) = IF v = "tokens" THEN <<t>> ELSE <<val>>
      BY <2>1, <2>2
    <3>. QED
      BY <1>5, <2>2, <3>1, <3>2, Zenon DEF m
  <2>3. CASE t # "number"
    <3>1. Said(v, Append(read, t)) = Said(v, read) \o Mark(v, t)
      BY <1>3, <1>4, <2>3, TokenSays
    <3>2. LeafOf(v, g, e) = Mark(v, t)
      BY <2>1, <2>3 DEF Mark
    <3>. QED
      BY <3>1, <3>2
  <2>. QED
    BY <2>2, <2>3
<1>12. Tells(Append(read, t), stack, g, "returned", e)
  BY <1>1, <1>3, <1>7, <1>8, <1>10, <1>11, LeafTells
<1>13. Tells(read', stack', heap', pc', ret') /\ pc' = "returned"
  BY <1>9, <1>12 DEF e
<1>. QED
  BY <1>13 DEF Telling

LEMMA StringIsTold ==
  ASSUME Blocks, Tells(read, stack, heap, pc, ret), Inner(stack, pc), pc # "root", NEW t \in Strings,
         heap' = With(With(heap, allocs + 1, Text(t)), allocs + 2, Block("string", <<allocs + 1>>, Null)),
         ret' = allocs + 2, pc' = "returned", UNCHANGED stack, read' = Append(read, t)
  PROVE  Telling'
<1>. DEFINE c == allocs + 1
            e == allocs + 2
            txt == Text(t)
            blk == Block("string", <<c>>, Null)
            h == With(heap, c, txt)
            g == With(h, e, blk)
<1>1. /\ c \in Nat \ {0} /\ c \notin DOMAIN heap /\ stack \in Seq(Frames)
      /\ e \notin DOMAIN heap /\ e # c
  <2>1. allocs \in Nat /\ allocs + 1 \notin DOMAIN heap /\ allocs + 2 \notin DOMAIN heap /\ stack \in Seq(Frames)
    BY FreshBlocks
  <2>. QED
    BY <2>1
<1>2. /\ blk.kind = "string" /\ blk.names = <<c>> /\ blk.kids = <<>>
      /\ txt.kind = "text" /\ txt.names = <<>> /\ txt.kids = <<>> /\ txt.val = t
  BY DEF Block, Text
<1>3. t \in Tokens /\ t \notin {"comma", "number"} /\ "string" \in EntityKinds /\ "string" \notin Kinds
  BY StringsAssumption DEF EntityKinds, Literals, Symbols, Tokens, Kinds
<1>4. read \in Seq(Tokens)
  BY DEF Tells
<1>5. heap' = g /\ ret' = e
  OBVIOUS
<1>. HIDE DEF blk, txt, c, e
<1>6. NewShape(heap, c, txt)
  BY <1>1, <1>2 DEF NewShape
<1>7. Tells(read, stack, h, pc, ret)
  BY <1>6, TellsWith
<1>8. DOMAIN h = DOMAIN heap \cup {c} /\ h[c] = txt
  BY DEF With
<1>. HIDE DEF h
<1>9. NewShape(h, e, blk)
  <2>1. /\ blk.names \in Seq(Nat \ {0}) /\ Len(blk.names) = 1
        /\ \A i \in 1 .. Len(blk.names) : blk.names[i] = c
    BY <1>1, <1>2
  <2>2. e \notin DOMAIN h
    BY <1>1, <1>8
  <2>. QED
    BY <1>2, <1>3, <1>8, <2>1, <2>2 DEF NewShape
<1>10. Tells(read, stack, g, pc, ret)
  BY <1>7, <1>9, TellsWith
<1>11. e \in DOMAIN g /\ g[e] = blk /\ g[c] = txt
  BY <1>1, <1>8 DEF With
<1>. HIDE DEF g
<1>12. g[e].kind \in Literals \cup {"string"}
  BY <1>2, <1>11
<1>13. ASSUME NEW v \in {"tokens", "numbers"} PROVE Said(v, Append(read, t)) = Said(v, read) \o LeafOf(v, g, e)
  <2>1. g[g[e].names[1]].val = t
    BY <1>2, <1>11
  <2>2. LeafOf(v, g, e) = Mark(v, t)
    BY <1>2, <1>11, <2>1 DEF LeafOf, StringOf, TextIn, Mark
  <2>3. Said(v, Append(read, t)) = Said(v, read) \o Mark(v, t)
    BY <1>3, <1>4, TokenSays
  <2>. QED
    BY <2>2, <2>3
<1>14. Tells(Append(read, t), stack, g, "returned", e)
  BY <1>1, <1>3, <1>10, <1>11, <1>12, <1>13, LeafTells
<1>15. Tells(read', stack', heap', pc', ret') /\ pc' = "returned"
  BY <1>5, <1>14
<1>. QED
  BY <1>15 DEF Telling

\* What holds where a call reads a token.
LEMMA CallReads ==
  ASSUME Blocks, Reading, Telling, pc \in Modes, NEW t \in NextTokens, Read(t)
  PROVE  /\ stack # <<>> /\ stack \in Seq(Frames) /\ top = Last(stack) /\ top.kind \in Kinds
         /\ t \in Tokens /\ read' = Append(read, t) /\ Tells(read, stack, heap, pc, ret)
<1>1. stack # <<>> /\ Len(read) <= Room(source)
  BY ActiveCall
<1>2. t \in Tokens /\ read' = Append(read, t)
  BY <1>1, TokenRead
<1>3. top.kind \in Kinds
  BY <1>1, StackKinds
<1>4. stack \in Seq(Frames) /\ top = Last(stack)
  BY FreshBlocks DEF top
<1>. QED
  BY <1>1, <1>2, <1>3, <1>4 DEF Telling

LEMMA EntityIsTold ==
  ASSUME Blocks, Tells(read, stack, heap, pc, ret), Inner(stack, pc), pc # "root", NEW t, read' = Append(read, t), ParseEntity(t)
  PROVE  Telling'
<1>1. CASE t = "lbrace" /\ Call("object")
  <2>1. "object" \in Kinds /\ t = Opener("object")
    BY <1>1 DEF Kinds, Opener
  <2>. QED
    BY <1>1, <2>1, CallIsTold
<1>2. CASE t = "lsqbracket" /\ Call("array")
  <2>1. "array" \in Kinds /\ t = Opener("array")
    BY <1>2 DEF Kinds, Opener
  <2>. QED
    BY <1>2, <2>1, CallIsTold
<1>3. CASE /\ t \in Literals \cup Strings
           /\ allocs' = AfterRead(t) + 1
           /\ heap' = IF t \in Strings THEN StringEntity(t, allocs')
                      ELSE With(heap, allocs', Block(t, <<>>, ValueOf(t)))
           /\ ret' = allocs' /\ pc' = "returned"
           /\ UNCHANGED <<stack, superseded>>
  <2>1. CASE t \in Strings
    <3>1. allocs \in Nat
      BY FreshBlocks
    <3>2. TextOf(t) = allocs + 1 /\ allocs' = allocs + 2
      BY <1>3, <2>1, <3>1 DEF TextOf, AfterRead
    <3>3. heap' = With(With(heap, allocs + 1, Text(t)), allocs + 2, Block("string", <<allocs + 1>>, Null))
      BY <1>3, <2>1, <3>2 DEF StringEntity
    <3>. QED
      BY <1>3, <2>1, <3>2, <3>3, StringIsTold
  <2>2. CASE t \notin Strings
    <3>1. allocs' = allocs + 1 /\ t \in Literals
      BY <1>3, <2>2 DEF AfterRead
    <3>2. heap' = With(heap, allocs + 1, Block(t, <<>>, ValueOf(t)))
      BY <1>3, <2>2, <3>1
    <3>. QED
      BY <1>3, <3>1, <3>2, LiteralIsTold
  <2>. QED
    BY <2>1, <2>2
<1>4. CASE ret' = Null /\ pc' = "returned"
  BY <1>4, NothingTells
<1>. QED
  BY <1>1, <1>2, <1>3, <1>4 DEF ParseEntity

LEMMA CloseIsTold ==
  ASSUME Blocks, Tells(read, stack, heap, pc, ret), pc \in {"item", "after"}, stack # <<>>, NEW t, t \in CloserOf(top.kind),
         read' = Append(read, t), Close
  PROVE  Telling'
<1>1. stack' = Front(stack) /\ ret' = Last(stack).ent /\ heap' = heap
      /\ pc' = IF Len(stack) = 1 THEN "parsed" ELSE "returned"
  BY DEF Close, Return, top
<1>2. t = Closer(Last(stack).kind)
  BY DEF CloserOf, Closer, top
<1>3. stack \in Seq(Frames)
  BY FreshBlocks
<1>4. Tells(Append(read, t), Front(stack), heap, pc', Last(stack).ent)
  BY <1>1, <1>2, <1>3, CloseTells
<1>5. Tells(read', stack', heap', pc', ret') /\ pc' # "root"
  BY <1>1, <1>4
<1>. QED
  BY <1>5 DEF Telling

LEMMA InputIsTold ==
  ASSUME Blocks, Reading, Telling, NEW t \in NextTokens, ParseInput(t)
  PROVE  Telling'
<1>1. pc = "root" /\ read = <<>> /\ stack = <<>> /\ source \in Seq(Tokens) /\ Read(t)
  BY ParsedStack DEF ParseInput, Reading, Reads
<1>2. Len(read) <= Room(source)
  <2>1. Len(read) = 0 /\ Len(source) \in Nat /\ MaxTokens \in Nat
    BY <1>1, TokensAssumption
  <2>. QED
    BY <2>1 DEF Room
<1>3. read' = Append(read, t)
  BY <1>1, <1>2, TokenRead
<1>4. CASE t = "lbrace"
  <2>1. Call("object")
    BY <1>4 DEF ParseInput
  <2>2. Tells(read, stack, heap, pc, ret)
    BY <1>1, RootTells DEF Telling
  <2>3. Inner(stack, pc)
    <3>1. \A i \in 1 .. Len(<<>>) : FALSE
      OBVIOUS
    <3>. QED
      BY <1>1, <3>1 DEF Inner
  <2>4. "object" \in Kinds /\ t = Opener("object")
    BY <1>4 DEF Kinds, Opener
  <2>. QED
    BY <1>3, <2>1, <2>2, <2>3, <2>4, CallIsTold
<1>5. CASE t # "lbrace"
  <2>1. ret' = Null /\ pc' = "parsed"
    BY <1>5 DEF ParseInput
  <2>. QED
    BY <2>1, NothingTells
<1>. QED
  BY <1>4, <1>5

LEMMA ErrorIsTold ==
  ASSUME NEW t, ParseError(t)
  PROVE  Telling'
BY ErrorReturns, NothingTells

LEMMA FieldIsTold ==
  ASSUME Blocks, Reading, Telling, NEW t \in NextTokens, ReadField(t)
  PROVE  Telling'
<1>1. pc = "item" /\ top.kind = "object" /\ Read(t)
  BY DEF ReadField
<1>2. /\ stack # <<>> /\ stack \in Seq(Frames) /\ top = Last(stack)
      /\ t \in Tokens /\ read' = Append(read, t) /\ Tells(read, stack, heap, "item", ret)
  BY <1>1, CallReads DEF Modes
<1>3. CASE t \in CloserOf("object") /\ Close
  BY <1>1, <1>2, <1>3, CloseIsTold
<1>4. CASE /\ t \in Strings
           /\ heap' = With(heap, TextOf(t), Text(t))
           /\ stack' = [stack EXCEPT ![Len(stack)].name = TextOf(t)]
           /\ pc' = "colon"
  <2>. DEFINE c == allocs + 1
              txt == Text(t)
              g == With(heap, c, txt)
  <2>1. c \in Nat \ {0} /\ c \notin DOMAIN heap
    BY FreshBlocks
  <2>2. txt.kind = "text" /\ txt.names = <<>> /\ txt.kids = <<>> /\ txt.val = t
    BY DEF Block, Text
  <2>3. heap' = g /\ stack' = Renamed(stack, c)
    BY <1>4 DEF TextOf, Renamed
  <2>. HIDE DEF c, txt
  <2>4. NewShape(heap, c, txt)
    BY <1>4, <2>1, <2>2 DEF NewShape
  <2>5. Tells(read, stack, g, "item", ret)
    BY <1>2, <2>4, TellsWith
  <2>6. c \in DOMAIN g /\ g[c] = txt
    BY DEF With
  <2>. HIDE DEF g
  <2>7. Tells(Append(read, t), Renamed(stack, c), g, "colon", ret')
    BY <1>1, <1>2, <1>4, <2>1, <2>2, <2>5, <2>6, NameTells
  <2>8. Tells(read', stack', heap', pc', ret') /\ pc' # "root"
    BY <1>2, <1>4, <2>3, <2>7
  <2>. QED
    BY <2>8 DEF Telling
<1>5. CASE ParseError(t)
  BY <1>5, ErrorIsTold
<1>. QED
  BY <1>3, <1>4, <1>5 DEF ReadField

LEMMA ColonIsTold ==
  ASSUME Blocks, Reading, Telling, NEW t \in NextTokens, ReadColon(t)
  PROVE  Telling'
<1>1. pc = "colon" /\ Read(t)
  BY DEF ReadColon
<1>2. stack \in Seq(Frames) /\ read' = Append(read, t) /\ Tells(read, stack, heap, "colon", ret)
  BY <1>1, CallReads DEF Modes
<1>3. CASE t = "colon"
  <2>1. pc' = "value" /\ UNCHANGED <<stack, heap>>
    BY <1>3 DEF ReadColon
  <2>2. Tells(Append(read, "colon"), stack, heap, "value", ret')
    BY <1>2, ColonTells
  <2>3. Tells(read', stack', heap', pc', ret') /\ pc' # "root"
    BY <1>2, <1>3, <2>1, <2>2
  <2>. QED
    BY <2>3 DEF Telling
<1>4. CASE t # "colon"
  BY <1>4, ErrorIsTold DEF ReadColon
<1>. QED
  BY <1>3, <1>4

LEMMA ValueIsTold ==
  ASSUME Blocks, Reading, Telling, NEW t \in NextTokens, ReadValue(t)
  PROVE  Telling'
<1>1. pc = "value" /\ Read(t) /\ ParseEntity(t)
  BY DEF ReadValue
<1>2. read' = Append(read, t) /\ Tells(read, stack, heap, pc, ret)
  BY <1>1, CallReads DEF Modes
<1>3. Inner(stack, pc) /\ pc # "root"
  BY <1>1 DEF Inner
<1>. QED
  BY <1>1, <1>2, <1>3, EntityIsTold

LEMMA ElementIsTold ==
  ASSUME Blocks, Reading, Telling, NEW t \in NextTokens, ReadElement(t)
  PROVE  Telling'
<1>1. pc = "item" /\ top.kind = "array" /\ Read(t)
  BY DEF ReadElement
<1>2. /\ stack # <<>> /\ stack \in Seq(Frames) /\ top = Last(stack)
      /\ read' = Append(read, t) /\ Tells(read, stack, heap, pc, ret)
  BY <1>1, CallReads DEF Modes
<1>3. CASE ParseError(t)
  BY <1>3, ErrorIsTold
<1>4. CASE t \in CloserOf("array") /\ Close
  BY <1>1, <1>2, <1>4, CloseIsTold
<1>5. CASE ParseEntity(t)
  <2>1. Len(stack) \in Nat /\ Last(stack) = stack[Len(stack)]
    BY <1>2, FrontIs
  <2>2. Inner(stack, pc) /\ pc # "root"
    BY <1>1, <1>2, <2>1 DEF Inner
  <2>. QED
    BY <1>2, <1>5, <2>2, EntityIsTold
<1>. QED
  BY <1>3, <1>4, <1>5 DEF ReadElement

LEMMA AfterIsTold ==
  ASSUME Blocks, Reading, Telling, NEW t \in NextTokens, ReadAfter(t)
  PROVE  Telling'
<1>1. pc = "after" /\ Read(t)
  BY DEF ReadAfter
<1>2. /\ stack # <<>> /\ stack \in Seq(Frames)
      /\ read' = Append(read, t) /\ Tells(read, stack, heap, "after", ret)
  BY <1>1, CallReads DEF Modes
<1>3. CASE t = "comma" /\ pc' = "item" /\ UNCHANGED <<stack, heap>>
  <2>1. Tells(Append(read, "comma"), stack, heap, "item", ret')
    BY <1>2, CommaTells
  <2>2. Tells(read', stack', heap', pc', ret') /\ pc' # "root"
    BY <1>2, <1>3, <2>1
  <2>. QED
    BY <2>2 DEF Telling
<1>4. CASE t \in CloserOf(top.kind) /\ Close
  BY <1>1, <1>2, <1>4, CloseIsTold
<1>5. CASE ParseError(t)
  BY <1>5, ErrorIsTold
<1>. QED
  BY <1>3, <1>4, <1>5 DEF ReadAfter, NextItem

LEMMA PushedKind ==
  ASSUME NEW ent, BlockOk(ent), NEW nm \in Nat, NEW r \in Nat \ {0}, NEW array \in Nat
  PROVE  Pushed(ent, nm, r, array).kind = ent.kind
<1>. DEFINE names == IF nm = Null THEN ent.names ELSE Append(ent.names, nm)
            kids == Append(ent.kids, r)
            items == IF NeedsArray(ent) THEN array ELSE ent.items
            cap == IF ent.items = Null THEN 2
                   ELSE IF NeedsArray(ent) THEN GrownCap(Len(ent.kids)) ELSE ent.cap
<1>1. ent = [kind |-> ent.kind, names |-> ent.names, val |-> ent.val, kids |-> ent.kids,
             items |-> ent.items, cap |-> ent.cap]
  BY DEF BlockOk
<1>. HIDE DEF names, kids, items, cap
<1>2. Pushed(ent, nm, r, array) = [ent EXCEPT !.names = names, !.kids = kids, !.items = items, !.cap = cap]
  BY Zenon DEF Pushed, names, kids, items, cap
<1>. QED
  BY <1>1, <1>2

\* The entity of the innermost call is in no list yet.
LEMMA EntityIsApart ==
  ASSUME Blocks, pc = "returned", ret # Null
  PROVE  LET e == Last(stack).ent
         IN  /\ e \in DOMAIN heap /\ BlockOk(heap[e]) /\ Last(stack) = stack[Len(stack)]
             /\ Last(stack).name \in Nat
             /\ ret \in Nat \ {0} /\ ret # e
             /\ \A i \in 1 .. Len(stack) - 1 : stack[i].ent # e
             /\ \A c \in DOMAIN heap : \A i \in 1 .. Len(heap[c].kids) : heap[c].kids[i] # e
<1>. DEFINE e == Last(stack).ent
            n == Len(stack)
            L == Live(stack, heap, pc, ret)
<1>0. /\ ParserInv(stack, heap, allocs, ret, superseded, pc)
      /\ HeapOk(heap, allocs) /\ StackInv(stack, pc, ret) /\ Ownership(L, heap, superseded)
  BY DEF Blocks, ParserInv
<1>1. /\ stack \in Seq(Frames) /\ stack # <<>> /\ ret \in Nat \ {0} /\ e < ret
      /\ \A i, j \in 1 .. n : i < j => stack[i].ent < stack[j].ent
  BY <1>0 DEF StackInv, Null
<1>2. n \in Nat \ {0} /\ Last(stack) = stack[n] /\ Last(stack) \in Frames /\ n \in 1 .. n
  BY <1>1, FrontIs
<1>3. <<"frame", n, stack[n].ent>> \in L /\ stack[n].ent \in DOMAIN heap
  BY <1>0, <1>2, FrameOwned
<1>4. e \in Nat \ {0} /\ Last(stack).name \in Nat /\ e = stack[n].ent
  BY <1>2 DEF Frames
<1>5. ASSUME NEW i \in 1 .. n - 1 PROVE stack[i].ent # e
  <2>1. i \in 1 .. n /\ i < n
    BY <1>2
  <2>2. stack[i].ent < e
    BY <1>1, <1>2, <2>1
  <2>. QED
    BY <1>4, <2>2
<1>6. ASSUME NEW c \in DOMAIN heap, NEW i \in 1 .. Len(heap[c].kids), heap[c].kids[i] = e PROVE FALSE
  <2>. DEFINE x == <<"kids", <<c, i>>, heap[c].kids[i]>>
              y == <<"frame", n, stack[n].ent>>
  <2>1. heap[c].kids \in Seq(Nat \ {0})
    BY <1>0 DEF HeapOk, BlockOk
  <2>2. i \in DOMAIN heap[c].kids
    BY <2>1
  <2>3. x \in BlockOut(c, heap[c]) /\ x[3] # Null
    BY <1>4, <1>6, <2>2 DEF BlockOut, KidsOut, Null
  <2>4. x \in L
    BY <2>3, HeapLiveIs DEF Live
  <2>5. x[3] = y[3] /\ x[1] # y[1]
    BY <1>4, <1>6
  <2>6. Owned(L, DOMAIN heap \ superseded)
    BY <1>0 DEF Ownership
  <2>. HIDE DEF x, y, L
  <2>7. y \in L
    BY <1>3 DEF y
  <2>. QED
    BY <2>4, <2>5, <2>6, <2>7 DEF Owned
<1>7. BlockOk(heap[e])
  BY <1>0, <1>3, <1>4 DEF HeapOk
<1>. QED
  BY <1>1, <1>2, <1>3, <1>4, <1>5, <1>6, <1>7

\* A new array of items is a block to which nothing is pushed.
ArrayAdded(h, c) == With(h, c, Block("items", <<>>, Null))

\* The two changes of the heap commute.
LEMMA TwoWiths ==
  ASSUME NEW h, NEW e \in DOMAIN h, NEW P, NEW c, c \notin DOMAIN h
  PROVE  ArrayAdded(With(h, e, P), c) = With(ArrayAdded(h, c), e, P)
<1>1. c # e
  OBVIOUS
<1>. QED
  BY <1>1 DEF With, ArrayAdded

LEMMA PushedOnIs ==
  ASSUME NEW h, NEW e, e \in DOMAIN h, BlockOk(h[e]), h[e].kind \in Kinds, NEW nm \in Nat, NEW r \in Nat \ {0}, NEW a \in Nat,
         r \in DOMAIN h, r # e, h[r].kind \in EntityKinds,
         h[e].kind = "object" <=> nm # Null, nm # Null => nm \in DOMAIN h /\ h[nm].kind = "text",
         \A c \in DOMAIN h : \A i \in 1 .. Len(h[c].kids) : h[c].kids[i] # e
  PROVE  PushedOn(h, With(h, e, Pushed(h[e], nm, r, a)), e, nm, r)
<1>. DEFINE P == Pushed(h[e], nm, r, a)
            g == With(h, e, P)
<1>1. PushedFacts(h[e], nm, r, a, P) /\ P.kind = h[e].kind
  <2>1. PushedFacts(h[e], nm, r, a, P)
    BY PushedIs
  <2>2. P.kind = h[e].kind
    BY PushedKind
  <2>. QED
    BY <2>1, <2>2
<1>2. DOMAIN g = DOMAIN h /\ g[e] = P /\ \A c \in DOMAIN h : c # e => g[c] = h[c]
  BY DEF With
<1>. HIDE DEF g, P
<1>3. P.kids = Append(h[e].kids, r) /\ P.names = IF h[e].kind = "object" THEN Append(h[e].names, nm) ELSE h[e].names
  BY <1>1 DEF PushedFacts
<1>4. h[e].kind = "object" => nm \in Nat \ {0} /\ nm \in DOMAIN h /\ h[nm].kind = "text"
  BY DEF Null
<1>5. PushedOn(h, g, e, nm, r)
  BY <1>1, <1>2, <1>3, <1>4 DEF PushedOn
<1>. QED
  BY <1>5 DEF g, P

LEMMA TakeIsTold ==
  ASSUME Blocks, Reading, Telling, TakeEntity
  PROVE  Telling'
<1>1. pc = "returned" /\ read' = read
  BY DEF TakeEntity
<1>2. CASE ret = Null
  <2>1. ret' = Null /\ pc' \in {"returned", "parsed"}
    BY <1>2 DEF TakeEntity, Abandon, Return
  <2>. QED
    BY <2>1, NothingTells
<1>3. CASE ret # Null
  <2>. DEFINE e == Last(stack).ent
              nm == Last(stack).name
              ent == heap[e]
              c == allocs + 1
              P == Pushed(ent, nm, ret, c)
              h == IF NeedsArray(ent) THEN ArrayAdded(heap, c) ELSE heap
              n == Len(stack)
  <2>1. /\ heap' = IF NeedsArray(ent) THEN With(With(heap, e, P), c, Block("items", <<>>, Null)) ELSE With(heap, e, P)
        /\ stack' = [stack EXCEPT ![Len(stack)].name = Null]
        /\ pc' = "after" /\ ret' = ret
    BY <1>3, Zenon DEF TakeEntity, top
  <2>2. /\ allocs \in Nat /\ c \in Nat \ {0} /\ c \notin DOMAIN heap /\ stack \in Seq(Frames)
    BY FreshBlocks
  <2>3. stack # <<>>
    BY <1>1, ParsedStack
  <2>4. Tells(read, stack, heap, "returned", ret)
    BY <1>1, <1>3 DEF Telling
  <2>5. /\ e \in DOMAIN heap /\ BlockOk(ent) /\ Last(stack) = stack[n] /\ nm \in Nat
        /\ ret \in Nat \ {0} /\ ret # e
        /\ \A i \in 1 .. n - 1 : stack[i].ent # e
        /\ \A d \in DOMAIN heap : \A i \in 1 .. Len(heap[d].kids) : heap[d].kids[i] # e
    BY <1>1, <1>3, EntityIsApart
  <2>6. NewShape(heap, c, Block("items", <<>>, Null))
    <3>. DEFINE blk == Block("items", <<>>, Null)
    <3>1. blk.kind = "items" /\ blk.names = <<>> /\ blk.kids = <<>>
      BY DEF Block
    <3>. HIDE DEF c, blk
    <3>2. NewShape(heap, c, blk)
      BY <2>2, <3>1 DEF NewShape
    <3>. QED
      BY <3>2 DEF blk
  <2>7. Tells(read, stack, h, "returned", ret) /\ Shaped(h)
    <3>1. Tells(read, stack, ArrayAdded(heap, c), "returned", ret)
      BY <2>4, <2>6, TellsWith DEF ArrayAdded
    <3>2. Tells(read, stack, h, "returned", ret)
      BY <2>4, <3>1
    <3>. QED
      BY <3>2 DEF Tells
  <2>8. heap' = With(h, e, P)
    BY <2>1, <2>2, <2>5, TwoWiths DEF ArrayAdded
  <2>9. /\ DOMAIN heap \subseteq DOMAIN h /\ (\A d \in DOMAIN heap : h[d] = heap[d])
        /\ \A d \in DOMAIN h \ DOMAIN heap : h[d].kids = <<>>
    <3>1. /\ DOMAIN heap \subseteq DOMAIN ArrayAdded(heap, c) /\ (\A d \in DOMAIN heap : ArrayAdded(heap, c)[d] = heap[d])
          /\ \A d \in DOMAIN ArrayAdded(heap, c) \ DOMAIN heap : ArrayAdded(heap, c)[d].kids = <<>>
      BY <2>2 DEF ArrayAdded, With, Block
    <3>. QED
      BY <3>1
  <2>. HIDE DEF h, c
  <2>10. FrameShape(h, Last(stack), TRUE) /\ ret \in DOMAIN h /\ h[ret].kind \in EntityKinds
    <3>1. n \in 1 .. n
      BY <2>2, <2>3, FrontIs
    <3>2. FrameShape(h, stack[n], n < n \/ Waits("returned"))
      BY <2>7, <3>1, Zenon DEF Tells, Framed
    <3>3. (n < n \/ Waits("returned")) = TRUE
      BY DEF Waits
    <3>4. FrameShape(h, stack[n], TRUE)
      BY <3>2, <3>3
    <3>. QED
      BY <2>5, <2>7, <3>4 DEF Tells
  <2>11. /\ h[e] = ent /\ h[e].kind \in Kinds /\ e \in DOMAIN h
         /\ h[e].kind = "object" <=> nm # Null
         /\ nm # Null => nm \in DOMAIN h /\ h[nm].kind = "text"
    BY <2>5, <2>9, <2>10 DEF FrameShape
  <2>12. \A d \in DOMAIN h : \A i \in 1 .. Len(h[d].kids) : h[d].kids[i] # e
    BY <2>5, <2>9
  <2>. HIDE DEF e, nm, P, n, ent
  <2>13. PushedOn(h, With(h, e, Pushed(h[e], nm, ret, c)), e, nm, ret)
    <3>1. c \in Nat
      BY <2>2
    <3>2. BlockOk(h[e])
      BY <2>5, <2>11
    <3>. QED
      BY <2>5, <2>10, <2>11, <2>12, <3>1, <3>2, PushedOnIs
  <2>14. PushedOn(h, heap', Last(stack).ent, Last(stack).name, ret)
    BY <2>8, <2>11, <2>13 DEF P, e, nm
  <2>15. \A i \in 1 .. Len(stack) - 1 : stack[i].ent # Last(stack).ent
    BY <2>5 DEF n, e
  <2>16. Tells(read, Renamed(stack, Null), heap', "after", ret)
    BY <2>2, <2>3, <2>7, <2>14, <2>15, TakeTells
  <2>17. Tells(read', stack', heap', pc', ret') /\ pc' # "root"
    BY <1>1, <2>1, <2>16 DEF Renamed
  <2>. QED
    BY <2>17 DEF Telling
<1>. QED
  BY <1>2, <1>3

LEMMA ParseIsTold ==
  ASSUME Blocks, Reading, Telling, Parse
  PROVE  Telling'
BY InputIsTold, FieldIsTold, ColonIsTold, ValueIsTold, ElementIsTold, AfterIsTold, TakeIsTold, Zenon DEF Parse

LEMMA CleanupIsTold ==
  ASSUME Blocks, Telling, stack = <<>>, cleanup_haversine_state
  PROVE  Telling'
<1>1. /\ heap' = Without(heap, Tree(heap, ret)) /\ ret' = Null
      /\ pc' = IF pc = "parsed" THEN "done" ELSE pc
  BY DEF cleanup_haversine_state
<1>2. pc \in {"root", "parsed", "done"}
  BY ParsedStack
<1>3. CASE pc = "root"
  <2>1. DOMAIN heap = {}
    BY <1>3 DEF Telling
  <2>2. DOMAIN heap' = {} /\ pc' = "root"
    <3>1. DOMAIN heap' = DOMAIN heap \ Tree(heap, ret)
      BY <1>1 DEF Without, Restrict
    <3>2. pc' = "root"
      BY <1>1, <1>3
    <3>. QED
      BY <2>1, <3>1, <3>2
  <2>. QED
    BY <2>2 DEF Telling, Modes
<1>4. CASE pc # "root"
  <2>1. pc' = "done"
    BY <1>1, <1>2, <1>4
  <2>. QED
    BY <1>1, <2>1, NothingTells
<1>. QED
  BY <1>3, <1>4

LEMMA TellingSame ==
  ASSUME Telling, UNCHANGED vars
  PROVE  Telling'
BY Zenon DEF Telling, vars


\* A cleanup finds no call active.
LEMMA CleanedIsTold ==
  ASSUME BlocksInv, Telling, step # "parse" \/ pc = "parsed", cleanup_haversine_state
  PROVE  Telling'
<1>1. stack = <<>> /\ Blocks
  BY ParsedStack DEF BlocksInv, Outside
<1>. QED
  BY <1>1, CleanupIsTold

LEMMA TellingStep ==
  ASSUME BlocksInv, Reading, Telling, [Next]_allvars
  PROVE  Telling'
<1>1. CASE Start
  BY <1>1, CleanedIsTold DEF Start
<1>2. CASE OpenFile
  BY <1>2, TellingSame DEF OpenFile
<1>3. CASE AllocateForFile
  BY <1>3, TellingSame DEF AllocateForFile
<1>4. CASE ReadFile
  BY <1>4, TellingSame DEF ReadFile
<1>5. CASE ParseFile
  BY <1>5, ParseIsTold DEF ParseFile, BlocksInv
<1>6. CASE CheckRoot
  BY <1>6, CleanedIsTold, TellingSame DEF CheckRoot, Reject
<1>7. CASE AllocatePairs \/ AllocateAnswers
  BY <1>7, TellingSame DEF AllocatePairs, AllocateAnswers, AllocateField
<1>8. CASE CheckChecksum
  BY <1>8, CleanedIsTold, TellingSame DEF CheckChecksum, Reject
<1>9. CASE ReadPoint
  BY <1>9, CleanedIsTold, TellingSame DEF ReadPoint, Reject, Die
<1>10. CASE SetupReturns
  BY <1>10, TellingSame DEF SetupReturns
<1>11. CASE Calculate
  BY <1>11, TellingSame DEF Calculate, Die
<1>12. CASE Validate
  BY <1>12, TellingSame DEF Validate, Die
<1>13. CASE Finish
  BY <1>13, CleanedIsTold DEF Finish
<1>14. CASE UNCHANGED allvars
  BY <1>14, TellingSame DEF allvars
<1>. QED
  BY <1>1, <1>2, <1>3, <1>4, <1>5, <1>6, <1>7, <1>8, <1>9, <1>10, <1>11, <1>12, <1>13, <1>14
  DEF Next, Run, Terminating

LEMMA TellingStart == StateInit => Telling
<1>. SUFFICES ASSUME StateInit PROVE Telling
  OBVIOUS
<1>1. heap = [b1 \in {} |-> Null] /\ pc = "root"
  BY DEF StateInit, Init
<1>. QED
  BY <1>1 DEF Telling, Modes

\* The blocks the parser has taken say at any time what it has read: the calls
\* that are active have put together, one after the other, all of it, with each
\* name and each item in its place (parse_json_object, parse_json_array and
\* parse_json_entity, push_json_field and push_json_element).
THEOREM TreeSaysWhatWasRead == Spec => []Telling
<1>1. BlocksInv /\ Reading /\ Telling /\ [Next]_allvars => Telling'
  BY TellingStep
<1>2. StateInit => Telling
  BY TellingStart
<1>. QED
  BY <1>1, <1>2, BlocksAreOwned, ReadingIsRight, PTL DEF Spec

(***************************************************************************)
(* The words of the tree are what the recursive functions of the module    *)
(* give.                                                                   *)
(***************************************************************************)
\* What is put together from what the items say is what the blocks say, for
\* the items are younger than their lists.
LEMMA WordsAgree ==
  ASSUME NEW v, NEW h, NEW n, Shaped(h), HeapSound(h, n), NEW W, Written(v, h, W), NEW U,
         \A c \in DOMAIN h : (\A i \in 1 .. Len(h[c].kids) : U[h[c].kids[i]] \in Seq(Words)) => U[c] = WordOf(v, h, U, c)
  PROVE  \A c \in DOMAIN h : U[c] = W[c]
<1>. DEFINE T == {k \in Nat : \E c \in DOMAIN h : k = n - c /\ U[c] # W[c]}
<1>1. n \in Nat /\ DOMAIN h \in SUBSET (1 .. n)
  BY DEF HeapSound, HeapOk
<1>2. SUFFICES ASSUME T # {} PROVE FALSE
  <2>1. ASSUME NEW c \in DOMAIN h, U[c] # W[c] PROVE n - c \in T
    <3>1. n - c \in Nat
      BY <1>1
    <3>. QED
      BY <2>1, <3>1
  <2>. QED
    BY <2>1
<1>3. PICK k \in T : \A j \in T : k <= j
  <2>1. T \in SUBSET Nat
    OBVIOUS
  <2>. QED
    BY <1>2, <2>1, LeastNatural
<1>4. PICK c \in DOMAIN h : k = n - c /\ U[c] # W[c]
  BY <1>3
<1>5. ASSUME NEW i \in 1 .. Len(h[c].kids) PROVE U[h[c].kids[i]] = W[h[c].kids[i]] /\ W[h[c].kids[i]] \in Seq(Words)
  <2>. DEFINE d == h[c].kids[i]
  <2>1. h[c].kids \in Seq(Nat \ {0}) /\ d \in DOMAIN h
    BY DEF Shaped, ShapeOf
  <2>2. d \in KidsOf(h)[c]
    BY <2>1 DEF KidsOf, Range
  <2>3. c < d
    BY <2>2, HeapLeafy
  <2>a. n \in Nat /\ c \in Nat /\ d \in Nat /\ d <= n
    BY <1>1, <2>1
  <2>. HIDE DEF d
  <2>4. n - d \in Nat /\ ~ (k <= n - d)
    BY ONLY <1>4, <2>a, <2>3
  <2>5. n - d \notin T
    BY <1>3, <2>4
  <2>6. U[d] = W[d]
    BY <2>1, <2>4, <2>5
  <2>. QED
    BY <2>1, <2>6 DEF Written, d
<1>. HIDE DEF T
<1>6. U[c] = WordOf(v, h, U, c)
  BY <1>5
<1>7. WordOf(v, h, U, c) = WordOf(v, h, W, c)
  <2>1. ASSUME NEW g, g = h
        PROVE  ItemsOf(v, g, U, c) = ItemsOf(v, h, W, c) /\ WordOf(v, g, U, c) = WordOf(v, h, W, c)
    <3>1. \A i \in 1 .. Len(h[c].names) : g[h[c].names[i]] = h[h[c].names[i]]
      BY <2>1
    <3>2. \A i \in 1 .. Len(h[c].kids) : U[h[c].kids[i]] = W[h[c].kids[i]]
      BY <1>5
    <3>3. g[c] = h[c]
      BY <2>1
    <3>. QED
      BY <3>1, <3>2, <3>3, WordDepends
  <2>. QED
    BY <2>1
<1>8. W[c] = WordOf(v, h, W, c)
  BY DEF Written
<1>. QED
  BY <1>4, <1>6, <1>7, <1>8

\* What Unparsed says of a block.
Unparse(h, U, c) ==
  LET ent == h[c]
      item(i) == IF ent.kind = "object" THEN <<h[ent.names[i]].val, "colon">> \o U[ent.kids[i]]
                 ELSE U[ent.kids[i]]
      list == FlattenSeq([i \in DOMAIN ent.kids |-> item(i)])
  IN  CASE ent.kind = "object" -> <<"lbrace">> \o list \o <<"rbrace">>
        [] ent.kind = "array" -> <<"lsqbracket">> \o list \o <<"rsqbracket">>
        [] ent.kind = "string" -> <<h[ent.names[1]].val>>
        [] OTHER -> <<ent.kind>>

LEMMA UnparsedBy ==
  ASSUME NEW e
  PROVE  Unparsed(e) = (CHOOSE U : U = [c \in DOMAIN heap |-> Unparse(heap, U, c)])[e]
BY Zenon DEF Unparsed, Unparse

\* The items of a list, as the functions put them together.
ListedAs(v, h, U, c, L) == L = [i \in DOMAIN h[c].kids |-> ItemOf(v, h, U, c, i)]

LEMMA ListIs ==
  ASSUME NEW v, NEW h, Shaped(h), NEW U, NEW c \in DOMAIN h, NEW L, ListedAs(v, h, U, c, L)
  PROVE  FlattenSeq(L) = ItemsOf(v, h, U, c)
<1>. DEFINE n == Len(h[c].kids)
            q == [i \in 1 .. n |-> ItemOf(v, h, U, c, i)]
<1>1. DOMAIN h[c].kids = 1 .. n
  BY DEF Shaped, ShapeOf
<1>2. L = q
  BY <1>1 DEF ListedAs
<1>3. q = [i \in 1 .. n |-> q[i]]
  OBVIOUS
<1>4. ItemsOf(v, h, U, c) = FlatTo(q, n)
  BY Zenon DEF ItemsOf
<1>. HIDE DEF q
<1>5. FlattenSeq(q) = FlatTo(q, n)
  BY <1>3, FlatToAll
<1>. QED
  BY <1>2, <1>4, <1>5

LEMMA TwoMarks ==
  ASSUME NEW x \in Words, NEW y \in Words, NEW w \in Seq(Words)
  PROVE  <<x, y>> \o w = (<<x>> \o <<y>>) \o w \o <<>>
<1>1. <<x>> \o <<y>> = <<x, y>> /\ <<x, y>> \in Seq(Words)
  <2>1. /\ <<x, y>> \in Seq(Words) /\ Len(<<x, y>>) = 2 /\ <<x, y>>[1] = x /\ <<x, y>>[2] = y
        /\ <<x>> \in Seq(Words) /\ <<y>> \in Seq(Words) /\ Len(<<x>>) = 1 /\ Len(<<y>>) = 1 /\ <<x>>[1] = x /\ <<y>>[1] = y
    OBVIOUS
  <2>. DEFINE u == <<x>> \o <<y>>
              t == <<x, y>>
  <2>2. u \in Seq(Words) /\ Len(u) = 2 /\ u[1] = x /\ u[2] = y
    BY <2>1, ConcatIs
  <2>3. t \in Seq(Words) /\ Len(t) = 2 /\ t[1] = x /\ t[2] = y
    BY <2>1
  <2>. HIDE DEF u, t
  <2>4. u = t
    BY ONLY <2>2, <2>3, SeqSame
  <2>. QED
    BY <2>3, <2>4 DEF u, t
<1>2. <<x, y>> \o w \in Seq(Words)
  BY <1>1, ConcatIs
<1>3. (<<x, y>> \o w) \o <<>> = <<x, y>> \o w
  BY <1>2, ConcatEmpty
<1>. QED
  BY <1>1, <1>3

LEMMA UnparseIs ==
  ASSUME NEW h, Shaped(h), NEW U, NEW c \in DOMAIN h, \A i \in 1 .. Len(h[c].kids) : U[h[c].kids[i]] \in Seq(Words)
  PROVE  Unparse(h, U, c) = WordOf("tokens", h, U, c)
<1>. DEFINE item(i) == IF h[c].kind = "object" THEN <<h[h[c].names[i]].val, "colon">> \o U[h[c].kids[i]]
                       ELSE U[h[c].kids[i]]
            L == [i \in DOMAIN h[c].kids |-> item(i)]
<1>1. ShapeOf(h, c)
  BY DEF Shaped
<1>2. DOMAIN h[c].kids = 1 .. Len(h[c].kids)
  BY <1>1 DEF ShapeOf
<1>3. ASSUME NEW i \in 1 .. Len(h[c].kids) PROVE item(i) = ItemOf("tokens", h, U, c, i)
  <2>1. CASE h[c].kind = "object"
    <3>. DEFINE x == h[h[c].names[i]].val
    <3>1. h[c].names[i] \in DOMAIN h /\ h[h[c].names[i]].kind = "text"
      BY <1>1, <2>1 DEF ShapeOf
    <3>2. x \in Words /\ "colon" \in Words
      BY <3>1, BracketsAreWords DEF Shaped, ShapeOf
    <3>3. <<x, "colon">> \o U[h[c].kids[i]] = (<<x>> \o <<"colon">>) \o U[h[c].kids[i]] \o <<>>
      BY <3>2, TwoMarks
    <3>4. ItemOf("tokens", h, U, c, i) = (<<x>> \o <<"colon">>) \o U[h[c].kids[i]] \o <<>>
      BY <2>1 DEF ItemOf, FieldOf, NameOf, Mark, Sep
    <3>. QED
      BY <2>1, <3>3, <3>4
  <2>2. CASE h[c].kind # "object"
    <3>1. ItemOf("tokens", h, U, c, i) = <<>> \o U[h[c].kids[i]] \o <<>>
      BY <2>2 DEF ItemOf, FieldOf, Sep
    <3>2. <<>> \o U[h[c].kids[i]] = U[h[c].kids[i]] /\ U[h[c].kids[i]] \o <<>> = U[h[c].kids[i]]
      BY ConcatEmpty
    <3>. QED
      BY <2>2, <3>1, <3>2
  <2>. QED
    BY <2>1, <2>2
<1>4. ListedAs("tokens", h, U, c, L)
  BY <1>2, <1>3 DEF ListedAs
<1>5. FlattenSeq(L) = ItemsOf("tokens", h, U, c)
  BY <1>4, ListIs, Zenon
<1>6. Unparse(h, U, c) = CASE h[c].kind = "object" -> <<"lbrace">> \o FlattenSeq(L) \o <<"rbrace">>
                           [] h[c].kind = "array" -> <<"lsqbracket">> \o FlattenSeq(L) \o <<"rsqbracket">>
                           [] h[c].kind = "string" -> <<h[h[c].names[1]].val>>
                           [] OTHER -> <<h[c].kind>>
  BY Zenon DEF Unparse
<1>. HIDE DEF L
<1>7. CASE h[c].kind \in Kinds
  <2>1. WordOf("tokens", h, U, c) = <<Opener(h[c].kind)>> \o FlattenSeq(L) \o <<Closer(h[c].kind)>>
    BY <1>5, <1>7 DEF WordOf, ListWord, Mark
  <2>. QED
    BY <1>6, <1>7, <2>1 DEF Kinds, Opener, Closer
<1>8. CASE h[c].kind \notin Kinds
  <2>1. WordOf("tokens", h, U, c) = IF h[c].kind = "string" THEN <<h[h[c].names[1]].val>> ELSE <<h[c].kind>>
    BY <1>8 DEF WordOf, LeafOf, StringOf, TextIn
  <2>. QED
    BY <1>6, <1>8, <2>1 DEF Kinds
<1>. QED
  BY <1>7, <1>8

LEMMA BlocksSound ==
  ASSUME Blocks
  PROVE  HeapSound(heap, allocs)
<1>1. HeapOk(heap, allocs) /\ Ownership(Live(stack, heap, pc, ret), heap, superseded)
  BY DEF Blocks, ParserInv
<1>2. ASSUME NEW x \in HeapLive(heap) PROVE x[3] \in DOMAIN heap /\ Sound(x, heap)
  <2>1. x \in Live(stack, heap, pc, ret)
    BY DEF Live
  <2>. QED
    BY <1>1, <2>1 DEF Ownership, Owned
<1>. QED
  BY <1>1, <1>2 DEF HeapSound

\* What the tree of a parse says is what the words of its blocks are.
LEMMA UnparsedIs ==
  ASSUME Blocks, Shaped(heap), NEW W, Written("tokens", heap, W), NEW e \in DOMAIN heap
  PROVE  Unparsed(e) = W[e]
<1>. DEFINE Is(U) == U = [c \in DOMAIN heap |-> Unparse(heap, U, c)]
            U0 == CHOOSE U : Is(U)
<1>1. Unparsed(e) = U0[e]
  BY UnparsedBy
<1>2. Is(W)
  <2>1. ASSUME NEW c \in DOMAIN heap PROVE W[c] = Unparse(heap, W, c)
    <3>1. \A i \in 1 .. Len(heap[c].kids) : W[heap[c].kids[i]] \in Seq(Words)
      BY DEF Shaped, ShapeOf, Written
    <3>2. Unparse(heap, W, c) = WordOf("tokens", heap, W, c)
      BY <3>1, UnparseIs
    <3>. QED
      BY <3>2 DEF Written
  <2>2. W = [c \in DOMAIN heap |-> W[c]]
    BY DEF Written
  <2>. QED
    BY <2>1, <2>2, Zenon
<1>3. Is(U0)
  BY <1>2, Zenon
<1>. HIDE DEF U0
<1>4. ASSUME NEW c \in DOMAIN heap, \A i \in 1 .. Len(heap[c].kids) : U0[heap[c].kids[i]] \in Seq(Words)
      PROVE  U0[c] = WordOf("tokens", heap, U0, c)
  <2>1. U0[c] = Unparse(heap, U0, c)
    BY <1>3
  <2>2. Unparse(heap, U0, c) = WordOf("tokens", heap, U0, c)
    BY <1>4, UnparseIs
  <2>. QED
    BY <2>1, <2>2
<1>5. HeapSound(heap, allocs)
  BY BlocksSound
<1>. HIDE DEF Is
<1>6. U0[e] = W[e]
  BY <1>4, <1>5, WordsAgree
<1>. QED
  BY <1>1, <1>6

LEMMA SaidTokens ==
  ASSUME NEW r \in Seq(Tokens)
  PROVE  Said("tokens", r) = WithoutCommas(r)
<1>. DEFINE n == Len(r)
            q == [i \in 1 .. n |-> SaidAt("tokens", r, i)]
<1>1. DOMAIN r = 1 .. n
  OBVIOUS
<1>2. q = [i \in 1 .. n |-> IF r[i] = "comma" THEN <<>> ELSE <<r[i]>>]
  BY DEF SaidAt
<1>3. q = [i \in 1 .. n |-> q[i]]
  OBVIOUS
<1>4. Said("tokens", r) = FlatTo(q, n)
  BY Zenon DEF Said, SaidTo
<1>5. WithoutCommas(r) = FlattenSeq(q)
  BY <1>1, <1>2, Zenon DEF WithoutCommas
<1>. HIDE DEF q
<1>6. FlattenSeq(q) = FlatTo(q, n)
  BY <1>3, FlatToAll
<1>. QED
  BY <1>4, <1>5, <1>6

LEMMA TellingIsDocument == Blocks /\ Reading /\ Telling => TreeIsDocument
<1>. SUFFICES ASSUME Blocks, Reading, Telling, pc = "parsed", ret # Null
              PROVE  IsDocument(read) /\ Unparsed(ret) = WithoutCommas(read)
  BY DEF TreeIsDocument
<1>1. stack = <<>>
  BY ParsedStack
<1>2. Complete(read)
  BY DEF Reading, Reads
<1>3. IsDocument(read)
  BY <1>2 DEF Complete, Extends
<1>4. Tells(read, stack, heap, "parsed", ret)
  BY DEF Telling
<1>5. Shaped(heap) /\ read \in Seq(Tokens) /\ ret \in DOMAIN heap /\ ToldAll(read, stack, heap, "parsed", ret)
  BY <1>4 DEF Tells
<1>6. PICK W : Written("tokens", heap, W) /\ Told("tokens", read, stack, heap, W, "parsed", ret)
  BY <1>5 DEF ToldAll, Views
<1>7. W[ret] \in Seq(Words)
  BY <1>5, <1>6 DEF Written
<1>8. Said("tokens", read) \in Seq(Words)
  <2>1. "comma" \in Tokens
    BY DEF Tokens, Symbols
  <2>. QED
    BY <1>5, <2>1, SaidAppend
<1>9. PiecesTo("tokens", heap, W, stack, Len(stack)) = <<>>
  <2>1. Len(stack) = 0
    BY <1>1
  <2>. QED
    BY <2>1, PiecesNone
<1>10. Said("tokens", read) \o <<>> = <<>> \o W[ret]
  BY <1>6, <1>9 DEF Told
<1>11. Said("tokens", read) = W[ret]
  BY <1>7, <1>8, <1>10, ConcatEmpty
<1>12. Unparsed(ret) = W[ret] /\ Said("tokens", read) = WithoutCommas(read)
  BY <1>5, <1>6, UnparsedIs, SaidTokens
<1>. QED
  BY <1>3, <1>11, <1>12

\* A parse that succeeds has read a document and built its tree: what it says
\* are the tokens of the file but for the commas, with every name, value and
\* item in its place, whatever the file and the free order of its lists.
THEOREM TreeIsTheDocument == Spec => []TreeIsDocument
<1>1. BlocksInv /\ Reading /\ Telling => TreeIsDocument
  BY TellingIsDocument DEF BlocksInv
<1>. QED
  BY <1>1, BlocksAreOwned, ReadingIsRight, TreeSaysWhatWasRead, PTL
=============================================================================
