--------------------------- MODULE MetadataProofs ---------------------------
(***************************************************************************)
(* Proofs about JsonMetadata for every heap, depth and length of metadata. *)
(***************************************************************************)
EXTENDS JsonMetadata, SequenceTheorems, WellFoundedInduction, TLAPS

\* A non-empty set of naturals has a least element.
LEMMA LeastNat ==
    ASSUME NEW S \in SUBSET Nat, S # {}
    PROVE  \E n \in S : \A k \in S : n <= k
<1>1. \E x \in S : \A y \in S : ~(<<y, x>> \in OpToRel(<, Nat))
  BY NatLessThanWellFounded, WFMin
<1>2. \A x, y \in Nat : x < y => <<x, y>> \in OpToRel(<, Nat)
  <2>1. OpToRel(<, Nat) = {p \in Nat \X Nat : p[1] < p[2]}
    BY DEF OpToRel
  <2>2. QED
    BY <2>1
<1>3. PICK x \in S : \A y \in S : ~(<<y, x>> \in OpToRel(<, Nat))
  BY <1>1
<1>4. \A k \in S : ~(k < x)
  BY <1>2, <1>3
<1>5. QED
  BY <1>4

-----------------------------------------------------------------------------
(* Ways.                                                                   *)

\* A key before a way.
Put(k, rest) == <<k>> \o rest

LEMMA Longer ==
    ASSUME NEW k \in Keys, NEW rest \in Seq(Keys)
    PROVE  /\ Put(k, rest) \in Seq(Keys) /\ Put(k, rest) # << >>
           /\ Head(Put(k, rest)) = k /\ Tail(Put(k, rest)) = rest
           /\ Len(Put(k, rest)) = Len(rest) + 1 /\ Len(rest) \in Nat
           /\ Put(k, rest)[1] = k /\ \A i \in 1..Len(rest) : Put(k, rest)[i + 1] = rest[i]
<1> DEFINE way == Put(k, rest)
<1>1. <<k>> \in Seq(Keys) /\ Len(<<k>>) = 1 /\ <<k>>[1] = k
  OBVIOUS
<1>2. /\ way \in Seq(Keys) /\ Len(way) = 1 + Len(rest)
      /\ \A i \in 1..(1 + Len(rest)) : way[i] = IF i <= 1 THEN <<k>>[i] ELSE rest[i - 1]
  BY <1>1, ConcatProperties DEF Put
<1> HIDE DEF way
<1>3. Len(rest) \in Nat
  OBVIOUS
<1>4. way # << >>
  BY <1>2, <1>3
<1>5. way[1] = k
  BY <1>1, <1>2, <1>3
<1>6. ASSUME NEW i \in 1..Len(rest)
      PROVE  way[i + 1] = rest[i]
  <2>1. i + 1 \in 1..(1 + Len(rest)) /\ ~(i + 1 <= 1) /\ (i + 1) - 1 = i
    BY <1>3
  <2>2. QED
    BY <1>2, <2>1
<1>7. Head(way) = k /\ Tail(way) = rest
  <2>1. Head(way) = way[1] /\ Tail(way) \in Seq(Keys) /\ Len(Tail(way)) = Len(rest)
    BY <1>2, <1>3, <1>4, HeadTailProperties
  <2>2. \A i \in 1..Len(rest) : Tail(way)[i] = way[i + 1]
    BY <1>2, <1>3, <1>4, <2>1, HeadTailProperties
  <2>3. QED
    BY <1>5, <1>6, <2>1, <2>2, SeqEqual
<1>8. QED
  BY <1>2, <1>3, <1>4, <1>5, <1>6, <1>7 DEF way

\* The ways to the containers around it.
LEMMA LongerAbove ==
    ASSUME NEW k \in Keys, NEW rest \in Seq(Keys), NEW i \in 1..Len(rest)
    PROVE  /\ SubSeq(Put(k, rest), 1, i) = Put(k, SubSeq(rest, 1, i - 1))
           /\ SubSeq(rest, 1, i - 1) \in Seq(Keys)
           /\ SubSeq(Put(k, rest), 1, 0) = << >>
<1> DEFINE way == Put(k, rest)
           up == SubSeq(rest, 1, i - 1)
<1>0. Len(rest) \in Nat /\ i \in Nat /\ 1 <= i /\ i <= Len(rest)
  OBVIOUS
<1>1. /\ way \in Seq(Keys) /\ Len(way) = Len(rest) + 1
      /\ way[1] = k /\ \A j \in 1..Len(rest) : way[j + 1] = rest[j]
  BY Longer
<1>2. /\ up \in Seq(Keys) /\ Len(up) = i - 1
      /\ \A j \in 1..(i - 1) : up[j] = rest[j]
  BY <1>0
<1>3. /\ SubSeq(way, 1, i) \in Seq(Keys) /\ Len(SubSeq(way, 1, i)) = i
      /\ \A j \in 1..i : SubSeq(way, 1, i)[j] = way[j]
  BY <1>0, <1>1
<1> HIDE DEF up
<1>4. /\ Put(k, up) \in Seq(Keys) /\ Len(Put(k, up)) = i
      /\ Put(k, up)[1] = k /\ \A j \in 1..(i - 1) : Put(k, up)[j + 1] = up[j]
  <2>1. /\ Put(k, up) \in Seq(Keys) /\ Len(Put(k, up)) = Len(up) + 1
        /\ Put(k, up)[1] = k /\ \A j \in 1..Len(up) : Put(k, up)[j + 1] = up[j]
    BY <1>2, Longer
  <2>2. QED
    BY <1>0, <1>2, <2>1
<1>5. \A j \in 1..i : SubSeq(way, 1, i)[j] = Put(k, up)[j]
  <2>1. ASSUME NEW j \in 1..i, j # 1
        PROVE  SubSeq(way, 1, i)[j] = Put(k, up)[j]
    <3>1. j - 1 \in 1..(i - 1) /\ j - 1 \in 1..Len(rest) /\ (j - 1) + 1 = j
      BY <1>0, <2>1
    <3>2. way[j] = rest[j - 1] /\ Put(k, up)[j] = rest[j - 1]
      BY <1>1, <1>2, <1>4, <3>1
    <3>3. QED
      BY <1>3, <3>2
  <2>2. QED
    BY <1>0, <1>1, <1>3, <1>4, <2>1
<1>6. SubSeq(way, 1, i) = Put(k, up)
  BY <1>3, <1>4, <1>5, SeqEqual
<1>7. SubSeq(way, 1, 0) = << >>
  BY <1>1
<1>8. QED
  BY <1>2, <1>6, <1>7 DEF up

-----------------------------------------------------------------------------
(* Trees.                                                                  *)

\* What the constructor leaves at a way of a tree that is inside of depth
\* containers: JSON scalars in tuples and mapping proxies that are not too deep,
\* and text for the keys of the proxies.
TidyWay(t, depth, w) ==
    /\ t[w] \in Leaves => JsonLeaf(t[w])
    /\ t[w] \notin Leaves =>
         t[w] \in {Form("tuple"), Form("proxy")} /\ depth + Len(w) + 1 <= MaxDepth
    /\ \A i \in 1..Len(w) :
         LET up == SubSeq(w, 1, i - 1)
         IN  /\ up \in DOMAIN t /\ t[up] \notin Leaves
             /\ IsPosition(w[i]) \/ w[i].type = "str"
             /\ t[up] = Form("proxy") => w[i].type = "str"

Tidy(t, depth) ==
    /\ t = [w \in DOMAIN t |-> t[w]]
    /\ DOMAIN t \subseteq Seq(Keys) /\ << >> \in DOMAIN t
    /\ \A w \in DOMAIN t : TidyWay(t, depth, w)

\* No container is taken for a scalar.
LEMMA FormIsNoLeaf == \A name : Form(name) \notin Leaves
<1>1. \A leaf \in Leaves : "type" \in DOMAIN leaf
  BY MetadataAssumption
<1>2. \A name : "type" \notin DOMAIN Form(name)
  BY DEF Form
<1>3. QED
  BY <1>1, <1>2

\* The ways of a tree put together of others.
LEMMA TreeWays ==
    ASSUME NEW form, NEW items, DOMAIN items \subseteq Keys,
           \A k \in DOMAIN items : DOMAIN items[k].tree \subseteq Seq(Keys)
    PROVE  /\ Tree(form, items) = [w \in DOMAIN Tree(form, items) |-> Tree(form, items)[w]]
           /\ DOMAIN Tree(form, items) \subseteq Seq(Keys)
           /\ << >> \in DOMAIN Tree(form, items) /\ Tree(form, items)[<< >>] = Form(form)
           /\ \A k \in DOMAIN items, rest \in Seq(Keys) :
                /\ Put(k, rest) \in DOMAIN Tree(form, items) <=> rest \in DOMAIN items[k].tree
                /\ rest \in DOMAIN items[k].tree =>
                     Tree(form, items)[Put(k, rest)] = items[k].tree[rest]
           /\ \A w \in DOMAIN Tree(form, items) :
                w = << >> \/ \E k \in DOMAIN items : \E rest \in DOMAIN items[k].tree :
                               w = Put(k, rest)
<1> DEFINE inner == UNION {{Put(k, way) : way \in DOMAIN items[k].tree} : k \in DOMAIN items}
           t == Tree(form, items)
<1>1. t = [way \in {<< >>} \cup inner |->
              IF way = << >> THEN Form(form) ELSE items[Head(way)].tree[Tail(way)]]
  BY DEF Tree, Put
<1>2. \A w : w \in inner <=>
          \E k \in DOMAIN items : \E rest \in DOMAIN items[k].tree : w = Put(k, rest)
  <2> DEFINE ways(k) == {Put(k, way) : way \in DOMAIN items[k].tree}
  <2>1. inner = UNION {ways(k) : k \in DOMAIN items}
    OBVIOUS
  <2>2. \A k, w : w \in ways(k) <=> \E rest \in DOMAIN items[k].tree : w = Put(k, rest)
    OBVIOUS
  <2> HIDE DEF ways, inner
  <2>3. \A w : w \in inner <=> \E k \in DOMAIN items : w \in ways(k)
    BY <2>1
  <2>4. QED
    BY <2>2, <2>3
<1> HIDE DEF t, inner
<1>3. DOMAIN t = {<< >>} \cup inner /\ t[<< >>] = Form(form)
  BY <1>1
<1>4. \A k \in DOMAIN items, rest \in Seq(Keys) :
          /\ k \in Keys /\ Put(k, rest) \in Seq(Keys) /\ Put(k, rest) # << >>
          /\ Head(Put(k, rest)) = k /\ Tail(Put(k, rest)) = rest
  BY Longer
<1>5. DOMAIN t \subseteq Seq(Keys)
  <2>1. \A k \in DOMAIN items : \A rest \in DOMAIN items[k].tree : Put(k, rest) \in Seq(Keys)
    BY <1>4
  <2>2. inner \subseteq Seq(Keys)
    BY <1>2, <2>1
  <2>3. << >> \in Seq(Keys)
    OBVIOUS
  <2>4. QED
    BY <1>3, <2>2, <2>3
<1>6. ASSUME NEW k \in DOMAIN items, NEW rest \in Seq(Keys)
      PROVE  /\ Put(k, rest) \in DOMAIN t <=> rest \in DOMAIN items[k].tree
             /\ rest \in DOMAIN items[k].tree => t[Put(k, rest)] = items[k].tree[rest]
  <2>1. ASSUME Put(k, rest) \in DOMAIN t
        PROVE  rest \in DOMAIN items[k].tree
    <3>1. PICK l \in DOMAIN items : \E other \in DOMAIN items[l].tree :
                   Put(k, rest) = Put(l, other)
      BY <1>2, <1>3, <1>4, <2>1
    <3>2. PICK other \in DOMAIN items[l].tree : Put(k, rest) = Put(l, other)
      BY <3>1
    <3>3. k = l /\ rest = other
      <4>1. k \in Keys /\ l \in Keys /\ other \in Seq(Keys)
        OBVIOUS
      <4>2. Head(Put(k, rest)) = k /\ Tail(Put(k, rest)) = rest
        BY <4>1, Longer
      <4>3. Head(Put(l, other)) = l /\ Tail(Put(l, other)) = other
        BY <4>1, Longer
      <4>4. QED
        BY <3>2, <4>2, <4>3
    <3>4. QED
      BY <3>3
  <2>2. ASSUME rest \in DOMAIN items[k].tree
        PROVE  Put(k, rest) \in DOMAIN t /\ t[Put(k, rest)] = items[k].tree[rest]
    <3>1. Put(k, rest) \in inner
      BY <1>2, <2>2
    <3>2. QED
      BY <1>1, <1>4, <3>1
  <2>3. QED
    BY <2>1, <2>2
<1>7. t = [w \in DOMAIN t |-> t[w]]
  BY <1>1
<1>8. \A w \in DOMAIN t :
          w = << >> \/ \E k \in DOMAIN items : \E rest \in DOMAIN items[k].tree : w = Put(k, rest)
  BY <1>2, <1>3
<1>9. QED
  BY <1>3, <1>5, <1>6, <1>7, <1>8 DEF t

\* A container of tidy trees, one level further in, is tidy.
LEMMA TreeTidy ==
    ASSUME NEW form \in {"tuple", "proxy"}, NEW items, NEW depth \in Nat,
           DepthAllowed(depth), DOMAIN items \subseteq Keys,
           \A k \in DOMAIN items :
               /\ Tidy(items[k].tree, depth + 1)
               /\ IsPosition(k) \/ k.type = "str"
               /\ form = "proxy" => k.type = "str"
    PROVE  Tidy(Tree(form, items), depth)
<1> DEFINE t == Tree(form, items)
<1>0. MaxDepth \in Nat /\ depth + 1 <= MaxDepth
  BY MetadataAssumption DEF DepthAllowed
<1>1. \A k \in DOMAIN items :
          DOMAIN items[k].tree \subseteq Seq(Keys) /\ << >> \in DOMAIN items[k].tree
  BY DEF Tidy
<1> HIDE DEF t
<1>2. /\ t = [w \in DOMAIN t |-> t[w]] /\ DOMAIN t \subseteq Seq(Keys)
      /\ << >> \in DOMAIN t /\ t[<< >>] = Form(form)
  BY <1>1, TreeWays DEF t
<1>3. ASSUME NEW k \in DOMAIN items, NEW rest \in Seq(Keys)
      PROVE  /\ Put(k, rest) \in DOMAIN t <=> rest \in DOMAIN items[k].tree
             /\ rest \in DOMAIN items[k].tree => t[Put(k, rest)] = items[k].tree[rest]
  BY <1>1, TreeWays DEF t
<1>4. ASSUME NEW w \in DOMAIN t
      PROVE  w = << >> \/ \E k \in DOMAIN items : \E rest \in DOMAIN items[k].tree :
                              w = Put(k, rest)
  BY <1>1, TreeWays DEF t
<1>5. Form(form) \notin Leaves
  BY FormIsNoLeaf
<1>6. TidyWay(t, depth, << >>)
  <2>1. Len(<< >>) = 0 /\ depth + 0 + 1 <= MaxDepth
    BY <1>0
  <2>2. QED
    BY <1>2, <1>5, <2>1 DEF TidyWay
<1>7. ASSUME NEW k \in DOMAIN items, NEW rest \in DOMAIN items[k].tree,
             NEW w, w = Put(k, rest)
      PROVE  TidyWay(t, depth, w)
  <2>1. k \in Keys /\ rest \in Seq(Keys) /\ TidyWay(items[k].tree, depth + 1, rest)
    BY <1>1 DEF Tidy
  <2>2. t[w] = items[k].tree[rest]
    BY <1>3, <1>7, <2>1
  <2>3. /\ Len(w) = Len(rest) + 1 /\ Len(rest) \in Nat
        /\ w[1] = k /\ \A i \in 1..Len(rest) : w[i + 1] = rest[i]
    <3>1. /\ Len(Put(k, rest)) = Len(rest) + 1 /\ Len(rest) \in Nat
          /\ Put(k, rest)[1] = k /\ \A i \in 1..Len(rest) : Put(k, rest)[i + 1] = rest[i]
      BY <2>1, Longer
    <3>2. QED
      BY <1>7, <3>1
  <2>4. t[w] \in Leaves => JsonLeaf(t[w])
    BY <2>1, <2>2 DEF TidyWay
  <2>5. t[w] \notin Leaves =>
            t[w] \in {Form("tuple"), Form("proxy")} /\ depth + Len(w) + 1 <= MaxDepth
    BY <1>0, <2>1, <2>2, <2>3 DEF TidyWay
  <2>6. ASSUME NEW i \in 1..Len(w), NEW up, up = SubSeq(w, 1, i - 1)
        PROVE  /\ up \in DOMAIN t /\ t[up] \notin Leaves
               /\ IsPosition(w[i]) \/ w[i].type = "str"
               /\ t[up] = Form("proxy") => w[i].type = "str"
    <3>1. CASE i = 1
      <4>1. up = << >>
        BY <2>6, <3>1, <2>1, <2>3, <1>7, Longer, SubSeqEmpty
      <4>2. t[up] = Form("proxy") => form = "proxy"
        BY <1>2, <4>1 DEF Form
      <4>3. QED
        BY <1>2, <1>5, <2>3, <3>1, <4>1, <4>2
    <3>2. CASE i # 1
      <4>1. PICK j \in 1..Len(rest) : i = j + 1
        <5>1. i - 1 \in 1..Len(rest) /\ i = (i - 1) + 1
          BY <2>3, <3>2
        <5>2. QED
          BY <5>1
      <4>2. i - 1 = j /\ w[i] = rest[j]
        BY <2>3, <4>1
      <4>3. up = Put(k, SubSeq(rest, 1, j - 1)) /\ SubSeq(rest, 1, j - 1) \in Seq(Keys)
        BY <1>7, <2>1, <2>6, <4>2, LongerAbove
      <4>4. /\ SubSeq(rest, 1, j - 1) \in DOMAIN items[k].tree
            /\ items[k].tree[SubSeq(rest, 1, j - 1)] \notin Leaves
            /\ IsPosition(rest[j]) \/ rest[j].type = "str"
            /\ items[k].tree[SubSeq(rest, 1, j - 1)] = Form("proxy") => rest[j].type = "str"
        BY <2>1 DEF TidyWay
      <4>5. up \in DOMAIN t /\ t[up] = items[k].tree[SubSeq(rest, 1, j - 1)]
        BY <1>3, <4>3, <4>4
      <4>6. QED
        BY <4>2, <4>4, <4>5
    <3>3. QED
      BY <3>1, <3>2
  <2>7. QED
    BY <2>4, <2>5, <2>6 DEF TidyWay
<1>8. \A w \in DOMAIN t : TidyWay(t, depth, w)
  BY <1>4, <1>6, <1>7
<1>9. QED
  BY <1>2, <1>8 DEF Tidy, t

-----------------------------------------------------------------------------
(* The recursion of _freeze_json.                                          *)

\* What the calls at a depth make of every scalar and container.
Frozen(h, depth, below) ==
    [x \in DOMAIN h \cup Leaves |-> FreezeStep(h, x, depth, below)]

\* Where no container is allowed, nothing is called.
LEMMA FreezeBottom ==
    ASSUME NEW h, NEW depth \in Nat, depth >= MaxDepth, NEW b, NEW c
    PROVE  Frozen(h, depth, b) = Frozen(h, depth, c)
<1>1. ~DepthAllowed(depth)
  BY MetadataAssumption DEF DepthAllowed
<1>2. \A x : FreezeStep(h, x, depth, b) = FreezeStep(h, x, depth, c)
  BY <1>1 DEF FreezeStep
<1>3. QED
  BY <1>2 DEF Frozen

\* The recursion is well defined: it ends at MaxDepth, whatever the containers
\* refer to.
LEMMA FreezeRecursion ==
    ASSUME NEW h
    PROVE  \A depth \in Nat : Freeze(h)[depth] = Frozen(h, depth, Freeze(h)[depth + 1])
<1> DEFINE Solves(f, m) ==
               /\ f = [d \in Nat |-> f[d]]
               /\ \A d \in Nat : d + m >= MaxDepth => f[d] = Frozen(h, d, f[d + 1])
           failing == {m \in Nat : ~\E f : Solves(f, m)}
<1>0. MaxDepth \in Nat
  BY MetadataAssumption
<1>1. SUFFICES failing = {}
  <2>1. MaxDepth \in Nat => \E f : Solves(f, MaxDepth)
    BY <1>1
  <2>2. PICK f : Solves(f, MaxDepth)
    BY <1>0, <2>1
  <2>3. \A d \in Nat : f[d] = Frozen(h, d, f[d + 1])
    <3>1. \A d \in Nat : d + MaxDepth >= MaxDepth
      BY <1>0
    <3>2. QED
      BY <2>2, <3>1
  <2>4. f = [d \in Nat |-> [x \in DOMAIN h \cup Leaves |-> FreezeStep(h, x, d, f[d + 1])]]
    BY <2>2, <2>3 DEF Frozen
  <2>5. Freeze(h) = [d \in Nat |->
            [x \in DOMAIN h \cup Leaves |-> FreezeStep(h, x, d, Freeze(h)[d + 1])]]
    BY <2>4 DEF Freeze
  <2>6. QED
    BY <2>5 DEF Frozen
<1>2. ASSUME failing # {}
      PROVE  FALSE
  <2>1. PICK m \in failing : \A k \in failing : m <= k
    <3>1. failing \in SUBSET Nat
      OBVIOUS
    <3>2. QED
      BY <1>2, <3>1, LeastNat
  <2>2. m \in Nat /\ ~\E f : Solves(f, m)
    OBVIOUS
  <2>3. CASE m = 0
    <3> DEFINE f == [d \in Nat |-> Frozen(h, d, {})]
    <3>1. f = [d \in Nat |-> f[d]]
      OBVIOUS
    <3>2. ASSUME NEW d \in Nat, d + m >= MaxDepth
          PROVE  f[d] = Frozen(h, d, f[d + 1])
      <4>1. d >= MaxDepth
        BY <1>0, <2>3, <3>2
      <4>2. f[d] = Frozen(h, d, {})
        OBVIOUS
      <4>3. QED
        BY <4>1, <4>2, FreezeBottom
    <3>3. Solves(f, m)
      BY <3>1, <3>2
    <3>4. QED
      BY <2>2, <3>3
  <2>4. CASE m # 0
    <3>1. m - 1 \in Nat /\ m - 1 \notin failing
      BY <2>1, <2>2, <2>4
    <3>2. PICK f : Solves(f, m - 1)
      BY <3>1
    <3>3. CASE m > MaxDepth
      <4>1. \A d \in Nat : d + m >= MaxDepth => d + (m - 1) >= MaxDepth
        BY <1>0, <2>2, <3>3
      <4>2. Solves(f, m)
        BY <3>2, <4>1
      <4>3. QED
        BY <2>2, <4>2
    <3>4. CASE m <= MaxDepth
      <4> DEFINE last == MaxDepth - m
                 g == [f EXCEPT ![last] = Frozen(h, last, f[last + 1])]
      <4>1. last \in Nat /\ last + 1 \in Nat /\ last + 1 # last
        BY <1>0, <2>2, <3>4
      <4>2. /\ g = [d \in Nat |-> g[d]] /\ g[last] = Frozen(h, last, f[last + 1])
            /\ \A d \in Nat : d # last => g[d] = f[d]
        BY <3>2, <4>1
      <4> HIDE DEF g
      <4>3. ASSUME NEW d \in Nat, d + m >= MaxDepth
            PROVE  g[d] = Frozen(h, d, g[d + 1])
        <5>1. CASE d = last
          BY <4>1, <4>2, <5>1
        <5>2. CASE d # last
          <6>1. d + (m - 1) >= MaxDepth /\ d + 1 \in Nat /\ d + 1 # last
            BY <1>0, <2>2, <4>3, <5>2
          <6>2. f[d] = Frozen(h, d, f[d + 1])
            BY <3>2, <6>1
          <6>3. QED
            BY <4>2, <5>2, <6>1, <6>2
        <5>3. QED
          BY <5>1, <5>2
      <4>4. Solves(g, m)
        BY <4>2, <4>3
      <4>5. QED
        BY <2>2, <4>4
    <3>5. QED
      BY <1>0, <2>2, <3>3, <3>4
  <2>5. QED
    BY <2>3, <2>4
<1>3. QED
  BY <1>2

\* What holds wherever nothing is called any more, and at a depth if it holds one
\* level deeper, holds at every depth.
LEMMA Deeper ==
    ASSUME NEW P, P \subseteq Nat,
           \A d \in Nat : (d < MaxDepth => d + 1 \in P) => d \in P
    PROVE  \A d \in Nat : d \in P
<1> DEFINE failing == {m \in Nat : \E d \in Nat : d + m >= MaxDepth /\ d \notin P}
<1>0. MaxDepth \in Nat
  BY MetadataAssumption
<1>1. ASSUME failing # {}
      PROVE  FALSE
  <2>1. PICK m \in failing : \A k \in failing : m <= k
    <3>1. failing \in SUBSET Nat
      OBVIOUS
    <3>2. QED
      BY <1>1, <3>1, LeastNat
  <2>2. PICK d \in Nat : m \in Nat /\ d + m >= MaxDepth /\ d \notin P
    OBVIOUS
  <2>3. d < MaxDepth /\ d + 1 \notin P
    BY <1>0, <2>2
  <2>4. m - 1 \in Nat /\ (d + 1) + (m - 1) >= MaxDepth
    BY <1>0, <2>2, <2>3
  <2>5. m - 1 \in failing
    BY <2>3, <2>4
  <2>6. QED
    BY <2>1, <2>2, <2>5
<1>2. ASSUME NEW d \in Nat, d \notin P
      PROVE  FALSE
  <2>1. d + MaxDepth >= MaxDepth
    BY <1>0
  <2>2. MaxDepth \in failing
    BY <1>0, <1>2, <2>1
  <2>3. QED
    BY <1>1, <2>2
<1>3. QED
  BY <1>2

-----------------------------------------------------------------------------
(* What freezing makes.                                                    *)

\* The containers of the host, or those that json.loads made.
WellFormed(h) ==
    /\ DOMAIN h \cap Leaves = {}
    /\ \A x \in DOMAIN h :
         /\ h[x].form \in Sequential \cup Mapping
         /\ DOMAIN h[x].items \subseteq Keys
         /\ \A k \in DOMAIN h[x].items :
              /\ h[x].items[k] \in DOMAIN h \cup Leaves
              /\ IsPosition(k) <=> h[x].form \in Sequential

\* A scalar is kept, or refused.
LEMMA FreezeLeaf ==
    ASSUME NEW h, NEW x \in Leaves, NEW depth, NEW below
    PROVE  FreezeStep(h, x, depth, below) =
               IF JsonLeaf(x) THEN [tree |-> [way \in {<< >>} |-> x]] ELSE Invalid
BY DEF FreezeStep

\* A container is frozen if it is one of those the loops go through, not too deep,
\* with text for keys, and every item is.
LEMMA FreezeContainer ==
    ASSUME NEW h, NEW x, x \notin Leaves, h[x].form \in Sequential \cup Mapping,
           NEW depth, NEW below, NEW items,
           items = [k \in DOMAIN h[x].items |-> below[h[x].items[k]]]
    PROVE  FreezeStep(h, x, depth, below) =
               IF /\ h[x].form # "tuple" /\ DepthAllowed(depth)
                  /\ h[x].form \in Mapping => TextKeys(h[x].items)
                  /\ AllValid(items)
               THEN [tree |-> Tree(IF h[x].form = "list" THEN "tuple" ELSE "proxy", items)]
               ELSE Invalid
<1>1. h[x].form \in {"list", "tuple", "dict", "proxy"}
  BY DEF Sequential, Mapping
<1>2. "list" \notin Mapping /\ "tuple" \notin Mapping /\ "dict" \in Mapping /\ "proxy" \in Mapping
  BY DEF Mapping
<1>3. FreezeStep(h, x, depth, below) =
          CASE x \in Leaves /\ JsonLeaf(x) -> [tree |-> [way \in {<< >>} |-> x]]
            [] x \notin Leaves /\ h[x].form = "list" /\ DepthAllowed(depth) /\ AllValid(items) ->
                 [tree |-> Tree("tuple", items)]
            [] /\ x \notin Leaves /\ h[x].form \in Mapping
               /\ DepthAllowed(depth) /\ TextKeys(h[x].items) /\ AllValid(items) ->
                 [tree |-> Tree("proxy", items)]
            [] OTHER -> Invalid
  BY DEF FreezeStep
<1>4. CASE h[x].form = "list"
  BY <1>2, <1>3, <1>4
<1>5. CASE h[x].form = "tuple"
  BY <1>2, <1>3, <1>5
<1>6. CASE h[x].form \in {"dict", "proxy"}
  BY <1>2, <1>3, <1>6
<1>7. QED
  BY <1>1, <1>4, <1>5, <1>6

\* A result is a tree, or the error.
LEMMA TreeIsValid == \A t : [tree |-> t] # Invalid /\ [tree |-> t].tree = t
BY DEF Invalid

\* What is frozen at a depth is tidy there, and has what the container was.
LEMMA FreezeTidy ==
    ASSUME NEW h, WellFormed(h)
    PROVE  \A depth \in Nat : \A x \in DOMAIN h \cup Leaves :
             Freeze(h)[depth][x] # Invalid =>
               /\ Freeze(h)[depth][x] = [tree |-> Freeze(h)[depth][x].tree]
               /\ Tidy(Freeze(h)[depth][x].tree, depth)
               /\ x \in DOMAIN h /\ h[x].form \in Mapping =>
                    Freeze(h)[depth][x].tree[<< >>] = Form("proxy")
<1> DEFINE Right(depth, x, r) ==
               r # Invalid =>
                 /\ r = [tree |-> r.tree] /\ Tidy(r.tree, depth)
                 /\ x \in DOMAIN h /\ h[x].form \in Mapping => r.tree[<< >>] = Form("proxy")
           P == {d \in Nat : \A x \in DOMAIN h \cup Leaves : Right(d, x, Freeze(h)[d][x])}
<1>0. MaxDepth \in Nat
  BY MetadataAssumption
<1>1. ASSUME NEW d \in Nat, d < MaxDepth => d + 1 \in P
      PROVE  d \in P
  <2> SUFFICES ASSUME NEW x \in DOMAIN h \cup Leaves, NEW r, r = Freeze(h)[d][x], r # Invalid
               PROVE  Right(d, x, r)
    OBVIOUS
  <2>1. r = FreezeStep(h, x, d, Freeze(h)[d + 1])
    <3>1. Freeze(h)[d] = Frozen(h, d, Freeze(h)[d + 1])
      BY FreezeRecursion
    <3>2. QED
      BY <3>1 DEF Frozen
  <2>2. CASE x \in Leaves
    <3>1. JsonLeaf(x) /\ r = [tree |-> [way \in {<< >>} |-> x]]
      BY <2>1, <2>2, FreezeLeaf
    <3>2. PICK t : t = [way \in {<< >>} |-> x]
      OBVIOUS
    <3>3. /\ t = [w \in DOMAIN t |-> t[w]] /\ DOMAIN t = {<< >>} /\ t[<< >>] = x
          /\ << >> \in Seq(Keys) /\ Len(<< >>) = 0
      BY <3>2
    <3>4. TidyWay(t, d, << >>)
      BY <2>2, <3>1, <3>3 DEF TidyWay
    <3>5. Tidy(t, d)
      BY <3>3, <3>4 DEF Tidy
    <3>6. x \notin DOMAIN h
      BY <2>2 DEF WellFormed
    <3>7. r = [tree |-> t]
      BY <3>1, <3>2
    <3>8. QED
      BY <3>5, <3>6, <3>7, TreeIsValid
  <2>3. CASE x \notin Leaves
    <3>1. PICK items : items = [k \in DOMAIN h[x].items |-> Freeze(h)[d + 1][h[x].items[k]]]
      OBVIOUS
    <3>2. PICK form : form = IF h[x].form = "list" THEN "tuple" ELSE "proxy"
      OBVIOUS
    <3>3. /\ h[x].form \in Sequential \cup Mapping /\ DOMAIN h[x].items \subseteq Keys
          /\ \A k \in DOMAIN h[x].items :
               /\ h[x].items[k] \in DOMAIN h \cup Leaves
               /\ IsPosition(k) <=> h[x].form \in Sequential
      BY <2>3 DEF WellFormed
    <3>4. r = IF /\ h[x].form # "tuple" /\ DepthAllowed(d)
                 /\ h[x].form \in Mapping => TextKeys(h[x].items)
                 /\ AllValid(items)
              THEN [tree |-> Tree(form, items)] ELSE Invalid
      BY <2>1, <2>3, <3>1, <3>2, <3>3, FreezeContainer
    <3>5. /\ h[x].form # "tuple" /\ DepthAllowed(d)
          /\ h[x].form \in Mapping => TextKeys(h[x].items)
          /\ AllValid(items) /\ r = [tree |-> Tree(form, items)]
      BY <3>4
    <3>6. d < MaxDepth /\ d + 1 \in P
      BY <1>0, <1>1, <3>5 DEF DepthAllowed
    <3>7. h[x].form \in Mapping <=> form = "proxy"
      BY <3>2, <3>3, <3>5 DEF Sequential, Mapping
    <3>8. /\ form \in {"tuple", "proxy"} /\ DOMAIN items \subseteq Keys
          /\ DOMAIN items = DOMAIN h[x].items
      BY <3>1, <3>2, <3>3
    <3>9. ASSUME NEW k \in DOMAIN items
          PROVE  /\ Tidy(items[k].tree, d + 1)
                 /\ IsPosition(k) \/ k.type = "str"
                 /\ form = "proxy" => k.type = "str"
      <4>1. h[x].items[k] \in DOMAIN h \cup Leaves /\ items[k] = Freeze(h)[d + 1][h[x].items[k]]
        BY <3>1, <3>3
      <4>2. items[k] # Invalid
        BY <3>5 DEF AllValid
      <4>3. Right(d + 1, h[x].items[k], Freeze(h)[d + 1][h[x].items[k]])
        BY <3>6, <4>1
      <4>4. Tidy(items[k].tree, d + 1)
        BY <4>1, <4>2, <4>3
      <4>5. h[x].form \in Mapping => k.type = "str"
        BY <3>5, <3>8 DEF TextKeys
      <4>6. h[x].form \in Sequential \/ h[x].form \in Mapping
        BY <3>3
      <4>7. QED
        BY <3>3, <3>7, <3>8, <4>4, <4>5, <4>6
    <3>10. Tidy(Tree(form, items), d)
      <4> HIDE DEF P
      <4>1. QED
        BY <3>5, <3>8, <3>9, TreeTidy
    <3>11. Tree(form, items)[<< >>] = Form(form)
      <4>1. \A k \in DOMAIN items : DOMAIN items[k].tree \subseteq Seq(Keys)
        BY <3>9 DEF Tidy
      <4>2. QED
        BY <3>8, <4>1, TreeWays
    <3>12. QED
      BY <3>5, <3>7, <3>10, <3>11, TreeIsValid
  <2>4. QED
    BY <2>2, <2>3
<1>2. \A d \in Nat : d \in P
  <2> HIDE DEF P
  <2>1. P \subseteq Nat
    BY DEF P
  <2>2. QED
    BY <1>1, <2>1, Deeper
<1>3. QED
  BY <1>2

-----------------------------------------------------------------------------
(* Texts.                                                                  *)

LEMMA FormsDiffer ==
    ASSUME NEW a, NEW b, Form(a) = Form(b)
    PROVE  a = b
<1>1. Form(a).form = a /\ Form(b).form = b
  BY DEF Form
<1>2. QED
  BY <1>1

\* What is written for a scalar or a container.
Symbol(node) ==
    IF node \in Leaves THEN node
    ELSE IF node \in {Form("list"), Form("tuple")} THEN Form("array") ELSE Form("object")

LEMMA SymbolFacts ==
    /\ \A leaf \in Leaves : Symbol(leaf) = leaf
    /\ Symbol(Form("tuple")) = Form("array") /\ Symbol(Form("list")) = Form("array")
    /\ Symbol(Form("proxy")) = Form("object") /\ Symbol(Form("dict")) = Form("object")
<1>1. Form("proxy") \notin {Form("list"), Form("tuple")}
  BY FormsDiffer
<1>2. Form("dict") \notin {Form("list"), Form("tuple")}
  BY FormsDiffer
<1>3. QED
  BY <1>1, <1>2, FormIsNoLeaf DEF Symbol

\* A value whose ways are written as they are is written node by node.
LEMMA CanonicalPointwise ==
    ASSUME NEW v, \A w \in DOMAIN v : Written(w) = w
    PROVE  CanonicalJson(v) = [w \in DOMAIN v |-> Symbol(v[w])]
<1> DEFINE node(way) == v[CHOOSE w \in DOMAIN v : Written(w) = way]
           symbol(n) == CASE n \in Leaves -> n
                          [] n \in {Form(name) : name \in Sequential} -> Form("array")
                          [] OTHER -> Form("object")
<1>1. {Written(w) : w \in DOMAIN v} = DOMAIN v
  OBVIOUS
<1>2. \A way \in DOMAIN v : node(way) = v[way]
  OBVIOUS
<1>3. ASSUME NEW n
      PROVE  symbol(n) = Symbol(n)
  <2>1. {Form(name) : name \in Sequential} = {Form("list"), Form("tuple")}
    BY DEF Sequential
  <2>2. \A name \in Sequential : Form(name) \notin Leaves
    BY FormIsNoLeaf
  <2>3. QED
    BY <2>1, <2>2 DEF Symbol
<1>4. CanonicalJson(v) = [way \in {Written(w) : w \in DOMAIN v} |-> symbol(node(way))]
  BY DEF CanonicalJson
<1> HIDE DEF node, symbol
<1>5. QED
  BY <1>1, <1>2, <1>3, <1>4

\* The keys of what was frozen are positions and text.
LEMMA WrittenAsItIs ==
    ASSUME NEW w \in Seq(Keys),
           \A i \in 1..Len(w) : IsPosition(w[i]) \/ w[i].type = "str"
    PROVE  Written(w) = w
<1> DEFINE key(i) == IF IsPosition(w[i]) THEN w[i] ELSE [type |-> "str", text |-> w[i].text]
<1>1. DOMAIN w = 1..Len(w) /\ w = [i \in DOMAIN w |-> w[i]]
  OBVIOUS
<1>2. ASSUME NEW i \in DOMAIN w
      PROVE  key(i) = w[i]
  <2>1. w[i] \in Keys
    BY <1>1
  <2>2. IsPosition(w[i]) \/ w[i] = [type |-> w[i].type, text |-> w[i].text]
    BY <2>1, MetadataAssumption
  <2>3. QED
    BY <1>1, <2>2
<1>3. Written(w) = [i \in DOMAIN w |-> key(i)]
  BY DEF Written
<1> HIDE DEF key
<1>4. QED
  BY <1>1, <1>2, <1>3

\* What a draft holds.
Frosted(t) == Tidy(t, 0) /\ t[<< >>] = Form("proxy")

\* Its text, and what json.loads makes of it.
LEMMA TextOf ==
    ASSUME NEW d, Tidy(d, 0)
    PROVE  /\ CanonicalJson(d) = [w \in DOMAIN d |-> Symbol(d[w])]
           /\ Loads(CanonicalJson(d)) =
                [w \in DOMAIN d |->
                    CASE d[w] \in Leaves -> d[w]
                      [] d[w] = Form("tuple") -> Form("list")
                      [] OTHER -> Form("dict")]
           /\ CanonicalJson(Loads(CanonicalJson(d))) = CanonicalJson(d)
<1>1. ASSUME NEW w \in DOMAIN d
      PROVE  Written(w) = w
  <2>1. w \in Seq(Keys) /\ TidyWay(d, 0, w)
    BY DEF Tidy
  <2>2. \A i \in 1..Len(w) : IsPosition(w[i]) \/ w[i].type = "str"
    BY <2>1 DEF TidyWay
  <2>3. QED
    BY <2>1, <2>2, WrittenAsItIs
<1>2. PICK text : text = CanonicalJson(d)
  OBVIOUS
<1>3. text = [w \in DOMAIN d |-> Symbol(d[w])]
  BY <1>1, <1>2, CanonicalPointwise
<1>4. \A w \in DOMAIN d : d[w] \in Leaves \/ d[w] = Form("tuple") \/ d[w] = Form("proxy")
  BY DEF Tidy, TidyWay
<1> DEFINE read(node) == CASE node \in Leaves -> node
                           [] node = Form("array") -> Form("list")
                           [] OTHER -> Form("dict")
           thawed(node) == CASE node \in Leaves -> node
                             [] node = Form("tuple") -> Form("list")
                             [] OTHER -> Form("dict")
<1>5. ASSUME NEW node, node \in Leaves \/ node = Form("tuple") \/ node = Form("proxy")
      PROVE  read(Symbol(node)) = thawed(node) /\ Symbol(thawed(node)) = Symbol(node)
  <2>1. Form("object") # Form("array") /\ Form("proxy") # Form("tuple")
    BY FormsDiffer
  <2>2. /\ Form("object") \notin Leaves /\ Form("array") \notin Leaves
        /\ Form("proxy") \notin Leaves /\ Form("tuple") \notin Leaves
    BY FormIsNoLeaf
  <2>3. CASE node \in Leaves
    BY <2>2, <2>3, SymbolFacts
  <2>4. CASE node = Form("tuple")
    BY <2>1, <2>2, <2>4, SymbolFacts
  <2>5. CASE node = Form("proxy")
    BY <2>1, <2>2, <2>5, SymbolFacts
  <2>6. QED
    BY <1>5, <2>3, <2>4, <2>5
<1>6. Loads(text) = [w \in DOMAIN text |-> read(text[w])]
  BY DEF Loads
<1> HIDE DEF read, thawed
<1>7. Loads(text) = [w \in DOMAIN d |-> thawed(d[w])]
  BY <1>3, <1>4, <1>5, <1>6
<1>8. PICK v : v = Loads(text)
  OBVIOUS
<1>9. CanonicalJson(v) = [w \in DOMAIN v |-> Symbol(v[w])]
  BY <1>1, <1>7, <1>8, CanonicalPointwise
<1>10. CanonicalJson(v) = text
  BY <1>3, <1>4, <1>5, <1>7, <1>8, <1>9
<1>11. QED
  BY <1>2, <1>3, <1>7, <1>8, <1>10 DEF thawed

-----------------------------------------------------------------------------
(* Reading a text back.                                                    *)

\* A way that goes on.
Join(w, q) == w \o q

LEMMA Joined ==
    ASSUME NEW w \in Seq(Keys), NEW q \in Seq(Keys)
    PROVE  /\ Join(w, q) \in Seq(Keys) /\ Len(Join(w, q)) = Len(w) + Len(q)
           /\ Len(w) \in Nat /\ Len(q) \in Nat
           /\ \A i \in 1..Len(w) : Join(w, q)[i] = w[i]
           /\ \A i \in 1..Len(q) : Join(w, q)[Len(w) + i] = q[i]
<1>1. Join(w, q) \in Seq(Keys) /\ Len(Join(w, q)) = Len(w) + Len(q)
  BY ConcatProperties DEF Join
<1>2. \A i \in 1..(Len(w) + Len(q)) :
          Join(w, q)[i] = IF i <= Len(w) THEN w[i] ELSE q[i - Len(w)]
  BY ConcatProperties DEF Join
<1>3. Len(w) \in Nat /\ Len(q) \in Nat
  OBVIOUS
<1>4. ASSUME NEW i \in 1..Len(w)
      PROVE  Join(w, q)[i] = w[i]
  BY <1>2, <1>3
<1>5. ASSUME NEW i \in 1..Len(q)
      PROVE  Join(w, q)[Len(w) + i] = q[i]
  <2>1. /\ Len(w) + i \in 1..(Len(w) + Len(q)) /\ ~(Len(w) + i <= Len(w))
        /\ (Len(w) + i) - Len(w) = i
    BY <1>3
  <2>2. QED
    BY <1>2, <2>1
<1>6. QED
  BY <1>1, <1>3, <1>4, <1>5

LEMMA JoinEmpty ==
    ASSUME NEW w \in Seq(Keys)
    PROVE  Join(w, << >>) = w /\ Join(<< >>, w) = w
BY DEF Join

\* One more key.
LEMMA Further ==
    ASSUME NEW w \in Seq(Keys), NEW k \in Keys
    PROVE  /\ Append(w, k) \in Seq(Keys) /\ Len(Append(w, k)) = Len(w) + 1
           /\ Len(w) \in Nat /\ Append(w, k) # << >>
           /\ Append(w, k)[Len(w) + 1] = k /\ \A i \in 1..Len(w) : Append(w, k)[i] = w[i]
           /\ SubSeq(Append(w, k), 1, Len(w)) = w
           /\ \A l \in Keys : Append(w, l) = Append(w, k) => l = k
<1>1. PICK way : way = Append(w, k)
  OBVIOUS
<1>2. /\ way \in Seq(Keys) /\ Len(way) = Len(w) + 1 /\ Len(w) \in Nat
      /\ way[Len(w) + 1] = k /\ \A i \in 1..Len(w) : way[i] = w[i]
  BY <1>1
<1>3. way # << >>
  BY <1>2
<1>4. SubSeq(way, 1, Len(w)) = w
  <2>1. /\ SubSeq(way, 1, Len(w)) \in Seq(Keys) /\ Len(SubSeq(way, 1, Len(w))) = Len(w)
        /\ \A i \in 1..Len(w) : SubSeq(way, 1, Len(w))[i] = way[i]
    BY <1>2
  <2>2. QED
    BY <1>2, <2>1, SeqEqual
<1>5. ASSUME NEW l \in Keys, Append(w, l) = way
      PROVE  l = k
  <2>1. Append(w, l)[Len(w) + 1] = l
    OBVIOUS
  <2>2. QED
    BY <1>2, <1>5, <2>1
<1>6. QED
  BY <1>1, <1>2, <1>3, <1>4, <1>5

\* A way that goes on goes on with a key.
LEMMA JoinPut ==
    ASSUME NEW w \in Seq(Keys), NEW k \in Keys, NEW rest \in Seq(Keys)
    PROVE  Join(w, Put(k, rest)) = Join(Append(w, k), rest)
<1>1. /\ Put(k, rest) \in Seq(Keys) /\ Len(Put(k, rest)) = Len(rest) + 1 /\ Len(rest) \in Nat
      /\ Put(k, rest)[1] = k /\ \A i \in 1..Len(rest) : Put(k, rest)[i + 1] = rest[i]
  BY Longer
<1>2. /\ Append(w, k) \in Seq(Keys) /\ Len(Append(w, k)) = Len(w) + 1 /\ Len(w) \in Nat
      /\ Append(w, k)[Len(w) + 1] = k /\ \A i \in 1..Len(w) : Append(w, k)[i] = w[i]
  BY Further
<1>3. PICK p \in Seq(Keys) : p = Put(k, rest)
  BY <1>1
<1>4. PICK a \in Seq(Keys) : a = Append(w, k)
  BY <1>2
<1>5. PICK u : u = Join(w, p)
  OBVIOUS
<1>6. PICK v : v = Join(a, rest)
  OBVIOUS
<1>7. /\ u \in Seq(Keys) /\ Len(u) = Len(w) + (Len(rest) + 1)
      /\ \A i \in 1..Len(w) : u[i] = w[i]
      /\ \A i \in 1..(Len(rest) + 1) : u[Len(w) + i] = p[i]
  <2>1. /\ u \in Seq(Keys) /\ Len(u) = Len(w) + Len(p)
        /\ \A i \in 1..Len(w) : u[i] = w[i]
        /\ \A i \in 1..Len(p) : u[Len(w) + i] = p[i]
    BY ONLY p \in Seq(Keys), w \in Seq(Keys), <1>5, Joined
  <2>2. Len(p) = Len(rest) + 1
    BY <1>1, <1>3
  <2>3. QED
    BY <2>1, <2>2
<1>8. /\ v \in Seq(Keys) /\ Len(v) = (Len(w) + 1) + Len(rest)
      /\ \A i \in 1..(Len(w) + 1) : v[i] = a[i]
      /\ \A i \in 1..Len(rest) : v[(Len(w) + 1) + i] = rest[i]
  <2>1. /\ v \in Seq(Keys) /\ Len(v) = Len(a) + Len(rest)
        /\ \A i \in 1..Len(a) : v[i] = a[i]
        /\ \A i \in 1..Len(rest) : v[Len(a) + i] = rest[i]
    BY ONLY a \in Seq(Keys), rest \in Seq(Keys), <1>6, Joined
  <2>2. Len(a) = Len(w) + 1
    BY <1>2, <1>4
  <2>3. QED
    BY <2>1, <2>2
<1>9. ASSUME NEW i \in 1..Len(u)
      PROVE  u[i] = v[i]
  <2>1. CASE i \in 1..Len(w)
    <3>1. i \in 1..(Len(w) + 1)
      BY <1>2, <2>1
    <3>2. v[i] = w[i]
      BY <1>2, <1>4, <1>8, <2>1, <3>1
    <3>3. QED
      BY <1>7, <2>1, <3>2
  <2>2. CASE i = Len(w) + 1
    <3>1. u[i] = k
      <4>1. 1 \in 1..(Len(rest) + 1)
        BY <1>1
      <4>2. u[Len(w) + 1] = p[1]
        BY <1>7, <4>1
      <4>3. QED
        BY <1>1, <1>3, <2>2, <4>2
    <3>2. Len(w) + 1 \in 1..(Len(w) + 1)
      BY <1>2
    <3>3. v[i] = k
      BY <1>2, <1>4, <1>8, <2>2, <3>2
    <3>4. QED
      BY <3>1, <3>3
  <2>3. CASE i > Len(w) + 1
    <3>1. PICK j \in 1..Len(rest) : i = (Len(w) + 1) + j
      <4>1. i \in Nat /\ i <= Len(w) + (Len(rest) + 1)
        BY <1>1, <1>2, <1>7
      <4>2. i - (Len(w) + 1) \in 1..Len(rest) /\ i = (Len(w) + 1) + (i - (Len(w) + 1))
        BY <1>1, <1>2, <2>3, <4>1
      <4>3. QED
        BY <4>2
    <3>2. j + 1 \in 1..(Len(rest) + 1) /\ i = Len(w) + (j + 1)
      BY <1>1, <1>2, <3>1
    <3>3. u[i] = p[j + 1] /\ v[i] = rest[j]
      BY <1>7, <1>8, <3>1, <3>2
    <3>4. QED
      BY <1>1, <1>3, <3>1, <3>3
  <2>4. i \in Nat /\ i >= 1
    BY <1>7
  <2>5. QED
    BY <1>2, <2>1, <2>2, <2>3, <2>4
<1>10. u = v
  BY <1>1, <1>2, <1>7, <1>8, <1>9, SeqEqual
<1>11. QED
  BY <1>3, <1>4, <1>5, <1>6, <1>10

\* Every way is empty or starts with a key.
LEMMA StartsWithAKey ==
    ASSUME NEW q \in Seq(Keys), q # << >>
    PROVE  \E k \in Keys : \E rest \in Seq(Keys) : q = Put(k, rest)
<1>1. Len(q) \in Nat \ {0} /\ Head(q) \in Keys /\ Tail(q) \in Seq(Keys) /\ Head(q) = q[1]
  BY HeadTailProperties, EmptySeq
<1>2. Len(Tail(q)) = Len(q) - 1 /\ \A i \in 1..(Len(q) - 1) : Tail(q)[i] = q[i + 1]
  BY <1>1, HeadTailProperties
<1>3. PICK k \in Keys : k = q[1]
  BY <1>1
<1>4. PICK rest \in Seq(Keys) : rest = Tail(q)
  BY <1>1
<1>5. PICK p : p = Put(k, rest)
  OBVIOUS
<1>6. /\ p \in Seq(Keys) /\ Len(p) = Len(rest) + 1 /\ p[1] = k
      /\ \A i \in 1..Len(rest) : p[i + 1] = rest[i]
  BY <1>5, Longer
<1>7. ASSUME NEW i \in 1..Len(q)
      PROVE  p[i] = q[i]
  <2>1. CASE i = 1
    BY <1>3, <1>6, <2>1
  <2>2. CASE i # 1
    <3>1. i - 1 \in 1..(Len(q) - 1) /\ (i - 1) + 1 = i
      BY <1>1, <2>2
    <3>2. PICK j \in 1..(Len(q) - 1) : j + 1 = i
      BY <3>1
    <3>3. p[j + 1] = rest[j] /\ rest[j] = q[j + 1]
      BY <1>2, <1>4, <1>6
    <3>4. QED
      BY <3>2, <3>3
  <2>3. QED
    BY <2>1, <2>2
<1>8. Len(p) = Len(q)
  BY <1>1, <1>2, <1>4, <1>6
<1>9. p = q
  BY <1>6, <1>7, <1>8, SeqEqual
<1>10. QED
  BY <1>5, <1>9

LEMMA KeysOfNode ==
    ASSUME NEW v, DOMAIN v \subseteq Seq(Keys), NEW w \in Seq(Keys), NEW k
    PROVE  k \in KeysAt(v, w) <=> k \in Keys /\ Append(w, k) \in DOMAIN v
<1>1. ASSUME k \in Keys, Append(w, k) \in DOMAIN v
      PROVE  k \in KeysAt(v, w)
  <2>1. PICK way : way = Append(w, k)
    OBVIOUS
  <2>2. /\ way # << >> /\ way[Len(way)] = k /\ Len(way) - 1 = Len(w)
        /\ SubSeq(way, 1, Len(w)) = w /\ way \in DOMAIN v
    BY <1>1, <2>1, Further
  <2>3. way \in {u \in DOMAIN v : u # << >> /\ SubSeq(u, 1, Len(u) - 1) = w}
    BY <2>2
  <2>4. QED
    BY <2>2, <2>3 DEF KeysAt
<1>2. ASSUME k \in KeysAt(v, w)
      PROVE  k \in Keys /\ Append(w, k) \in DOMAIN v
  <2>1. PICK u \in DOMAIN v : u # << >> /\ SubSeq(u, 1, Len(u) - 1) = w /\ k = u[Len(u)]
    BY <1>2 DEF KeysAt
  <2>2. u \in Seq(Keys) /\ Len(u) \in Nat \ {0}
    BY <2>1, EmptySeq
  <2>3. k \in Keys
    BY <2>1, <2>2
  <2>4. Len(w) = Len(u) - 1 /\ \A i \in 1..(Len(u) - 1) : w[i] = u[i]
    BY <2>1, <2>2
  <2>5. PICK way : way = Append(w, k)
    OBVIOUS
  <2>6. /\ way \in Seq(Keys) /\ Len(way) = Len(w) + 1 /\ way[Len(w) + 1] = k
        /\ \A i \in 1..Len(w) : way[i] = w[i]
    BY <2>3, <2>5, Further
  <2>7. ASSUME NEW i \in 1..Len(u)
        PROVE  way[i] = u[i]
    BY <2>1, <2>2, <2>4, <2>6
  <2>8. way = u
    BY <2>2, <2>4, <2>6, <2>7, SeqEqual
  <2>9. QED
    BY <2>3, <2>5, <2>8
<1>3. QED
  BY <1>1, <1>2

\* What there is from a node on.
From(d, w) == [q \in {q \in Seq(Keys) : Join(w, q) \in DOMAIN d} |-> d[Join(w, q)]]

\* The nodes on the way to a node are containers, and its keys fit them.
LEMMA OnTheWay ==
    ASSUME NEW d, Tidy(d, 0), NEW w \in Seq(Keys), NEW k \in Keys, NEW rest \in Seq(Keys),
           Join(w, Put(k, rest)) \in DOMAIN d
    PROVE  /\ w \in DOMAIN d /\ d[w] \notin Leaves
           /\ Append(w, k) \in DOMAIN d
           /\ d[w] = Form("proxy") => k.type = "str"
<1>1. /\ Put(k, rest) \in Seq(Keys) /\ Len(Put(k, rest)) = Len(rest) + 1 /\ Len(rest) \in Nat
      /\ Put(k, rest)[1] = k
  BY Longer
<1>2. PICK way : way = Join(w, Put(k, rest))
  OBVIOUS
<1>3. PICK a : a = Append(w, k)
  OBVIOUS
<1>4. /\ a \in Seq(Keys) /\ Len(a) = Len(w) + 1 /\ Len(w) \in Nat
      /\ a[Len(w) + 1] = k /\ \A i \in 1..Len(w) : a[i] = w[i]
  BY <1>3, Further
<1>5. /\ way \in Seq(Keys) /\ Len(way) = (Len(w) + 1) + Len(rest)
      /\ \A i \in 1..(Len(w) + 1) : way[i] = a[i]
  <2>1. way = Join(a, rest)
    BY <1>2, <1>3, JoinPut
  <2>2. /\ way \in Seq(Keys) /\ Len(way) = Len(a) + Len(rest)
        /\ \A i \in 1..Len(a) : way[i] = a[i]
    BY <1>4, <2>1, Joined
  <2>3. QED
    BY <1>4, <2>2
<1>6. way \in DOMAIN d /\ TidyWay(d, 0, way)
  BY <1>2 DEF Tidy
<1>7. SubSeq(way, 1, Len(w)) = w
  <2>1. /\ SubSeq(way, 1, Len(w)) \in Seq(Keys) /\ Len(SubSeq(way, 1, Len(w))) = Len(w)
        /\ \A i \in 1..Len(w) : SubSeq(way, 1, Len(w))[i] = way[i]
    BY <1>1, <1>4, <1>5
  <2>2. \A i \in 1..Len(w) : way[i] = w[i]
    BY <1>4, <1>5
  <2>3. QED
    BY <2>1, <2>2, SeqEqual
<1>8. SubSeq(way, 1, Len(w) + 1) = a
  <2>1. /\ SubSeq(way, 1, Len(w) + 1) \in Seq(Keys)
        /\ Len(SubSeq(way, 1, Len(w) + 1)) = Len(w) + 1
        /\ \A i \in 1..(Len(w) + 1) : SubSeq(way, 1, Len(w) + 1)[i] = way[i]
    BY <1>1, <1>4, <1>5
  <2>2. QED
    BY <1>4, <1>5, <2>1, SeqEqual
<1>9. /\ w \in DOMAIN d /\ d[w] \notin Leaves
      /\ d[w] = Form("proxy") => k.type = "str"
  <2>1. Len(w) + 1 \in 1..Len(way) /\ (Len(w) + 1) - 1 = Len(w)
    BY <1>1, <1>4, <1>5
  <2>2. way[Len(w) + 1] = k
    BY <1>4, <1>5
  <2>3. QED
    BY <1>6, <1>7, <2>1, <2>2 DEF TidyWay
<1>10. a \in DOMAIN d
  <2>1. CASE Len(rest) = 0
    <3>1. Len(way) = Len(w) + 1
      BY <1>4, <1>5, <2>1
    <3>2. way = a
      BY <1>4, <1>5, <3>1, SeqEqual
    <3>3. QED
      BY <1>6, <3>2
  <2>2. CASE Len(rest) # 0
    <3>1. Len(w) + 2 \in 1..Len(way) /\ (Len(w) + 2) - 1 = Len(w) + 1
      BY <1>1, <1>4, <1>5, <2>2
    <3>2. QED
      BY <1>6, <1>8, <3>1 DEF TidyWay
  <2>3. QED
    BY <2>1, <2>2
<1>11. QED
  BY <1>3, <1>9, <1>10

\* A scalar has nothing inside.
LEMMA FromLeaf ==
    ASSUME NEW d, Tidy(d, 0), NEW w \in DOMAIN d, d[w] \in Leaves
    PROVE  From(d, w) = [way \in {<< >>} |-> d[w]]
<1>1. w \in Seq(Keys)
  BY DEF Tidy
<1>2. Join(w, << >>) = w /\ << >> \in Seq(Keys)
  BY <1>1, JoinEmpty
<1>3. ASSUME NEW q \in Seq(Keys), Join(w, q) \in DOMAIN d, q # << >>
      PROVE  FALSE
  <2>1. PICK k \in Keys : \E rest \in Seq(Keys) : q = Put(k, rest)
    BY <1>3, StartsWithAKey
  <2>2. PICK rest \in Seq(Keys) : q = Put(k, rest)
    BY <2>1
  <2>3. d[w] \notin Leaves
    BY <1>1, <1>3, <2>2, OnTheWay
  <2>4. QED
    BY <2>3
<1>4. {q \in Seq(Keys) : Join(w, q) \in DOMAIN d} = {<< >>}
  BY <1>2, <1>3
<1>5. QED
  BY <1>2, <1>4 DEF From

\* A container holds what goes on from each of its keys.
LEMMA FromContainer ==
    ASSUME NEW d, Tidy(d, 0), NEW w \in DOMAIN d, NEW form, d[w] = Form(form),
           NEW items, \A k : k \in DOMAIN items <=> k \in Keys /\ Append(w, k) \in DOMAIN d,
           \A k \in DOMAIN items : items[k].tree = From(d, Append(w, k))
    PROVE  Tree(form, items) = From(d, w)
<1>1. w \in Seq(Keys)
  BY DEF Tidy
<1>2. ASSUME NEW k \in DOMAIN items
      PROVE  /\ k \in Keys /\ DOMAIN items[k].tree \subseteq Seq(Keys)
             /\ \A rest \in Seq(Keys) :
                  /\ rest \in DOMAIN items[k].tree <=> Join(w, Put(k, rest)) \in DOMAIN d
                  /\ rest \in DOMAIN items[k].tree =>
                       items[k].tree[rest] = d[Join(w, Put(k, rest))]
  <2>1. k \in Keys /\ items[k].tree = From(d, Append(w, k))
    OBVIOUS
  <2>2. \A rest \in Seq(Keys) : Join(Append(w, k), rest) = Join(w, Put(k, rest))
    BY <1>1, <2>1, JoinPut
  <2>3. QED
    BY <2>1, <2>2 DEF From
<1>3. PICK t : t = Tree(form, items)
  OBVIOUS
<1>4. /\ t = [q \in DOMAIN t |-> t[q]] /\ DOMAIN t \subseteq Seq(Keys)
      /\ << >> \in DOMAIN t /\ t[<< >>] = Form(form)
  <2>1. DOMAIN items \subseteq Keys /\ \A k \in DOMAIN items : DOMAIN items[k].tree \subseteq Seq(Keys)
    BY <1>2
  <2>2. QED
    BY <1>3, <2>1, TreeWays
<1>5. ASSUME NEW k \in DOMAIN items, NEW rest \in Seq(Keys)
      PROVE  /\ Put(k, rest) \in DOMAIN t <=> rest \in DOMAIN items[k].tree
             /\ rest \in DOMAIN items[k].tree => t[Put(k, rest)] = items[k].tree[rest]
  <2>1. DOMAIN items \subseteq Keys /\ \A l \in DOMAIN items : DOMAIN items[l].tree \subseteq Seq(Keys)
    BY <1>2
  <2>2. QED
    BY <1>3, <2>1, TreeWays
<1>6. ASSUME NEW q \in DOMAIN t
      PROVE  q = << >> \/ \E k \in DOMAIN items : \E rest \in DOMAIN items[k].tree : q = Put(k, rest)
  <2>1. DOMAIN items \subseteq Keys /\ \A l \in DOMAIN items : DOMAIN items[l].tree \subseteq Seq(Keys)
    BY <1>2
  <2>2. QED
    BY <1>3, <2>1, TreeWays
<1>7. << >> \in Seq(Keys) /\ Join(w, << >>) = w
  BY <1>1, JoinEmpty
<1>8. ASSUME NEW q \in Seq(Keys)
      PROVE  /\ q \in DOMAIN t <=> Join(w, q) \in DOMAIN d
             /\ q \in DOMAIN t => t[q] = d[Join(w, q)]
  <2>1. CASE q = << >>
    BY <1>4, <1>7, <2>1
  <2>2. CASE q # << >>
    <3>1. PICK k \in Keys : \E rest \in Seq(Keys) : q = Put(k, rest)
      BY <2>2, StartsWithAKey
    <3>2. PICK rest \in Seq(Keys) : q = Put(k, rest)
      BY <3>1
    <3>3. ASSUME k \in DOMAIN items
          PROVE  /\ q \in DOMAIN t <=> Join(w, q) \in DOMAIN d
                 /\ q \in DOMAIN t => t[q] = d[Join(w, q)]
      BY <1>2, <1>5, <3>2, <3>3
    <3>4. ASSUME Join(w, q) \in DOMAIN d
          PROVE  k \in DOMAIN items
      <4>1. Append(w, k) \in DOMAIN d
        BY <1>1, <3>2, <3>4, OnTheWay
      <4>2. QED
        BY <4>1
    <3>5. ASSUME q \in DOMAIN t
          PROVE  k \in DOMAIN items
      <4>1. PICK l \in DOMAIN items : \E other \in DOMAIN items[l].tree : q = Put(l, other)
        BY <1>6, <2>2, <3>5
      <4>2. PICK other \in DOMAIN items[l].tree : q = Put(l, other)
        BY <4>1
      <4>3. l \in Keys /\ other \in Seq(Keys)
        BY <1>2
      <4>4. q[1] = k /\ q[1] = l
        <5>1. Put(k, rest)[1] = k
          BY Longer
        <5>2. Put(l, other)[1] = l
          BY <4>3, Longer
        <5>3. QED
          BY <3>2, <4>2, <5>1, <5>2
      <4>5. QED
        BY <4>4
    <3>6. QED
      BY <3>3, <3>4, <3>5
  <2>3. QED
    BY <2>1, <2>2
<1>9. PICK f : f = From(d, w)
  OBVIOUS
<1>10. /\ f = [q \in DOMAIN f |-> f[q]] /\ DOMAIN f = {q \in Seq(Keys) : Join(w, q) \in DOMAIN d}
       /\ \A q \in DOMAIN f : f[q] = d[Join(w, q)]
  BY <1>9 DEF From
<1>11. DOMAIN t = DOMAIN f
  BY <1>4, <1>8, <1>10
<1>12. \A q \in DOMAIN t : t[q] = f[q]
  BY <1>4, <1>8, <1>10, <1>11
<1>13. t = f
  BY <1>4, <1>10, <1>11, <1>12
<1>14. QED
  BY <1>3, <1>9, <1>13

\* What json.loads made of the text of a draft is frozen to that draft again, from
\* every node on.
LEMMA ReadFrom ==
    ASSUME NEW d, Tidy(d, 0), NEW v, v = Loads(CanonicalJson(d)),
           NEW h, h = Laid(v)
    PROVE  \A depth \in Nat : \A w \in DOMAIN d :
             Len(w) = depth => Freeze(h)[depth][At(v, w)] = [tree |-> From(d, w)]
<1> DEFINE P == {depth \in Nat : \A w \in DOMAIN d :
                  Len(w) = depth => Freeze(h)[depth][At(v, w)] = [tree |-> From(d, w)]}
<1>0. MaxDepth \in Nat /\ DOMAIN d \subseteq Seq(Keys)
  BY MetadataAssumption DEF Tidy
<1>1. v = [w \in DOMAIN d |-> CASE d[w] \in Leaves -> d[w]
                               [] d[w] = Form("tuple") -> Form("list")
                               [] OTHER -> Form("dict")]
  BY TextOf
<1>2. DOMAIN v = DOMAIN d
  BY <1>1
<1>3. ASSUME NEW w \in DOMAIN d
      PROVE  /\ d[w] \in Leaves => v[w] = d[w] /\ JsonLeaf(d[w])
             /\ d[w] \notin Leaves =>
                  /\ Len(w) + 1 <= MaxDepth /\ v[w] \notin Leaves
                  /\ \/ d[w] = Form("tuple") /\ v[w] = Form("list")
                     \/ d[w] = Form("proxy") /\ v[w] = Form("dict")
  <2>1. TidyWay(d, 0, w) /\ Len(w) \in Nat
    BY <1>0 DEF Tidy
  <2>2. /\ d[w] \in Leaves => JsonLeaf(d[w])
        /\ d[w] \notin Leaves =>
             d[w] \in {Form("tuple"), Form("proxy")} /\ Len(w) + 1 <= MaxDepth
    BY <2>1 DEF TidyWay
  <2>3. Form("tuple") # Form("proxy")
    BY FormsDiffer
  <2>4. Form("list") \notin Leaves /\ Form("dict") \notin Leaves
    BY FormIsNoLeaf
  <2>5. /\ d[w] \in Leaves => v[w] = d[w]
        /\ d[w] \notin Leaves /\ d[w] = Form("tuple") => v[w] = Form("list")
        /\ d[w] \notin Leaves /\ d[w] # Form("tuple") => v[w] = Form("dict")
    <3>1. Form("tuple") \notin Leaves
      BY FormIsNoLeaf
    <3>2. QED
      BY <1>1, <3>1
  <2>6. QED
    BY <2>2, <2>3, <2>4, <2>5
<1>4. \A w : [at |-> w] \notin Leaves /\ [at |-> w].at = w
  <2>1. \A leaf \in Leaves : "type" \in DOMAIN leaf
    BY MetadataAssumption
  <2>2. \A w : "type" \notin DOMAIN [at |-> w]
    OBVIOUS
  <2>3. QED
    BY <2>1, <2>2
<1>5. ASSUME NEW w \in DOMAIN d, v[w] \notin Leaves
      PROVE  /\ [at |-> w] \in DOMAIN h /\ h[[at |-> w]].form = v[w].form
             /\ h[[at |-> w]].items = [k \in KeysAt(v, w) |-> At(v, Append(w, k))]
  <2> DEFINE node(ref) == [form |-> v[ref.at].form,
                           items |-> [k \in KeysAt(v, ref.at) |-> At(v, Append(ref.at, k))]]
             refs == {[at |-> way] : way \in {u \in DOMAIN v : v[u] \notin Leaves}}
  <2>1. h = [ref \in refs |-> node(ref)]
    BY DEF Laid
  <2>2. [at |-> w] \in refs
    BY <1>2, <1>5
  <2>3. node([at |-> w]) = [form |-> v[w].form,
                            items |-> [k \in KeysAt(v, w) |-> At(v, Append(w, k))]]
    BY <1>4
  <2> HIDE DEF refs, node
  <2>4. [at |-> w] \in DOMAIN h /\ h[[at |-> w]] = node([at |-> w])
    BY <2>1, <2>2
  <2>5. QED
    BY <2>3, <2>4
<1>6. ASSUME NEW depth \in Nat, depth < MaxDepth => depth + 1 \in P
      PROVE  depth \in P
  <2> SUFFICES ASSUME NEW w \in DOMAIN d, Len(w) = depth
               PROVE  Freeze(h)[depth][At(v, w)] = [tree |-> From(d, w)]
    OBVIOUS
  <2>1. Freeze(h)[depth] = Frozen(h, depth, Freeze(h)[depth + 1])
    BY FreezeRecursion
  <2>2. CASE d[w] \in Leaves
    <3>1. At(v, w) = d[w] /\ JsonLeaf(d[w])
      BY <1>3, <2>2 DEF At
    <3>2. Freeze(h)[depth][d[w]] = FreezeStep(h, d[w], depth, Freeze(h)[depth + 1])
      BY <2>1, <2>2 DEF Frozen
    <3>3. FreezeStep(h, d[w], depth, Freeze(h)[depth + 1]) = [tree |-> [way \in {<< >>} |-> d[w]]]
      BY <2>2, <3>1, FreezeLeaf
    <3>4. From(d, w) = [way \in {<< >>} |-> d[w]]
      BY <2>2, FromLeaf
    <3>5. QED
      BY <3>1, <3>2, <3>3, <3>4
  <2>3. CASE d[w] \notin Leaves
    <3>1. /\ Len(w) + 1 <= MaxDepth /\ v[w] \notin Leaves
          /\ \/ d[w] = Form("tuple") /\ v[w] = Form("list")
             \/ d[w] = Form("proxy") /\ v[w] = Form("dict")
      BY <1>3, <2>3
    <3>2. PICK x : x = [at |-> w]
      OBVIOUS
    <3>3. /\ x \in DOMAIN h /\ x \notin Leaves /\ At(v, w) = x
          /\ h[x].form = v[w].form
          /\ h[x].items = [k \in KeysAt(v, w) |-> At(v, Append(w, k))]
      BY <1>4, <1>5, <3>1, <3>2 DEF At
    <3>4. PICK items : items = [k \in DOMAIN h[x].items |-> Freeze(h)[depth + 1][h[x].items[k]]]
      OBVIOUS
    <3>5. depth + 1 \in P /\ DepthAllowed(depth)
      BY <1>0, <1>6, <3>1 DEF DepthAllowed
    <3>6. w \in Seq(Keys) /\ DOMAIN v \subseteq Seq(Keys)
      BY <1>0, <1>2
    <3>7. \A k : k \in DOMAIN items <=> k \in Keys /\ Append(w, k) \in DOMAIN d
      <4>1. DOMAIN items = KeysAt(v, w)
        BY <3>3, <3>4
      <4>2. QED
        BY <1>2, <3>6, <4>1, KeysOfNode
    <3>8. ASSUME NEW k \in DOMAIN items
          PROVE  items[k] = [tree |-> From(d, Append(w, k))]
      <4>1. k \in Keys /\ Append(w, k) \in DOMAIN d
        BY <3>7
      <4>2. Len(Append(w, k)) = depth + 1
        BY <3>6, <4>1, Further
      <4>3. items[k] = Freeze(h)[depth + 1][At(v, Append(w, k))]
        BY <3>3, <3>4
      <4>4. PICK u \in DOMAIN d : u = Append(w, k)
        BY <4>1
      <4>5. Freeze(h)[depth + 1][At(v, u)] = [tree |-> From(d, u)]
        BY <3>5, <4>2, <4>4
      <4>6. QED
        BY <4>3, <4>4, <4>5
    <3>9. \A k \in DOMAIN items : items[k].tree = From(d, Append(w, k)) /\ items[k] # Invalid
      BY <3>8, TreeIsValid
    <3>10. AllValid(items)
      BY <3>9 DEF AllValid
    <3>11. \/ d[w] = Form("tuple") /\ h[x].form = "list"
           \/ d[w] = Form("proxy") /\ h[x].form = "dict"
      BY <3>1, <3>3 DEF Form
    <3>12. h[x].form \in Mapping => TextKeys(h[x].items)
      <4>1. ASSUME NEW k \in DOMAIN items, d[w] = Form("proxy")
            PROVE  k.type = "str"
        <5>1. k \in Keys /\ Append(w, k) \in DOMAIN d
          BY <3>7
        <5>2. PICK rest \in Seq(Keys) : rest = << >>
          <6>1. << >> \in Seq(Keys)
            OBVIOUS
          <6>2. QED
            BY <6>1
        <5>3. Join(w, Put(k, rest)) \in DOMAIN d
          <6>1. Join(w, Put(k, rest)) = Join(Append(w, k), rest)
            BY <3>6, <5>1, JoinPut
          <6>2. Append(w, k) \in Seq(Keys)
            BY <3>6, <5>1, Further
          <6>3. Join(Append(w, k), rest) = Append(w, k)
            BY <5>2, <6>2, JoinEmpty
          <6>4. QED
            BY <5>1, <6>1, <6>3
        <5>4. Tidy(d, 0) /\ w \in Seq(Keys) /\ k \in Keys /\ d[w] = Form("proxy")
          BY <3>6, <4>1, <5>1
        <5>5. QED
          BY <5>3, <5>4, OnTheWay
      <4>2. "list" \notin Mapping
        BY DEF Mapping
      <4>3. DOMAIN items = DOMAIN h[x].items
        BY <3>4
      <4>4. QED
        BY <3>11, <4>1, <4>2, <4>3 DEF TextKeys
    <3>13. PICK form : form = IF h[x].form = "list" THEN "tuple" ELSE "proxy"
      OBVIOUS
    <3>14. d[w] = Form(form)
      BY <3>11, <3>13
    <3>15. Freeze(h)[depth][x] = [tree |-> Tree(form, items)]
      <4>1. Freeze(h)[depth][x] = FreezeStep(h, x, depth, Freeze(h)[depth + 1])
        BY <2>1, <3>3 DEF Frozen
      <4>2. h[x].form \in Sequential \cup Mapping /\ h[x].form # "tuple"
        BY <3>11 DEF Sequential, Mapping
      <4>3. FreezeStep(h, x, depth, Freeze(h)[depth + 1]) = [tree |-> Tree(form, items)]
        BY <3>3, <3>4, <3>5, <3>10, <3>12, <3>13, <4>2, FreezeContainer
      <4>4. QED
        BY <4>1, <4>3
    <3>16. Tree(form, items) = From(d, w)
      BY <3>7, <3>9, <3>14, FromContainer
    <3>17. QED
      BY <3>3, <3>15, <3>16
  <2>4. QED
    BY <2>2, <2>3
<1>7. \A depth \in Nat : depth \in P
  <2> HIDE DEF P
  <2>1. P \subseteq Nat
    BY DEF P
  <2>2. QED
    BY <1>6, <2>1, Deeper
<1>8. QED
  BY <1>7

\* The whole draft, then.
LEMMA ReadBack ==
    ASSUME NEW d, Tidy(d, 0), NEW v, v = Loads(CanonicalJson(d)), d[<< >>] = Form("proxy")
    PROVE  FreezeJson(Laid(v), [at |-> << >>]) = [tree |-> d]
<1>1. << >> \in DOMAIN d /\ DOMAIN d \subseteq Seq(Keys) /\ d = [w \in DOMAIN d |-> d[w]]
  BY DEF Tidy
<1>2. Form("proxy") \notin Leaves /\ Form("dict") \notin Leaves /\ Form("proxy") # Form("tuple")
  BY FormIsNoLeaf, FormsDiffer
<1>3. v[<< >>] = Form("dict")
  BY <1>1, <1>2, TextOf
<1>4. At(v, << >>) = [at |-> << >>]
  BY <1>2, <1>3 DEF At
<1>5. From(d, << >>) = d
  <2>1. \A q \in Seq(Keys) : Join(<< >>, q) = q
    BY JoinEmpty
  <2>2. {q \in Seq(Keys) : Join(<< >>, q) \in DOMAIN d} = DOMAIN d
    BY <1>1, <2>1
  <2>3. From(d, << >>) = [q \in DOMAIN d |-> d[q]]
    BY <1>1, <2>1, <2>2 DEF From
  <2>4. QED
    BY <1>1, <2>3
<1>6. Freeze(Laid(v))[0][At(v, << >>)] = [tree |-> From(d, << >>)]
  <2>1. PICK w \in DOMAIN d : w = << >>
    BY <1>1
  <2>2. Len(w) = 0
    BY <2>1
  <2>3. Freeze(Laid(v))[0][At(v, w)] = [tree |-> From(d, w)]
    BY <2>2, ReadFrom
  <2>4. QED
    BY <2>1, <2>3
<1>7. QED
  BY <1>4, <1>5, <1>6 DEF FreezeJson

-----------------------------------------------------------------------------
(* The draft and the text in the database.                                 *)

\* What _freeze_metadata returns: a tidy object whose text is not too long.
Acceptable(t) ==
    Tidy(t, 0) /\ t[<< >>] = Form("proxy") /\ Utf8Length(CanonicalJson(t)) <= MaxBytes

LEMMA Accepted ==
    ASSUME NEW h, WellFormed(h), NEW x \in DOMAIN h, FreezeMetadata(h, x) # Invalid
    PROVE  \E t : FreezeMetadata(h, x) = [tree |-> t] /\ Acceptable(t)
<1>1. PICK r : r = Freeze(h)[0][x]
  OBVIOUS
<1>2. /\ h[x].form \in Mapping /\ r # Invalid /\ FreezeMetadata(h, x) = r
      /\ Utf8Length(CanonicalJson(r.tree)) <= MaxBytes
  BY <1>1 DEF FreezeMetadata, FreezeJson
<1>3. r = [tree |-> r.tree] /\ Tidy(r.tree, 0) /\ r.tree[<< >>] = Form("proxy")
  <2>1. 0 \in Nat /\ x \in DOMAIN h \cup Leaves
    OBVIOUS
  <2>2. QED
    BY <1>1, <1>2, <2>1, FreezeTidy
<1>4. QED
  BY <1>2, <1>3 DEF Acceptable

\* The reader accepts the text of every draft, and makes the same of it.
LEMMA Receipt ==
    ASSUME NEW t, Acceptable(t)
    PROVE  ReceiptMetadata(CanonicalJson(t)) = [tree |-> t]
<1>1. PICK text : text = CanonicalJson(t)
  OBVIOUS
<1>2. PICK v : v = Loads(text)
  OBVIOUS
<1>3. CanonicalJson(v) = text
  BY <1>1, <1>2, TextOf DEF Acceptable
<1>4. FreezeJson(Laid(v), [at |-> << >>]) = [tree |-> t]
  BY <1>1, <1>2, ReadBack DEF Acceptable
<1>5. v[<< >>] = Form("dict")
  <2>1. << >> \in DOMAIN t /\ t[<< >>] = Form("proxy")
    BY DEF Acceptable, Tidy
  <2>2. Form("proxy") \notin Leaves /\ Form("proxy") # Form("tuple")
    BY FormIsNoLeaf, FormsDiffer
  <2>3. QED
    BY <1>1, <1>2, <2>1, <2>2, TextOf DEF Acceptable
<1>6. Laid(v)[[at |-> << >>]].form = "dict"
  <2> DEFINE node(ref) == [form |-> v[ref.at].form,
                           items |-> [k \in KeysAt(v, ref.at) |-> At(v, Append(ref.at, k))]]
             refs == {[at |-> way] : way \in {u \in DOMAIN v : v[u] \notin Leaves}}
  <2>1. Laid(v) = [ref \in refs |-> node(ref)]
    BY DEF Laid
  <2>2. << >> \in DOMAIN v /\ Form("dict") \notin Leaves
    <3>1. << >> \in DOMAIN t
      BY DEF Acceptable, Tidy
    <3>2. DOMAIN v = DOMAIN t
      BY <1>1, <1>2, TextOf DEF Acceptable
    <3>3. QED
      BY <3>1, <3>2, FormIsNoLeaf
  <2>3. [at |-> << >>] \in refs
    BY <1>5, <2>2
  <2>4. node([at |-> << >>]).form = v[<< >>].form
    OBVIOUS
  <2> HIDE DEF refs, node
  <2>5. Laid(v)[[at |-> << >>]] = node([at |-> << >>])
    BY <2>1, <2>3
  <2>6. Form("dict").form = "dict"
    BY DEF Form
  <2>7. QED
    BY <1>5, <2>4, <2>5, <2>6
<1>7. FreezeMetadata(Laid(v), [at |-> << >>]) = [tree |-> t]
  <2>1. "dict" \in Mapping
    BY DEF Mapping
  <2>2. Utf8Length(CanonicalJson([tree |-> t].tree)) <= MaxBytes
    BY TreeIsValid DEF Acceptable
  <2>3. QED
    BY <1>4, <1>6, <2>1, <2>2, TreeIsValid DEF FreezeMetadata
<1>8. ReceiptMetadata(text) = FreezeMetadata(Laid(v), [at |-> << >>])
  BY <1>2, <1>3, <1>5 DEF ReceiptMetadata
<1>9. QED
  BY <1>1, <1>7, <1>8

\* A draft equals itself.
LEMMA EqualToItself == \A t : PyEqual(t, t)
BY DEF PyEqual, SameScalar

\* No draft is a view, no text is empty.
LEMMA Shown ==
    ASSUME NEW h, NEW t, Acceptable(t)
    PROVE  Look(h, [tree |-> t]) = [tree |-> t] /\ CanonicalJson(t) # NoText
<1>1. "view" \notin DOMAIN [tree |-> t]
  OBVIOUS
<1>2. Look(h, [tree |-> t]) = [tree |-> t]
  BY <1>1 DEF Look
<1>3. << >> \in DOMAIN CanonicalJson(t)
  BY TextOf DEF Acceptable, Tidy
<1>4. << >> \notin DOMAIN NoText
  BY DEF NoText
<1>5. QED
  BY <1>2, <1>3, <1>4

-----------------------------------------------------------------------------
(* The invariant.                                                          *)

\* The host's containers are containers; the draft, if there is one, is acceptable;
\* the text is that of an acceptable draft, and of this one unless it is newer.
MetadataInv ==
    /\ DOMAIN heap = Objects /\ \A o \in Objects : IsContainer(heap[o])
    /\ draft = Invalid \/ \E t : draft = [tree |-> t] /\ Acceptable(t)
    /\ stored = NoText \/ \E t : stored = CanonicalJson(t) /\ Acceptable(t)
    /\ retry => draft # Invalid /\ stored = CanonicalJson(draft.tree)

LEMMA HeapWellFormed ==
    ASSUME DOMAIN heap = Objects, \A o \in Objects : IsContainer(heap[o])
    PROVE  WellFormed(heap)
<1>1. Objects \cap Leaves = {}
  BY MetadataAssumption
<1>2. ASSUME NEW x \in Objects
      PROVE  /\ heap[x].form \in Sequential \cup Mapping
             /\ DOMAIN heap[x].items \subseteq Keys
             /\ \A k \in DOMAIN heap[x].items :
                  /\ heap[x].items[k] \in Objects \cup Leaves
                  /\ IsPosition(k) <=> heap[x].form \in Sequential
  BY DEF IsContainer
<1>3. QED
  BY <1>1, <1>2 DEF WellFormed

\* What ingest_event makes of a draft.
LEMMA Outcomes ==
    ASSUME MetadataInv, NEW t, draft = [tree |-> t], Acceptable(t)
    PROVE  /\ stored = NoText => IngestOutcome(heap, stored, draft) = "created"
           /\ stored # NoText =>
                IngestOutcome(heap, stored, draft) \in {"replayed", "IdempotencyConflict"}
           /\ stored = CanonicalJson(t) => IngestOutcome(heap, stored, draft) = "replayed"
<1>1. Look(heap, draft) = [tree |-> t] /\ CanonicalJson(t) # NoText
  BY Shown
<1>2. [tree |-> t] # Invalid /\ [tree |-> t].tree = t
  BY TreeIsValid
<1>3. ReceiptMetadata(CanonicalJson(t)) = [tree |-> t]
  BY Receipt
<1> DEFINE asked == IF ReceiptMetadata(CanonicalJson(t)) = Invalid
                    THEN "RepositoryCorruption" ELSE "created"
           again == CASE ReceiptMetadata(stored) = Invalid -> "RepositoryCorruption"
                      [] PyEqual(ReceiptMetadata(stored).tree, t) -> "replayed"
                      [] OTHER -> "IdempotencyConflict"
<1>4. /\ stored = NoText => IngestOutcome(heap, stored, draft) = asked
      /\ stored # NoText => IngestOutcome(heap, stored, draft) = again
  BY <1>1, <1>2 DEF IngestOutcome
<1>5. asked = "created"
  BY <1>2, <1>3
<1>6. ASSUME stored # NoText
      PROVE  /\ again \in {"replayed", "IdempotencyConflict"}
             /\ stored = CanonicalJson(t) => again = "replayed"
  <2>1. PICK s : stored = CanonicalJson(s) /\ Acceptable(s)
    BY <1>6 DEF MetadataInv
  <2>2. ReceiptMetadata(stored) = [tree |-> s]
    BY <2>1, Receipt
  <2>3. ReceiptMetadata(stored) # Invalid
    BY <2>2, TreeIsValid
  <2>4. again \in {"replayed", "IdempotencyConflict"}
    BY <2>3
  <2>5. ASSUME stored = CanonicalJson(t)
        PROVE  again = "replayed"
    <3>1. ReceiptMetadata(stored).tree = t
      BY <1>2, <1>3, <2>5
    <3>2. QED
      BY <2>3, <3>1, EqualToItself
  <2>6. QED
    BY <2>4, <2>5
<1> HIDE DEF asked, again
<1>7. QED
  BY <1>1, <1>4, <1>5, <1>6

LEMMA MetadataInductive ==
    MetadataInv /\ [MetadataNext]_metadataVars => MetadataInv'
<1> SUFFICES ASSUME MetadataInv, [MetadataNext]_metadataVars
             PROVE  MetadataInv'
  OBVIOUS
<1>1. ASSUME NEW o \in Objects, NEW container \in Containers, Change(o, container)
      PROVE  MetadataInv'
  <2>1. IsContainer(container)
    BY MetadataAssumption
  <2>2. /\ heap' = [heap EXCEPT ![o] = container] /\ draft' = draft /\ stored' = stored
        /\ retry' = retry
    BY <1>1 DEF Change
  <2>3. DOMAIN heap' = Objects /\ \A x \in Objects : IsContainer(heap'[x])
    <3>1. DOMAIN heap = Objects /\ \A x \in Objects : IsContainer(heap[x])
      BY DEF MetadataInv
    <3>2. DOMAIN heap' = Objects /\ \A x \in Objects : heap'[x] = IF x = o THEN container ELSE heap[x]
      BY <2>2, <3>1
    <3>3. QED
      BY <2>1, <3>1, <3>2
  <2>4. QED
    BY <2>2, <2>3 DEF MetadataInv
<1>2. ASSUME Construct
      PROVE  MetadataInv'
  <2>1. PICK frozen : frozen = FreezeMetadata(heap, Root)
    OBVIOUS
  <2>2. /\ draft' = IF frozen = Invalid THEN draft ELSE frozen
        /\ retry' = (retry /\ frozen = Invalid)
        /\ heap' = heap /\ stored' = stored
    BY <1>2, <2>1 DEF Construct
  <2>3. CASE frozen = Invalid
    BY <2>2, <2>3 DEF MetadataInv
  <2>4. CASE frozen # Invalid
    <3>1. WellFormed(heap) /\ Root \in DOMAIN heap
      BY HeapWellFormed, MetadataAssumption DEF MetadataInv
    <3>2. \E t : frozen = [tree |-> t] /\ Acceptable(t)
      BY <2>1, <2>4, <3>1, Accepted
    <3>3. QED
      BY <2>2, <2>4, <3>2 DEF MetadataInv
  <2>5. QED
    BY <2>3, <2>4
<1>3. ASSUME Ingest
      PROVE  MetadataInv'
  <2>1. draft # Invalid /\ heap' = heap /\ draft' = draft
    BY <1>3 DEF Ingest
  <2>2. PICK t : draft = [tree |-> t] /\ Acceptable(t)
    BY <2>1 DEF MetadataInv
  <2>3. Look(heap, draft).tree = t /\ draft.tree = t /\ CanonicalJson(t) # NoText
    BY <2>2, Shown, TreeIsValid
  <2>4. PICK created : created = (IngestOutcome(heap, stored, draft) = "created")
    OBVIOUS
  <2>5. /\ stored' = IF created THEN CanonicalJson(t) ELSE stored
        /\ retry' = (created \/ retry)
    BY <1>3, <2>3, <2>4 DEF Ingest
  <2>6. created <=> stored = NoText
    BY <2>2, <2>4, Outcomes
  <2>7. CASE created
    BY <2>1, <2>2, <2>3, <2>5, <2>7 DEF MetadataInv
  <2>8. CASE ~created
    BY <2>1, <2>5, <2>8 DEF MetadataInv
  <2>9. QED
    BY <2>6, <2>7, <2>8
<1>4. CASE UNCHANGED metadataVars
  BY <1>4 DEF metadataVars, MetadataInv
<1>5. QED
  BY <1>1, <1>2, <1>3, <1>4 DEF MetadataNext

LEMMA MetadataInvariant == MetadataSpec => []MetadataInv
<1>1. MetadataInit => MetadataInv
  <2> SUFFICES ASSUME MetadataInit
               PROVE  MetadataInv
    OBVIOUS
  <2>1. PICK empty : empty = [form |-> "dict", items |-> << >>]
    OBVIOUS
  <2>2. IsContainer(empty)
    <3>1. empty.form = "dict" /\ empty.items = << >> /\ DOMAIN empty.items = {}
      BY <2>1
    <3>2. empty.items \in [DOMAIN empty.items -> Objects \cup Leaves]
      BY <3>1
    <3>3. empty = [form |-> empty.form, items |-> empty.items]
      BY <2>1
    <3>4. empty.form \in Mapping
      BY <3>1 DEF Mapping
    <3>5. QED
      BY <3>1, <3>2, <3>3, <3>4 DEF IsContainer
  <2>3. DOMAIN heap = Objects /\ \A o \in Objects : IsContainer(heap[o])
    BY <2>1, <2>2 DEF MetadataInit
  <2>4. QED
    BY <2>3 DEF MetadataInit, MetadataInv
<1>2. QED
  BY <1>1, MetadataInductive, PTL DEF MetadataSpec

\* Whatever the host nests in the metadata it passes, and however it changes that
\* afterwards: the constructor accepts nothing that the reader of the database
\* would refuse, and the draft that was stored is recognized when ingest_event is
\* called with it again.
THEOREM RetriesRecognized == MetadataSpec => []RetryRecognized
<1>1. MetadataInv => RetryRecognized
  <2> SUFFICES ASSUME MetadataInv, draft # Invalid
               PROVE  /\ IngestOutcome(heap, stored, draft) # "RepositoryCorruption"
                      /\ retry => IngestOutcome(heap, stored, draft) = "replayed"
    BY DEF RetryRecognized
  <2>1. PICK t : draft = [tree |-> t] /\ Acceptable(t)
    BY DEF MetadataInv
  <2>2. /\ stored = NoText => IngestOutcome(heap, stored, draft) = "created"
        /\ stored # NoText =>
             IngestOutcome(heap, stored, draft) \in {"replayed", "IdempotencyConflict"}
        /\ stored = CanonicalJson(t) => IngestOutcome(heap, stored, draft) = "replayed"
    BY <2>1, Outcomes
  <2>3. retry => stored = CanonicalJson(t)
    BY <2>1, TreeIsValid DEF MetadataInv
  <2>4. QED
    BY <2>2, <2>3
<1>2. QED
  BY <1>1, MetadataInvariant, PTL

-----------------------------------------------------------------------------
(* What is accepted.                                                       *)

\* The ways from a container to one inside, through n containers.
Chain(x, n) ==
    {way \in [1..n -> Objects] :
        way[1] = x /\ \A i \in 1..(n - 1) : way[i + 1] \in Items(way[i])}

LEMMA ChainOfOne ==
    ASSUME NEW x \in Objects
    PROVE  /\ \E way \in Chain(x, 1) : way[1] = x
           /\ \A way \in Chain(x, 1) : way[1] = x
<1>1. PICK way : way = [i \in 1..1 |-> x]
  OBVIOUS
<1>2. way \in [1..1 -> Objects] /\ way[1] = x
  BY <1>1
<1>3. 1..(1 - 1) = {}
  OBVIOUS
<1>4. way \in Chain(x, 1)
  BY <1>2, <1>3 DEF Chain
<1>5. QED
  BY <1>2, <1>4 DEF Chain

\* A longer way goes through an item ...
LEMMA ChainTail ==
    ASSUME NEW x \in Objects, NEW n \in Nat \ {0}, NEW way \in Chain(x, n + 1)
    PROVE  \E y \in Items(x) \cap Objects : \E rest \in Chain(y, n) : rest[n] = way[n + 1]
<1>1. /\ way \in [1..(n + 1) -> Objects] /\ way[1] = x
      /\ \A i \in 1..n : way[i + 1] \in Items(way[i])
  <2>1. (n + 1) - 1 = n
    OBVIOUS
  <2>2. QED
    BY <2>1 DEF Chain
<1>2. PICK rest : rest = [i \in 1..n |-> way[i + 1]]
  OBVIOUS
<1>3. PICK y : y = way[2]
  OBVIOUS
<1>4. 1 \in 1..n /\ n \in 1..n /\ 1 + 1 = 2 /\ 2 \in 1..(n + 1)
  OBVIOUS
<1>5. y \in Items(x) \cap Objects
  BY <1>1, <1>3, <1>4
<1>6. rest \in [1..n -> Objects]
  <2>1. \A i \in 1..n : i + 1 \in 1..(n + 1)
    OBVIOUS
  <2>2. QED
    BY <1>1, <1>2, <2>1
<1>7. rest[1] = y /\ rest[n] = way[n + 1]
  BY <1>2, <1>3, <1>4
<1>8. ASSUME NEW i \in 1..(n - 1)
      PROVE  rest[i + 1] \in Items(rest[i])
  <2>1. i \in 1..n /\ i + 1 \in 1..n
    OBVIOUS
  <2>2. QED
    BY <1>1, <1>2, <2>1
<1>9. rest \in Chain(y, n)
  BY <1>6, <1>7, <1>8 DEF Chain
<1>10. QED
  BY <1>5, <1>7, <1>9

\* ... and through any.
LEMMA ChainCons ==
    ASSUME NEW x \in Objects, NEW n \in Nat \ {0},
           NEW y \in Items(x) \cap Objects, NEW rest \in Chain(y, n)
    PROVE  \E way \in Chain(x, n + 1) : way[n + 1] = rest[n]
<1>1. /\ rest \in [1..n -> Objects] /\ rest[1] = y
      /\ \A i \in 1..(n - 1) : rest[i + 1] \in Items(rest[i])
  BY DEF Chain
<1>2. PICK way : way = [i \in 1..(n + 1) |-> IF i = 1 THEN x ELSE rest[i - 1]]
  OBVIOUS
<1>3. ASSUME NEW i \in 1..n
      PROVE  way[i + 1] = rest[i]
  <2>1. i + 1 \in 1..(n + 1) /\ i + 1 # 1 /\ (i + 1) - 1 = i
    OBVIOUS
  <2>2. QED
    BY <1>2, <2>1
<1>4. 1 \in 1..(n + 1) /\ way[1] = x /\ 1 \in 1..n /\ n \in 1..n /\ (n + 1) - 1 = n
  BY <1>2
<1>5. way \in [1..(n + 1) -> Objects]
  <2>1. \A i \in 1..(n + 1) : i # 1 => i - 1 \in 1..n
    OBVIOUS
  <2>2. QED
    BY <1>1, <1>2, <2>1
<1>6. ASSUME NEW i \in 1..n
      PROVE  way[i + 1] \in Items(way[i])
  <2>1. CASE i = 1
    BY <1>1, <1>3, <1>4, <2>1
  <2>2. CASE i # 1
    <3>1. PICK j \in 1..(n - 1) : i = j + 1
      <4>1. i - 1 \in 1..(n - 1) /\ i = (i - 1) + 1
        BY <2>2
      <4>2. QED
        BY <4>1
    <3>2. j \in 1..n /\ j + 1 \in 1..n
      OBVIOUS
    <3>3. way[i] = rest[j] /\ way[i + 1] = rest[j + 1]
      BY <1>3, <3>1, <3>2
    <3>4. QED
      BY <1>1, <3>3
  <2>3. QED
    BY <2>1, <2>2
<1>7. way \in Chain(x, n + 1)
  BY <1>4, <1>5, <1>6 DEF Chain
<1>8. QED
  BY <1>3, <1>4, <1>7

\* With n levels left below it, a container and what it holds are documented.
Fine(x, n) ==
    /\ Chain(x, n + 1) = {}
    /\ \A m \in 1..n : \A way \in Chain(x, m) : Documented(way[m])

\* That is so of no container when no level is left, ...
LEMMA FineNowhere ==
    ASSUME NEW x \in Objects
    PROVE  ~Fine(x, 0)
<1>1. 0 + 1 = 1
  OBVIOUS
<1>2. QED
  BY <1>1, ChainOfOne DEF Fine

\* ... and otherwise of one that is documented and holds only such containers.
LEMMA FineInside ==
    ASSUME NEW x \in Objects, NEW n \in Nat
    PROVE  Fine(x, n + 1) <=> Documented(x) /\ \A y \in Items(x) \cap Objects : Fine(y, n)
<1>1. ASSUME Fine(x, n + 1)
      PROVE  Documented(x) /\ \A y \in Items(x) \cap Objects : Fine(y, n)
  <2>1. /\ Chain(x, (n + 1) + 1) = {}
        /\ \A m \in 1..(n + 1) : \A way \in Chain(x, m) : Documented(way[m])
    BY <1>1 DEF Fine
  <2>2. Documented(x)
    <3>1. 1 \in 1..(n + 1)
      OBVIOUS
    <3>2. PICK way \in Chain(x, 1) : way[1] = x
      BY ChainOfOne
    <3>3. QED
      BY <2>1, <3>1, <3>2
  <2>3. ASSUME NEW y \in Items(x) \cap Objects
        PROVE  Fine(y, n)
    <3>1. Chain(y, n + 1) = {}
      <4>1. ASSUME NEW rest \in Chain(y, n + 1)
            PROVE  FALSE
        <5>1. \E way \in Chain(x, (n + 1) + 1) : way[(n + 1) + 1] = rest[n + 1]
          BY ChainCons
        <5>2. QED
          BY <2>1, <5>1
      <4>2. QED
        BY <4>1
    <3>2. ASSUME NEW m \in 1..n, NEW rest \in Chain(y, m)
          PROVE  Documented(rest[m])
      <4>1. PICK way \in Chain(x, m + 1) : way[m + 1] = rest[m]
        <5>1. m \in Nat \ {0}
          OBVIOUS
        <5>2. QED
          BY <5>1, ChainCons
      <4>2. m + 1 \in 1..(n + 1)
        OBVIOUS
      <4>3. QED
        BY <2>1, <4>1, <4>2
    <3>3. QED
      BY <3>1, <3>2 DEF Fine
  <2>4. QED
    BY <2>2, <2>3
<1>2. ASSUME Documented(x), \A y \in Items(x) \cap Objects : Fine(y, n)
      PROVE  Fine(x, n + 1)
  <2>1. \A y \in Items(x) \cap Objects :
            /\ Chain(y, n + 1) = {}
            /\ \A m \in 1..n : \A way \in Chain(y, m) : Documented(way[m])
    BY <1>2 DEF Fine
  <2>2. Chain(x, (n + 1) + 1) = {}
    <3>1. ASSUME NEW way \in Chain(x, (n + 1) + 1)
          PROVE  FALSE
      <4>1. PICK y \in Items(x) \cap Objects :
                     \E rest \in Chain(y, n + 1) : rest[n + 1] = way[(n + 1) + 1]
        <5>1. n + 1 \in Nat \ {0}
          OBVIOUS
        <5>2. QED
          BY <5>1, ChainTail
      <4>2. QED
        BY <2>1, <4>1
    <3>2. QED
      BY <3>1
  <2>3. ASSUME NEW m \in 1..(n + 1), NEW way \in Chain(x, m)
        PROVE  Documented(way[m])
    <3>1. CASE m = 1
      BY <1>2, <3>1, ChainOfOne
    <3>2. CASE m # 1
      <4>1. PICK j \in 1..n : m = j + 1
        <5>1. m - 1 \in 1..n /\ m = (m - 1) + 1
          BY <3>2
        <5>2. QED
          BY <5>1
      <4>2. PICK y \in Items(x) \cap Objects : \E rest \in Chain(y, j) : rest[j] = way[j + 1]
        <5>1. j \in Nat \ {0} /\ way \in Chain(x, j + 1)
          BY <4>1
        <5>2. QED
          BY <5>1, ChainTail
      <4>3. QED
        BY <2>1, <4>1, <4>2
    <3>3. QED
      BY <3>1, <3>2
  <2>4. QED
    BY <2>2, <2>3 DEF Fine
<1>3. QED
  BY <1>1, <1>2

\* A container that is not too deep is frozen if it is documented and every container
\* in it is frozen.
LEMMA FrozenInside ==
    ASSUME MetadataInv, NEW d \in Nat, NEW x \in Objects
    PROVE  Freeze(heap)[d][x] # Invalid <=>
             /\ DepthAllowed(d) /\ Documented(x)
             /\ \A y \in Items(x) \cap Objects : Freeze(heap)[d + 1][y] # Invalid
<1>1. DOMAIN heap = Objects /\ WellFormed(heap) /\ Objects \cap Leaves = {}
  BY HeapWellFormed, MetadataAssumption DEF MetadataInv
<1>2. /\ x \notin Leaves /\ heap[x].form \in Sequential \cup Mapping
      /\ \A k \in DOMAIN heap[x].items : heap[x].items[k] \in Objects \cup Leaves
  BY <1>1 DEF WellFormed
<1>3. PICK items : items = [k \in DOMAIN heap[x].items |-> Freeze(heap)[d + 1][heap[x].items[k]]]
  OBVIOUS
<1>4. Freeze(heap)[d][x] # Invalid <=>
        /\ heap[x].form # "tuple" /\ DepthAllowed(d)
        /\ heap[x].form \in Mapping => TextKeys(heap[x].items)
        /\ AllValid(items)
  <2>1. PICK t : t = Tree(IF heap[x].form = "list" THEN "tuple" ELSE "proxy", items)
    OBVIOUS
  <2>2. FreezeStep(heap, x, d, Freeze(heap)[d + 1]) =
            IF /\ heap[x].form # "tuple" /\ DepthAllowed(d)
               /\ heap[x].form \in Mapping => TextKeys(heap[x].items)
               /\ AllValid(items)
            THEN [tree |-> t] ELSE Invalid
    BY <1>2, <1>3, <2>1, FreezeContainer
  <2>3. Freeze(heap)[d][x] = FreezeStep(heap, x, d, Freeze(heap)[d + 1])
    <3>1. Freeze(heap)[d] = Frozen(heap, d, Freeze(heap)[d + 1])
      BY FreezeRecursion
    <3>2. QED
      BY <1>1, <3>1 DEF Frozen
  <2>4. [tree |-> t] # Invalid
    BY TreeIsValid
  <2>5. QED
    BY <2>2, <2>3, <2>4
<1>5. ASSUME NEW leaf \in Leaves
      PROVE  Freeze(heap)[d + 1][leaf] # Invalid <=> JsonLeaf(leaf)
  <2>1. Freeze(heap)[d + 1] = Frozen(heap, d + 1, Freeze(heap)[(d + 1) + 1])
    BY FreezeRecursion
  <2>2. Freeze(heap)[d + 1][leaf] = FreezeStep(heap, leaf, d + 1, Freeze(heap)[(d + 1) + 1])
    BY <2>1 DEF Frozen
  <2>3. QED
    BY <2>2, FreezeLeaf, TreeIsValid
<1>6. \A y : y \in Items(x) <=> \E k \in DOMAIN heap[x].items : y = heap[x].items[k]
  BY DEF Items, Range
<1>7. AllValid(items) <=>
        /\ \A leaf \in Items(x) \cap Leaves : JsonLeaf(leaf)
        /\ \A y \in Items(x) \cap Objects : Freeze(heap)[d + 1][y] # Invalid
  <2>1. AllValid(items) <=> \A y \in Items(x) : Freeze(heap)[d + 1][y] # Invalid
    BY <1>3, <1>6 DEF AllValid
  <2>2. \A y \in Items(x) : y \in Objects \cup Leaves
    BY <1>2, <1>6
  <2>3. QED
    BY <1>5, <2>1, <2>2
<1>8. QED
  BY <1>4, <1>7 DEF Documented

LEMMA FrozenIffFine ==
    ASSUME MetadataInv
    PROVE  \A d \in Nat : d <= MaxDepth => \A x \in Objects :
             Freeze(heap)[d][x] # Invalid <=> Fine(x, MaxDepth - d)
<1> DEFINE P == {d \in Nat : d <= MaxDepth => \A x \in Objects :
                               Freeze(heap)[d][x] # Invalid <=> Fine(x, MaxDepth - d)}
<1>0. MaxDepth \in Nat
  BY MetadataAssumption
<1>1. ASSUME NEW d \in Nat, d < MaxDepth => d + 1 \in P
      PROVE  d \in P
  <2> SUFFICES ASSUME d <= MaxDepth, NEW x \in Objects
               PROVE  Freeze(heap)[d][x] # Invalid <=> Fine(x, MaxDepth - d)
    OBVIOUS
  <2>1. Freeze(heap)[d][x] # Invalid <=>
          /\ DepthAllowed(d) /\ Documented(x)
          /\ \A y \in Items(x) \cap Objects : Freeze(heap)[d + 1][y] # Invalid
    <3> HIDE DEF P
    <3>1. QED
      BY FrozenInside
  <2>2. CASE d = MaxDepth
    <3>1. ~DepthAllowed(d) /\ MaxDepth - d = 0
      BY <1>0, <2>2 DEF DepthAllowed
    <3>2. QED
      BY <2>1, <3>1, FineNowhere
  <2>3. CASE d < MaxDepth
    <3>1. PICK n \in Nat : MaxDepth - d = n + 1 /\ MaxDepth - (d + 1) = n
      <4>1. /\ MaxDepth - (d + 1) \in Nat
            /\ MaxDepth - d = (MaxDepth - (d + 1)) + 1
        BY <1>0, <2>3
      <4>2. QED
        BY <4>1
    <3>2. DepthAllowed(d) /\ d + 1 <= MaxDepth
      BY <1>0, <2>3 DEF DepthAllowed
    <3>3. \A y \in Objects : Freeze(heap)[d + 1][y] # Invalid <=> Fine(y, n)
      BY <1>1, <2>3, <3>1, <3>2
    <3>4. Fine(x, n + 1) <=> Documented(x) /\ \A y \in Items(x) \cap Objects : Fine(y, n)
      BY FineInside
    <3>5. QED
      BY <2>1, <3>1, <3>2, <3>3, <3>4
  <2>4. QED
    BY <1>0, <2>2, <2>3
<1>2. \A d \in Nat : d \in P
  <2> HIDE DEF P
  <2>1. P \subseteq Nat
    BY DEF P
  <2>2. QED
    BY <1>1, <2>1, Deeper
<1>3. QED
  BY <1>2

\* However the host's lists and dictionaries are nested, in themselves too, the
\* constructor accepts exactly the JSON objects that the documentation allows.
THEOREM AcceptsDocumented == MetadataSpec => []AcceptedExactly
<1>1. MetadataInv => AcceptedExactly
  <2> SUFFICES ASSUME MetadataInv
               PROVE  AcceptedExactly
    OBVIOUS
  <2>1. Root \in Objects /\ MaxDepth \in Nat
    BY MetadataAssumption
  <2>2. \A n : Ways(n) = Chain(Root, n)
    BY DEF Ways, Chain
  <2>3. Reached = UNION {{way[n] : way \in Chain(Root, n)} : n \in 1..MaxDepth}
    BY <2>2 DEF Reached
  <2>4. (\A o \in Reached : Documented(o)) <=>
          \A n \in 1..MaxDepth : \A way \in Chain(Root, n) : Documented(way[n])
    <3> DEFINE ends(n) == {way[n] : way \in Chain(Root, n)}
    <3>1. \A n : (\A o \in ends(n) : Documented(o)) <=>
                  \A way \in Chain(Root, n) : Documented(way[n])
      OBVIOUS
    <3>2. Reached = UNION {ends(n) : n \in 1..MaxDepth}
      BY <2>3
    <3> HIDE DEF ends
    <3>3. \A o : o \in Reached <=> \E n \in 1..MaxDepth : o \in ends(n)
      BY <3>2
    <3>4. QED
      BY <3>1, <3>3
  <2>5. FreezeJson(heap, Root) # Invalid <=> Fine(Root, MaxDepth)
    <3>1. 0 <= MaxDepth /\ MaxDepth - 0 = MaxDepth
      BY <2>1
    <3>2. QED
      BY <2>1, <3>1, FrozenIffFine DEF FreezeJson
  <2>6. Fine(Root, MaxDepth) <=>
          Ways(MaxDepth + 1) = {} /\ \A o \in Reached : Documented(o)
    BY <2>2, <2>4 DEF Fine
  <2>7. FreezeMetadata(heap, Root) # Invalid <=>
          /\ heap[Root].form \in Mapping /\ FreezeJson(heap, Root) # Invalid
          /\ Utf8Length(CanonicalJson(FreezeJson(heap, Root).tree)) <= MaxBytes
    BY DEF FreezeMetadata
  <2>8. QED
    BY <2>5, <2>6, <2>7 DEF AcceptedExactly
<1>2. QED
  BY <1>1, MetadataInvariant, PTL
=============================================================================
