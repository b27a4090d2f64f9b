---------------------------- MODULE TextsProofs -----------------------------
(***************************************************************************)
(* Lemmas about texts and about the folds that the tools' loops are modelled *)
(* as.  An operator that is a fold of the community modules is a choice of a *)
(* recursive function on the sets of places of a sequence.  The induction  *)
(* that shows what it computes is that over natural numbers, which follows *)
(* from their being well-founded, for a set of numbers and not for a       *)
(* predicate.  An operator is first given as a fold of a function of pairs *)
(* (XFold); what that does on the empty sequence and behind Append (XSteps) *)
(* is what the other lemmas are proved from, by induction over sequences.  *)
(***************************************************************************)
EXTENDS Texts, WellFoundedInduction, SequenceTheorems, TLAPS

\* A set of natural numbers that is not empty has a least element.
LEMMA LeastNatural ==
    ASSUME NEW T \in SUBSET Nat, T # {}
    PROVE  \E n \in T : \A m \in T : n <= m
<1>1. PICK x \in T : \A y \in T : ~(<<y, x>> \in OpToRel(<, Nat))
  BY NatLessThanWellFounded, WFMin
<1>2. ASSUME NEW a \in Nat, NEW b \in Nat, a < b PROVE <<a, b>> \in OpToRel(<, Nat)
  BY <1>2 DEF OpToRel
<1>3. \A y \in T : ~(y < x)
  BY <1>1, <1>2, Zenon
<1> QED
  BY <1>3

\* Induction over the natural numbers, for a set of them.
LEMMA Inductive ==
    ASSUME NEW S, 0 \in S, \A n \in Nat : n \in S => n + 1 \in S
    PROVE  Nat \subseteq S
<1> SUFFICES ASSUME Nat \ S # {} PROVE FALSE
  OBVIOUS
<1>1. PICK n \in Nat \ S : \A m \in Nat \ S : n <= m
  BY LeastNatural
<1>2. n # 0 /\ n - 1 \in Nat /\ n - 1 < n
  BY <1>1
<1>3. n - 1 \in S
  BY <1>1, <1>2
<1>4. n - 1 + 1 = n
  BY <1>1
<1> QED
  BY <1>1, <1>2, <1>3, <1>4

\* A bounded one has a greatest element.
LEMMA GreatestNatural ==
    ASSUME NEW n \in Nat, NEW T \in SUBSET (0..n), T # {}
    PROVE  \E m \in T : \A k \in T : k <= m
<1> DEFINE U == {k \in Nat : n - k \in T}
<1>1. U # {}
  <2>1. PICK k \in T : TRUE
    OBVIOUS
  <2>2. n - k \in Nat /\ n - (n - k) = k
    OBVIOUS
  <2> QED
    BY <2>1, <2>2
<1>2. PICK l \in U : \A k \in U : l <= k
  <2>1. U \in SUBSET Nat
    OBVIOUS
  <2> HIDE DEF U
  <2> QED
    BY <1>1, <2>1, LeastNatural
<1>3. n - l \in T
  BY <1>2
<1>4. ASSUME NEW k \in T PROVE k <= n - l
  <2>1. n - k \in Nat /\ n - (n - k) = k
    OBVIOUS
  <2>2. n - k \in U
    BY <2>1
  <2> QED
    BY <1>2, <2>1, <2>2
<1> QED
  BY <1>3, <1>4

\* Max of the community modules is that element.
LEMMA MaxIsGreatest ==
    ASSUME NEW n \in Nat, NEW s \in SUBSET (0..n), s # {}
    PROVE  Max(s) \in s /\ \A k \in s : k <= Max(s)
<1>1. \E m \in s : \A k \in s : k <= m
  BY GreatestNatural
<1>2. \E m \in s : \A k \in s : m >= k
  BY <1>1
<1>3. Max(s) \in s /\ \A k \in s : Max(s) >= k
  BY <1>2 DEF Max
<1> QED
  BY <1>3

\* The greatest place of a set of places, and the places below it.
LEMMA Topmost ==
    ASSUME NEW n \in Nat, NEW s \in SUBSET (1..n), s # {}
    PROVE  /\ Max(s) \in 1..n /\ Max(s) \in s /\ \A k \in s : k <= Max(s)
           /\ s \ {Max(s)} \in SUBSET (1..n) /\ s \ {Max(s)} \in SUBSET (1..Max(s) - 1)
<1>1. s \in SUBSET (0..n)
  OBVIOUS
<1>2. Max(s) \in s /\ \A k \in s : k <= Max(s)
  BY <1>1, MaxIsGreatest
<1>3. ASSUME NEW i \in s, i # Max(s) PROVE i \in 1..Max(s) - 1
  <2>1. Max(s) \in 1..n /\ i \in 1..n /\ i <= Max(s)
    BY <1>2
  <2> QED
    BY <1>3, <2>1
<1> QED
  BY <1>2, <1>3
-----------------------------------------------------------------------------
(***************************************************************************)
(* Folds.                                                                  *)
(***************************************************************************)
\* FoldLeft goes through the sets of places of a sequence, greatest place first.
Folding(g, op, base, seq, n) ==
    \A s \in SUBSET (1..n) :
        g[s] = IF s = {} THEN base ELSE op[<<g[s \ {Max(s)}], seq[Max(s)]>>]

\* A fold over elements of C that gathers a value of V.
IsFold(V, C, base, op) == base \in V /\ op \in [V \X C -> V]

\* A fold has a value: the recursion through the sets of places can be carried out.
LEMMA FoldExists ==
    ASSUME NEW V, NEW C, NEW base, NEW op, IsFold(V, C, base, op), NEW seq \in Seq(C)
    PROVE  \E g \in [SUBSET (1..Len(seq)) -> V] : Folding(g, op, base, seq, Len(seq))
<1> USE DEF IsFold
<1> DEFINE Done == {k \in Nat : k <= Len(seq) =>
                       \E g \in [SUBSET (1..k) -> V] : Folding(g, op, base, seq, k)}
<1>1. 0 \in Done
  <2> DEFINE g == [s \in SUBSET (1..0) |-> base]
  <2>1. 1..0 = {}
    OBVIOUS
  <2>2. g \in [SUBSET (1..0) -> V] /\ Folding(g, op, base, seq, 0)
    BY <2>1 DEF Folding
  <2> QED
    BY <2>2
<1>2. ASSUME NEW k \in Nat, k \in Done PROVE k + 1 \in Done
  <2>0. k + 1 \in Nat
    OBVIOUS
  <2> SUFFICES ASSUME k + 1 <= Len(seq)
               PROVE  \E g \in [SUBSET (1..k + 1) -> V] : Folding(g, op, base, seq, k + 1)
    BY <2>0
  <2>1. PICK g \in [SUBSET (1..k) -> V] : Folding(g, op, base, seq, k)
    <3>1. k <= Len(seq)
      OBVIOUS
    <3> QED
      BY <1>2, <3>1
  <2> DEFINE h == [s \in SUBSET (1..k + 1) |->
                     IF k + 1 \in s THEN op[<<g[s \ {k + 1}], seq[k + 1]>>] ELSE g[s]]
  <2>2. \A s \in SUBSET (1..k + 1) : s \ {k + 1} \in SUBSET (1..k)
                                     /\ (k + 1 \notin s => s \in SUBSET (1..k))
    OBVIOUS
  <2>3. h \in [SUBSET (1..k + 1) -> V]
    <3>1. seq[k + 1] \in C
      OBVIOUS
    <3>2. \A v \in V : op[<<v, seq[k + 1]>>] \in V
      BY <3>1
    <3> QED
      BY <2>2, <3>2
  <2>4. ASSUME NEW s \in SUBSET (1..k + 1), s # {}
        PROVE  h[s] = op[<<h[s \ {Max(s)}], seq[Max(s)]>>]
    <3>1. Max(s) \in 1..k + 1 /\ Max(s) \in s /\ \A i \in s : i <= Max(s)
      BY <2>0, <2>4, Topmost
    <3>2. CASE k + 1 \in s
      <4>1. Max(s) = k + 1
        <5>1. Max(s) \in 1..k + 1 /\ k + 1 <= Max(s)
          BY <3>1, <3>2
        <5> QED
          BY <5>1
      <4>2. h[s \ {k + 1}] = g[s \ {k + 1}]
        BY <2>2
      <4> QED
        BY <3>2, <4>1, <4>2
    <3>3. CASE k + 1 \notin s
      <4>1. s \in SUBSET (1..k) /\ s \ {Max(s)} \in SUBSET (1..k) /\ k + 1 \notin s \ {Max(s)}
        BY <2>2, <3>3
      <4>2. h[s] = g[s] /\ h[s \ {Max(s)}] = g[s \ {Max(s)}]
        BY <3>3, <4>1
      <4>3. g[s] = op[<<g[s \ {Max(s)}], seq[Max(s)]>>]
        BY <2>1, <2>4, <4>1 DEF Folding
      <4> QED
        BY <4>2, <4>3
    <3> QED
      BY <3>2, <3>3
  <2>5. h[{}] = base
    <3>1. {} \in SUBSET (1..k) /\ {} \in SUBSET (1..k + 1)
      OBVIOUS
    <3> QED
      BY <2>1, <3>1 DEF Folding
  <2> HIDE DEF h
  <2>6. Folding(h, op, base, seq, k + 1)
    BY <2>4, <2>5 DEF Folding
  <2> QED
    BY <2>3, <2>6
<1> HIDE DEF Done
<1>3. Len(seq) \in Done /\ Len(seq) <= Len(seq)
  BY <1>1, <1>2, Inductive
<1> QED
  BY <1>3 DEF Done

\* Two recursions over sets of places that take the same steps.
Agree(g, h, n) ==
    /\ g[{}] = h[{}]
    /\ \A s \in SUBSET (1..n) : s # {} /\ g[s \ {Max(s)}] = h[s \ {Max(s)}] => g[s] = h[s]

\* They have the same values.
Equal(g, h, n) == \A s \in SUBSET (1..n) : g[s] = h[s]

\* Then they are one: the recursion determines its values.
LEMMA FoldUnique ==
    ASSUME NEW n \in Nat, NEW g, NEW h, Agree(g, h, n)
    PROVE  Equal(g, h, n)
<1> USE DEF Agree, Equal
<1> DEFINE Same == {k \in Nat : k <= n => \A s \in SUBSET (1..k) : g[s] = h[s]}
<1>1. 0 \in Same
  <2>1. 1..0 = {}
    OBVIOUS
  <2> QED
    BY <2>1
<1>2. ASSUME NEW k \in Nat, k \in Same PROVE k + 1 \in Same
  <2>0. k + 1 \in Nat /\ (k + 1 <= n => k <= n)
    OBVIOUS
  <2> SUFFICES ASSUME k + 1 <= n, NEW s \in SUBSET (1..k + 1) PROVE g[s] = h[s]
    BY <2>0
  <2>1. CASE s = {}
    BY <2>1
  <2>2. CASE s # {}
    <3>1. s \in SUBSET (1..n)
      OBVIOUS
    <3>2. Max(s) \in 1..k + 1 /\ s \ {Max(s)} \in SUBSET (1..Max(s) - 1)
      BY <2>0, <2>2, Topmost
    <3>3. s \ {Max(s)} \in SUBSET (1..k)
      BY <3>2
    <3>4. g[s \ {Max(s)}] = h[s \ {Max(s)}]
      BY <1>2, <2>0, <3>3
    <3> QED
      BY <2>2, <3>1, <3>4
  <2> QED
    BY <2>1, <2>2
<1> HIDE DEF Same
<1>3. n \in Same /\ n <= n
  BY <1>1, <1>2, Inductive
<1> QED
  BY <1>3 DEF Same

\* A fold, with the operation given as a function of pairs.
Folded(op, base, seq) ==
    CHOOSE v : \E g : Folding(g, op, base, seq, Len(seq)) /\ v = g[1..Len(seq)]

\* h takes the steps of the fold, of values in V.
Steps(h, op, base, seq, V) ==
    /\ h[{}] = base
    /\ \A s \in SUBSET (1..Len(seq)) :
          s # {} /\ h[s \ {Max(s)}] \in V => h[s] = op[<<h[s \ {Max(s)}], seq[Max(s)]>>]

\* Whatever takes the steps of a fold has its value.
LEMMA FoldValue ==
    ASSUME NEW V, NEW C, NEW base, NEW op, IsFold(V, C, base, op), NEW seq \in Seq(C), NEW h,
           Steps(h, op, base, seq, V)
    PROVE  h[1..Len(seq)] = Folded(op, base, seq)
<1>1. PICK g \in [SUBSET (1..Len(seq)) -> V] : Folding(g, op, base, seq, Len(seq))
  BY FoldExists
<1>0. Len(seq) \in Nat /\ 1..Len(seq) \in SUBSET (1..Len(seq))
  OBVIOUS
<1>2. ASSUME NEW f, Steps(f, op, base, seq, V)
      PROVE  Equal(g, f, Len(seq))
  <2>1. g[{}] = f[{}]
    BY <1>1, <1>2 DEF Folding, Steps
  <2>2. ASSUME NEW s \in SUBSET (1..Len(seq)), s # {}, g[s \ {Max(s)}] = f[s \ {Max(s)}]
        PROVE  g[s] = f[s]
    <3>1. s \ {Max(s)} \in SUBSET (1..Len(seq))
      OBVIOUS
    <3>2. g[s] = op[<<g[s \ {Max(s)}], seq[Max(s)]>>]
      BY <1>1, <2>2 DEF Folding
    <3> QED
      BY <1>2, <2>2, <3>1, <3>2 DEF Steps
  <2>3. Agree(g, f, Len(seq))
    BY <2>1, <2>2 DEF Agree
  <2> QED
    BY <1>0, <2>3, FoldUnique
<1>5. \E v : \E f : Folding(f, op, base, seq, Len(seq)) /\ v = f[1..Len(seq)]
  BY <1>1
<1>6. PICK f : Folding(f, op, base, seq, Len(seq)) /\ Folded(op, base, seq) = f[1..Len(seq)]
  BY <1>5 DEF Folded
<1>7. Steps(f, op, base, seq, V)
  BY <1>6 DEF Folding, Steps
<1>8. Equal(g, h, Len(seq)) /\ Equal(g, f, Len(seq))
  BY <1>2, <1>7
<1> QED
  BY <1>0, <1>1, <1>6, <1>8 DEF Equal

\* The value of a fold has the type its operation keeps.
LEMMA FoldedType ==
    ASSUME NEW V, NEW C, NEW base, NEW op, IsFold(V, C, base, op), NEW seq \in Seq(C)
    PROVE  Folded(op, base, seq) \in V
<1>1. PICK g \in [SUBSET (1..Len(seq)) -> V] : Folding(g, op, base, seq, Len(seq))
  BY FoldExists
<1>2. Steps(g, op, base, seq, V)
  BY <1>1 DEF Folding, Steps
<1>3. g[1..Len(seq)] = Folded(op, base, seq)
  BY <1>2, FoldValue
<1> QED
  BY <1>3

\* The fold of nothing is its base.
LEMMA FoldedEmpty ==
    ASSUME NEW V, NEW C, NEW base, NEW op, IsFold(V, C, base, op)
    PROVE  Folded(op, base, <<>>) = base
<1>0. PICK seq \in Seq(C) : seq = <<>>
  BY EmptySeq
<1>1. PICK g \in [SUBSET (1..Len(seq)) -> V] : Folding(g, op, base, seq, Len(seq))
  BY FoldExists
<1>2. Steps(g, op, base, seq, V)
  BY <1>1 DEF Folding, Steps
<1>3. g[1..Len(seq)] = Folded(op, base, seq)
  BY <1>2, FoldValue
<1>4. 1..Len(seq) = {}
  BY <1>0
<1> QED
  BY <1>0, <1>2, <1>3, <1>4 DEF Steps

\* The fold of a longer sequence is a step from that of the shorter one.
LEMMA FoldedAppend ==
    ASSUME NEW V, NEW C, NEW base, NEW op, IsFold(V, C, base, op), NEW seq \in Seq(C), NEW c \in C
    PROVE  Folded(op, base, Append(seq, c)) = op[<<Folded(op, base, seq), c>>]
<1>0. PICK more \in Seq(C) : more = Append(seq, c)
  BY AppendProperties
<1>1. PICK g \in [SUBSET (1..Len(more)) -> V] : Folding(g, op, base, more, Len(more))
  BY FoldExists
<1>2. Len(more) = Len(seq) + 1 /\ Len(seq) \in Nat /\ Len(more) \in Nat
      /\ more[Len(more)] = c /\ \A k \in 1..Len(seq) : more[k] = seq[k]
  BY <1>0
<1>3. Steps(g, op, base, more, V)
  BY <1>1 DEF Folding, Steps
<1>4. g[1..Len(more)] = Folded(op, base, more)
  BY <1>3, FoldValue
<1>5. Steps(g, op, base, seq, V)
  <2>1. ASSUME NEW s \in SUBSET (1..Len(seq)), s # {}
        PROVE  g[s] = op[<<g[s \ {Max(s)}], seq[Max(s)]>>]
    <3>1. Max(s) \in 1..Len(seq)
      BY <1>2, <2>1, Topmost
    <3>2. s \in SUBSET (1..Len(more))
      BY <1>2
    <3> QED
      BY <1>1, <1>2, <2>1, <3>1, <3>2 DEF Folding
  <2> QED
    BY <1>3, <2>1 DEF Steps
<1>6. g[1..Len(seq)] = Folded(op, base, seq)
  BY <1>5, FoldValue
<1>7. Max(1..Len(more)) = Len(more) /\ (1..Len(more)) \ {Len(more)} = 1..Len(seq)
  <2>1. 1..Len(more) \in SUBSET (1..Len(more)) /\ Len(more) \in 1..Len(more)
    BY <1>2
  <2>2. PICK s \in SUBSET (1..Len(more)) : s = 1..Len(more)
    BY <2>1
  <2>3. Max(s) \in 1..Len(more) /\ \A k \in s : k <= Max(s)
    BY <1>2, <2>1, <2>2, Topmost
  <2>4. Max(s) = Len(more)
    BY <1>2, <2>1, <2>2, <2>3
  <2> QED
    BY <1>2, <2>2, <2>4
<1>8. g[1..Len(more)] = op[<<g[1..Len(seq)], c>>]
  <2>1. 1..Len(more) \in SUBSET (1..Len(more)) /\ 1..Len(more) # {}
    BY <1>2
  <2> QED
    BY <1>1, <1>2, <1>7, <2>1 DEF Folding
<1> QED
  BY <1>0, <1>4, <1>6, <1>8

\* Induction over the sequences on C, for a set of them.
LEMMA SeqInductive ==
    ASSUME NEW C, NEW S, <<>> \in S,
           \A seq \in Seq(C) : \A c \in C : seq \in S => Append(seq, c) \in S
    PROVE  Seq(C) \subseteq S
<1> DEFINE Lengths == {n \in Nat : \A seq \in Seq(C) : Len(seq) = n => seq \in S}
<1>1. 0 \in Lengths
  BY EmptySeq
<1>2. ASSUME NEW n \in Nat, n \in Lengths PROVE n + 1 \in Lengths
  <2>0. n + 1 \in Nat
    OBVIOUS
  <2> SUFFICES ASSUME NEW seq \in Seq(C), Len(seq) = n + 1 PROVE seq \in S
    BY <2>0
  <2> DEFINE front == SubSeq(seq, 1, n)
  <2>1. front \in Seq(C) /\ Len(front) = n /\ seq[n + 1] \in C
    OBVIOUS
  <2>2. seq = Append(front, seq[n + 1])
    OBVIOUS
  <2> QED
    BY <1>2, <2>1, <2>2
<1> HIDE DEF Lengths
<1>3. Nat \subseteq Lengths
  BY <1>1, <1>2, Inductive
<1> QED
  BY <1>3 DEF Lengths
-----------------------------------------------------------------------------
(***************************************************************************)
(* The bytes of a text, and picking from a sequence.                       *)
(***************************************************************************)
\* Bytes, as a fold.
Counting(C) == [p \in Nat \X C |-> p[1] + Width(p[2])]

\* Adding a width keeps a natural number.
LEMMA CountingIsOp ==
    ASSUME NEW C PROVE IsFold(Nat, C, 0, Counting(C))
  BY DEF Counting, IsFold, Width

\* Bytes is that fold.
LEMMA BytesFold ==
    ASSUME NEW C, NEW text \in Seq(C)
    PROVE  Bytes(text) = Folded(Counting(C), 0, text)
<1> DEFINE Rec(h) == h = [s \in SUBSET DOMAIN text |->
                            IF s = {} THEN 0 ELSE h[s \ {Max(s)}] + Width(text[Max(s)])]
<1>0. IsFold(Nat, C, 0, Counting(C))
  BY CountingIsOp
<1>1. PICK g \in [SUBSET (1..Len(text)) -> Nat] : Folding(g, Counting(C), 0, text, Len(text))
  BY <1>0, FoldExists
<1>2. DOMAIN text = 1..Len(text) /\ Len(text) \in Nat
  OBVIOUS
<1>3. \A s \in SUBSET (1..Len(text)) : s # {} =>
          text[Max(s)] \in C /\ s \ {Max(s)} \in SUBSET (1..Len(text))
  BY <1>2, Topmost
<1>4. Rec(g)
  BY <1>1, <1>2, <1>3 DEF Folding, Counting
<1>5. Bytes(text) = (CHOOSE h : Rec(h))[DOMAIN text]
  BY DEF Bytes, FoldLeft, MapThenFoldSet
<1>6. PICK h : Rec(h) /\ Bytes(text) = h[1..Len(text)]
  BY <1>2, <1>4, <1>5
<1>7. Steps(h, Counting(C), 0, text, Nat)
  BY <1>2, <1>3, <1>6 DEF Steps, Counting
<1> HIDE DEF Rec
<1>8. h[1..Len(text)] = Folded(Counting(C), 0, text)
  BY <1>0, <1>7, FoldValue
<1> QED
  BY <1>6, <1>8

\* A text takes no bytes when it is empty, and those of its characters otherwise.
LEMMA BytesSteps ==
    /\ Bytes(<<>>) = 0
    /\ \A C : \A text \in Seq(C) :
          /\ Bytes(text) \in Nat
          /\ \A char \in C : Bytes(Append(text, char)) = Bytes(text) + Width(char)
<1>1. ASSUME NEW C, NEW text \in Seq(C)
      PROVE  /\ Bytes(text) \in Nat
             /\ \A char \in C : Bytes(Append(text, char)) = Bytes(text) + Width(char)
  <2>0. IsFold(Nat, C, 0, Counting(C))
    BY CountingIsOp
  <2>1. Bytes(text) \in Nat /\ Bytes(text) = Folded(Counting(C), 0, text)
    BY <2>0, BytesFold, FoldedType
  <2>2. ASSUME NEW char \in C PROVE Bytes(Append(text, char)) = Bytes(text) + Width(char)
    <3>1. PICK more \in Seq(C) : more = Append(text, char)
      BY AppendProperties
    <3>2. Folded(Counting(C), 0, Append(text, char)) = Counting(C)[<<Folded(Counting(C), 0, text), char>>]
      BY <2>0, FoldedAppend
    <3>3. Bytes(more) = Folded(Counting(C), 0, more)
      BY BytesFold
    <3> QED
      BY <2>1, <3>1, <3>2, <3>3 DEF Counting
  <2> QED
    BY <2>1, <2>2
<1>2. Bytes(<<>>) = 0
  <2>1. <<>> \in Seq({}) /\ IsFold(Nat, {}, 0, Counting({}))
    BY EmptySeq, CountingIsOp
  <2> QED
    BY <2>1, BytesFold, FoldedEmpty
<1> QED
  BY <1>1, <1>2

\* Only, as a fold.
Picking(S, C) == [p \in Seq(C) \X C |-> IF p[2] \in S THEN Append(p[1], p[2]) ELSE p[1]]

\* Picking keeps a sequence.
LEMMA PickingIsFold ==
    ASSUME NEW S, NEW C PROVE IsFold(Seq(C), C, <<>>, Picking(S, C))
  BY EmptySeq, AppendProperties DEF Picking, IsFold

\* Only is that fold.
LEMMA OnlyFold ==
    ASSUME NEW S, NEW C, NEW seq \in Seq(C)
    PROVE  Only(seq, S) = Folded(Picking(S, C), <<>>, seq)
<1> DEFINE Rec(h) == h = [s \in SUBSET DOMAIN seq |->
                            IF s = {} THEN <<>>
                            ELSE IF seq[Max(s)] \in S THEN Append(h[s \ {Max(s)}], seq[Max(s)])
                                 ELSE h[s \ {Max(s)}]]
<1>0. IsFold(Seq(C), C, <<>>, Picking(S, C))
  BY PickingIsFold
<1>1. PICK g \in [SUBSET (1..Len(seq)) -> Seq(C)] : Folding(g, Picking(S, C), <<>>, seq, Len(seq))
  BY <1>0, FoldExists
<1>2. DOMAIN seq = 1..Len(seq) /\ Len(seq) \in Nat
  OBVIOUS
<1>3. \A s \in SUBSET (1..Len(seq)) : s # {} =>
          seq[Max(s)] \in C /\ s \ {Max(s)} \in SUBSET (1..Len(seq))
  BY <1>2, Topmost
<1>4. Rec(g)
  BY <1>1, <1>2, <1>3 DEF Folding, Picking
<1>5. Only(seq, S) = (CHOOSE h : Rec(h))[DOMAIN seq]
  BY DEF Only, FoldLeft, MapThenFoldSet
<1>6. PICK h : Rec(h) /\ Only(seq, S) = h[1..Len(seq)]
  BY <1>2, <1>4, <1>5
<1>7. Steps(h, Picking(S, C), <<>>, seq, Seq(C))
  BY <1>2, <1>3, <1>6 DEF Steps, Picking
<1> HIDE DEF Rec
<1>8. h[1..Len(seq)] = Folded(Picking(S, C), <<>>, seq)
  BY <1>0, <1>7, FoldValue
<1> QED
  BY <1>6, <1>8

\* Nothing is picked from nothing.
LEMMA OnlyNothing ==
    ASSUME NEW S PROVE Only(<<>>, S) = <<>>
<1>1. <<>> \in Seq({}) /\ IsFold(Seq({}), {}, <<>>, Picking(S, {}))
  BY EmptySeq, PickingIsFold
<1>2. Folded(Picking(S, {}), <<>>, <<>>) = <<>>
  BY <1>1, FoldedEmpty
<1>3. Only(<<>>, S) = Folded(Picking(S, {}), <<>>, <<>>)
  BY <1>1, OnlyFold
<1> QED
  BY <1>2, <1>3

\* An element is picked if it is in the set.
LEMMA OnlySteps ==
    ASSUME NEW S, NEW C, NEW seq \in Seq(C)
    PROVE  /\ Only(seq, S) \in Seq(C)
           /\ \A c \in C : Only(Append(seq, c), S) =
                              IF c \in S THEN Append(Only(seq, S), c) ELSE Only(seq, S)
<1>0. IsFold(Seq(C), C, <<>>, Picking(S, C))
  BY PickingIsFold
<1>1. Only(seq, S) \in Seq(C) /\ Only(seq, S) = Folded(Picking(S, C), <<>>, seq)
  BY <1>0, OnlyFold, FoldedType
<1>2. ASSUME NEW c \in C
      PROVE  Only(Append(seq, c), S) = IF c \in S THEN Append(Only(seq, S), c) ELSE Only(seq, S)
  <2>1. PICK more \in Seq(C) : more = Append(seq, c)
    BY AppendProperties
  <2>2. Folded(Picking(S, C), <<>>, Append(seq, c)) = Picking(S, C)[<<Folded(Picking(S, C), <<>>, seq), c>>]
    BY <1>0, FoldedAppend
  <2>3. Only(more, S) = Folded(Picking(S, C), <<>>, more)
    BY OnlyFold
  <2> QED
    BY <1>1, <2>1, <2>2, <2>3 DEF Picking
<1> QED
  BY <1>1, <1>2

\* The bytes of two texts add up.
LEMMA BytesConcat ==
    ASSUME NEW C, NEW s \in Seq(C), NEW t \in Seq(C)
    PROVE  Bytes(s \o t) = Bytes(s) + Bytes(t)
<1> DEFINE Good == {u \in Seq(C) : Bytes(s \o u) = Bytes(s) + Bytes(u)}
<1>1. <<>> \in Good
  BY EmptySeq, ConcatEmptySeq, BytesSteps
<1>2. ASSUME NEW u \in Seq(C), NEW c \in C, u \in Good PROVE Append(u, c) \in Good
  <2>1. /\ Append(u, c) \in Seq(C) /\ s \o u \in Seq(C)
        /\ s \o Append(u, c) = Append(s \o u, c)
    OBVIOUS
  <2>2. Bytes(Append(s \o u, c)) = Bytes(s \o u) + Width(c)
    BY <2>1, BytesSteps
  <2>3. Bytes(Append(u, c)) = Bytes(u) + Width(c)
    BY BytesSteps
  <2>4. Bytes(s) \in Nat /\ Bytes(u) \in Nat /\ Width(c) \in Nat
    BY BytesSteps DEF Width
  <2>5. Bytes(s \o u) = Bytes(s) + Bytes(u)
    BY <1>2
  <2>6. Bytes(s \o Append(u, c)) = Bytes(s) + Bytes(Append(u, c))
    BY <2>1, <2>2, <2>3, <2>4, <2>5
  <2> QED
    BY <2>1, <2>6
<1> HIDE DEF Good
<1>3. Seq(C) \subseteq Good
  BY <1>1, <1>2, SeqInductive
<1> QED
  BY <1>3 DEF Good
-----------------------------------------------------------------------------
(***************************************************************************)
(* Cutting a text.                                                         *)
(***************************************************************************)
\* The first k elements of a sequence.
LEMMA FirstElements ==
    ASSUME NEW C, NEW seq \in Seq(C), NEW k \in 0..Len(seq)
    PROVE  /\ SubSeq(seq, 1, k) \in Seq(C) /\ Len(SubSeq(seq, 1, k)) = k
           /\ \A j \in 1..k : SubSeq(seq, 1, k)[j] = seq[j]
           /\ IsPrefix(SubSeq(seq, 1, k), seq)
           /\ k < Len(seq) => SubSeq(seq, 1, k + 1) = Append(SubSeq(seq, 1, k), seq[k + 1])
<1>1. /\ SubSeq(seq, 1, k) \in Seq(C) /\ Len(SubSeq(seq, 1, k)) = k
      /\ \A j \in 1..k : SubSeq(seq, 1, k)[j] = seq[j]
  OBVIOUS
<1>2. SubSeq(SubSeq(seq, 1, k), 1, k) = SubSeq(seq, 1, k)
  BY <1>1
<1>3. k < Len(seq) => SubSeq(seq, 1, k + 1) = Append(SubSeq(seq, 1, k), seq[k + 1])
  OBVIOUS
<1> QED
  BY <1>1, <1>2, <1>3 DEF IsPrefix

\* The bytes of a beginning, one character after the other.
LEMMA BytesOfFirst ==
    ASSUME NEW C, NEW text \in Seq(C), NEW k \in 0..Len(text)
    PROVE  /\ Bytes(SubSeq(text, 1, k)) \in Nat
           /\ k < Len(text) =>
                 Bytes(SubSeq(text, 1, k + 1)) = Bytes(SubSeq(text, 1, k)) + Width(text[k + 1])
<1>1. SubSeq(text, 1, k) \in Seq(C)
  BY FirstElements
<1>2. Bytes(SubSeq(text, 1, k)) \in Nat
  BY <1>1, BytesSteps
<1>3. ASSUME k < Len(text)
      PROVE  Bytes(SubSeq(text, 1, k + 1)) = Bytes(SubSeq(text, 1, k)) + Width(text[k + 1])
  <2>0. k + 1 \in 1..Len(text)
    BY <1>3, LenProperties
  <2>1. text[k + 1] \in C /\ SubSeq(text, 1, k + 1) = Append(SubSeq(text, 1, k), text[k + 1])
    <3>1. text[k + 1] \in C
      BY <2>0, ElementOfSeq
    <3>2. SubSeq(text, 1, k + 1) = Append(SubSeq(text, 1, k), text[k + 1])
      BY <1>3, FirstElements
    <3> QED
      BY <3>1, <3>2
  <2> QED
    BY <1>1, <2>1, BytesSteps
<1> QED
  BY <1>2, <1>3

\* Every character takes a byte at least.
LEMMA BytesIncrease ==
    ASSUME NEW C, NEW text \in Seq(C), NEW k \in 0..Len(text), NEW j \in 0..Len(text), j < k
    PROVE  Bytes(SubSeq(text, 1, j)) < Bytes(SubSeq(text, 1, k))
<1> DEFINE B(i) == Bytes(SubSeq(text, 1, i))
           Good == {i \in Nat : i <= Len(text) => \A l \in 0..i - 1 : B(l) < B(i)}
<1>1. 0 \in Good
  OBVIOUS
<1>2. ASSUME NEW i \in Nat, i \in Good PROVE i + 1 \in Good
  <2>0. i + 1 \in Nat
    OBVIOUS
  <2> SUFFICES ASSUME i + 1 <= Len(text), NEW l \in 0..i PROVE B(l) < B(i + 1)
    BY <2>0
  <2>1. i \in 0..Len(text) /\ l \in 0..Len(text) /\ i < Len(text)
    OBVIOUS
  <2>2. B(i) \in Nat /\ B(l) \in Nat /\ B(i + 1) = B(i) + Width(text[i + 1])
    BY <2>1, BytesOfFirst
  <2>3. Width(text[i + 1]) \in {1, 2, 3}
    BY DEF Width
  <2>4. l = i \/ B(l) < B(i)
    BY <1>2, <2>1
  <2> HIDE DEF B
  <2> QED
    BY <2>2, <2>3, <2>4
<1> HIDE DEF Good
<1>3. k \in Nat /\ k \in Good
  BY <1>1, <1>2, Inductive
<1> QED
  BY <1>3 DEF Good

\* The beginnings of a text are its first characters.
LEMMA PrefixesOf ==
    ASSUME NEW C, NEW text \in Seq(C)
    PROVE  /\ Prefixes(text) = {SubSeq(text, 1, k) : k \in 0..Len(text)}
           /\ Boundaries(text) = {Bytes(SubSeq(text, 1, k)) : k \in 0..Len(text)}
           /\ text \in Prefixes(text)
<1>1. Prefixes(text) = {SubSeq(text, 1, k) : k \in 0..Len(text)}
  BY DEF Prefixes
<1>2. Len(text) \in 0..Len(text) /\ SubSeq(text, 1, Len(text)) = text
  BY SubSeqFull, EmptySeq
<1> QED
  BY <1>1, <1>2 DEF Boundaries

\* The boundaries of a text lie within it, its ends among them.
LEMMA BoundariesOf ==
    ASSUME NEW C, NEW text \in Seq(C)
    PROVE  /\ 0 \in Boundaries(text) /\ Bytes(text) \in Boundaries(text)
           /\ Boundaries(text) \subseteq 0..Bytes(text)
<1>1. Len(text) \in Nat /\ SubSeq(text, 1, 0) = <<>> /\ SubSeq(text, 1, Len(text)) = text
  BY SubSeqFull, SubSeqEmpty
<1>2. 0 \in Boundaries(text) /\ Bytes(text) \in Boundaries(text)
  <2>1. 0 \in 0..Len(text) /\ Len(text) \in 0..Len(text)
    BY <1>1
  <2>2. Boundaries(text) = {Bytes(SubSeq(text, 1, k)) : k \in 0..Len(text)}
    BY PrefixesOf
  <2> QED
    BY <1>1, <2>1, <2>2, BytesSteps
<1>3. ASSUME NEW k \in 0..Len(text) PROVE Bytes(SubSeq(text, 1, k)) \in 0..Bytes(text)
  <2>1. Bytes(text) \in Nat /\ Bytes(SubSeq(text, 1, k)) \in Nat
    BY BytesSteps, BytesOfFirst
  <2>2. Len(text) \in 0..Len(text)
    BY <1>1
  <2>4. k < Len(text) => Bytes(SubSeq(text, 1, k)) < Bytes(SubSeq(text, 1, Len(text)))
    BY <2>2, BytesIncrease
  <2>3. k = Len(text) => Bytes(SubSeq(text, 1, k)) = Bytes(text)
    BY <1>1
  <2>5. k < Len(text) \/ k = Len(text)
    <3>1. PICK n \in Nat : n = Len(text)
      BY <1>1
    <3> QED
      BY <3>1
  <2>6. PICK a \in Nat, b \in Nat : a = Bytes(SubSeq(text, 1, k)) /\ b = Bytes(text)
    BY <2>1
  <2>7. a < b \/ a = b
    BY <1>1, <2>3, <2>4, <2>5, <2>6
  <2> QED
    BY <2>6, <2>7
<1> QED
  BY <1>2, <1>3, PrefixesOf

\* The slice up to a boundary is the only one of its size.
LEMMA UptoBoundary ==
    ASSUME NEW C, NEW text \in Seq(C), NEW k \in 0..Len(text)
    PROVE  /\ Upto(text, Bytes(SubSeq(text, 1, k))) = SubSeq(text, 1, k)
           /\ From(text, Bytes(SubSeq(text, 1, k))) = SubSeq(text, k + 1, Len(text))
<1>1. PICK p \in Prefixes(text) : p = Upto(text, Bytes(SubSeq(text, 1, k)))
                                  /\ Bytes(p) = Bytes(SubSeq(text, 1, k))
  BY PrefixesOf DEF Upto
<1>2. PICK j \in 0..Len(text) : p = SubSeq(text, 1, j)
  BY PrefixesOf
<1>3. j = k
  <2>1. Bytes(SubSeq(text, 1, k)) \in Nat /\ Bytes(SubSeq(text, 1, j)) \in Nat
    BY BytesOfFirst
  <2>3. j < k => Bytes(SubSeq(text, 1, j)) < Bytes(SubSeq(text, 1, k))
    BY BytesIncrease
  <2>4. k < j => Bytes(SubSeq(text, 1, k)) < Bytes(SubSeq(text, 1, j))
    BY BytesIncrease
  <2>5. PICK b \in Nat : b = Bytes(SubSeq(text, 1, k)) /\ b = Bytes(SubSeq(text, 1, j))
    BY <1>1, <1>2, <2>1
  <2>6. ~(b < b) /\ Len(text) \in Nat
    OBVIOUS
  <2>7. ~(j < k) /\ ~(k < j)
    BY <2>3, <2>4, <2>5, <2>6
  <2> QED
    BY <2>6, <2>7
<1>4. Len(SubSeq(text, 1, k)) = k
  BY FirstElements
<1> QED
  BY <1>1, <1>2, <1>3, <1>4 DEF From

\* Greatest is the greatest of bounded numbers.
LEMMA GreatestOf ==
    ASSUME NEW n \in Nat, NEW S, S \in SUBSET (0..n), S # {}
    PROVE  Greatest(S) \in S /\ \A m \in S : m <= Greatest(S)
<1>1. \E m \in S : \A k \in S : k <= m
  BY GreatestNatural
<1> QED
  BY <1>1 DEF Greatest

\* The places and sizes of what a cut at a boundary leaves.
LEMMA CutAtBoundary ==
    ASSUME NEW C, NEW text \in Seq(C), NEW n \in Boundaries(text)
    PROVE  \E k \in 0..Len(text) :
              /\ Upto(text, n) = SubSeq(text, 1, k)
              /\ n = Bytes(SubSeq(text, 1, k))
              /\ Len(Upto(text, n)) = k
              /\ Upto(text, n) \in Seq(C)
              /\ IsPrefix(Upto(text, n), text)
              /\ Bytes(Upto(text, n)) = n
              /\ From(text, n) = SubSeq(text, k + 1, Len(text))
              /\ Len(From(text, n)) = Len(text) - k
<1>1. PICK k \in 0..Len(text) : n = Bytes(SubSeq(text, 1, k))
  BY PrefixesOf
<1>2. /\ Upto(text, n) = SubSeq(text, 1, k)
      /\ From(text, n) = SubSeq(text, k + 1, Len(text))
  BY <1>1, UptoBoundary
<1>3. /\ SubSeq(text, 1, k) \in Seq(C) /\ Len(SubSeq(text, 1, k)) = k
      /\ IsPrefix(SubSeq(text, 1, k), text)
  BY FirstElements
<1>4. Len(SubSeq(text, k + 1, Len(text))) = Len(text) - k
  OBVIOUS
<1> QED
  BY <1>1, <1>2, <1>3, <1>4
-----------------------------------------------------------------------------
(***************************************************************************)
(* Sequences behind each other.                                            *)
(***************************************************************************)
\* A character behind two texts is one behind the second.
LEMMA ConcatAppend ==
    ASSUME NEW C, NEW s \in Seq(C), NEW t \in Seq(C), NEW c \in C
    PROVE  /\ Append(t, c) \in Seq(C) /\ s \o t \in Seq(C)
           /\ s \o Append(t, c) = Append(s \o t, c)
  OBVIOUS

\* Picking goes through one sequence after the other.
LEMMA OnlyConcat ==
    ASSUME NEW S, NEW C, NEW s \in Seq(C), NEW t \in Seq(C)
    PROVE  Only(s \o t, S) = Only(s, S) \o Only(t, S)
<1> DEFINE Good == {u \in Seq(C) : Only(s \o u, S) = Only(s, S) \o Only(u, S)}
<1>0. Only(s, S) \in Seq(C)
  BY OnlySteps
<1>1. <<>> \in Good
  <2>1. s \o <<>> = s /\ Only(s, S) \o <<>> = Only(s, S)
    BY <1>0, ConcatEmptySeq
  <2>2. <<>> \in Seq(C) /\ Only(<<>>, S) = <<>>
    BY EmptySeq, OnlyNothing
  <2>3. Only(s \o <<>>, S) = Only(s, S) \o Only(<<>>, S)
    BY <2>1, <2>2
  <2> QED
    BY <2>2, <2>3
<1>2. ASSUME NEW u \in Seq(C), NEW c \in C, u \in Good PROVE Append(u, c) \in Good
  <2>1. /\ Append(u, c) \in Seq(C) /\ s \o u \in Seq(C)
        /\ s \o Append(u, c) = Append(s \o u, c)
    OBVIOUS
  <2>2. Only(u, S) \in Seq(C) /\ Only(s \o u, S) = Only(s, S) \o Only(u, S)
    BY <1>2, OnlySteps
  <2>3. Only(Append(s \o u, c), S) = IF c \in S THEN Append(Only(s \o u, S), c) ELSE Only(s \o u, S)
    <3>1. PICK w \in Seq(C) : w = s \o u
      BY <2>1
    <3>2. Only(Append(w, c), S) = IF c \in S THEN Append(Only(w, S), c) ELSE Only(w, S)
      BY OnlySteps
    <3> QED
      BY <3>1, <3>2
  <2>4. Only(Append(u, c), S) = IF c \in S THEN Append(Only(u, S), c) ELSE Only(u, S)
    BY OnlySteps
  <2>5. Append(Only(s, S) \o Only(u, S), c) = Only(s, S) \o Append(Only(u, S), c)
    <3>1. PICK v \in Seq(C), w \in Seq(C) : v = Only(s, S) /\ w = Only(u, S)
      BY <1>0, <2>2
    <3>2. v \o Append(w, c) = Append(v \o w, c)
      BY ConcatAppend
    <3> QED
      BY <3>1, <3>2
  <2>6. Only(s \o Append(u, c), S) = Only(s, S) \o Only(Append(u, c), S)
    BY <2>1, <2>2, <2>3, <2>4, <2>5
  <2> QED
    BY <2>1, <2>6
<1> HIDE DEF Good
<1>3. Seq(C) \subseteq Good
  BY <1>1, <1>2, SeqInductive
<1> QED
  BY <1>3 DEF Good

\* A sequence is the beginning of one that continues it.
LEMMA PrefixOfConcat ==
    ASSUME NEW C, NEW p \in Seq(C), NEW r \in Seq(C)
    PROVE  IsPrefix(p, p \o r)
<1>1. Len(p) <= Len(p \o r) /\ SubSeq(p, 1, Len(p)) = SubSeq(p \o r, 1, Len(p))
  <2>1. Len(p) \in Nat /\ Len(r) \in Nat /\ p \o r \in Seq(C) /\ Len(p \o r) = Len(p) + Len(r)
    OBVIOUS
  <2>2. SubSeq(p \o r, 1, Len(p)) = p /\ SubSeq(p, 1, Len(p)) = p
    OBVIOUS
  <2> QED
    BY <2>1, <2>2
<1> QED
  BY <1>1 DEF IsPrefix

\* A beginning of a beginning is a beginning.
LEMMA PrefixOfPrefix ==
    ASSUME NEW C, NEW p \in Seq(C), NEW q \in Seq(C), NEW r \in Seq(C), IsPrefix(p, q)
    PROVE  IsPrefix(p, q \o r)
<1>1. /\ Len(p) \in Nat /\ Len(q) \in Nat /\ Len(r) \in Nat /\ Len(p) <= Len(q)
      /\ SubSeq(p, 1, Len(p)) = SubSeq(q, 1, Len(p))
  BY DEF IsPrefix
<1>2. q \o r \in Seq(C) /\ Len(q \o r) = Len(q) + Len(r)
  OBVIOUS
<1>3. SubSeq(q \o r, 1, Len(p)) = SubSeq(q, 1, Len(p))
  BY <1>1
<1> QED
  BY <1>1, <1>2, <1>3 DEF IsPrefix

\* Cleaning shortens a text that is not clean, and leaves newlines.
LEMMA OnlyLength ==
    ASSUME NEW S, NEW C, NEW seq \in Seq(C)
    PROVE  Len(Only(seq, S)) <= Len(seq)
<1> DEFINE Good == {u \in Seq(C) : Len(Only(u, S)) <= Len(u)}
<1>1. <<>> \in Good
  <2>1. PICK none \in Seq(C) : none = <<>>
    BY EmptySeq
  <2>2. Only(none, S) = <<>> /\ Len(none) = 0 /\ Len(Only(none, S)) <= Len(none)
    BY <2>1, OnlyNothing
  <2> QED
    BY <2>1, <2>2
<1>2. ASSUME NEW u \in Seq(C), NEW c \in C, u \in Good PROVE Append(u, c) \in Good
  <2>1. /\ Only(u, S) \in Seq(C)
        /\ Only(Append(u, c), S) = IF c \in S THEN Append(Only(u, S), c) ELSE Only(u, S)
    BY OnlySteps
  <2>2. PICK v \in Seq(C) : v = Only(u, S)
    BY <2>1
  <2>3. /\ Len(v) \in Nat /\ Len(u) \in Nat /\ Len(v) <= Len(u)
        /\ Append(u, c) \in Seq(C) /\ Len(Append(u, c)) = Len(u) + 1
        /\ Len(Append(v, c)) = Len(v) + 1
    BY <1>2, <2>2
  <2>4. Len(Only(Append(u, c), S)) <= Len(Append(u, c))
    BY <2>1, <2>2, <2>3
  <2> QED
    BY <2>3, <2>4
<1> HIDE DEF Good
<1>3. Seq(C) \subseteq Good
  BY <1>1, <1>2, SeqInductive
<1> QED
  BY <1>3 DEF Good

\* v is s, which has n elements, and c behind them.
Extended(v, s, c, n) ==
    /\ n = Len(s) /\ v = Append(s, c) /\ Len(v) = n + 1 /\ v[n + 1] = c
    /\ \A k \in 1..n : v[k] = s[k]

\* What Append does.
LEMMA Extension ==
    ASSUME NEW C, NEW s \in Seq(C), NEW c \in C
    PROVE  \E v \in Seq(C) : \E n \in Nat : Extended(v, s, c, n)
<1>1. PICK n \in Nat : n = Len(s)
  BY LenProperties
<1>2. /\ Append(s, c) \in Seq(C) /\ Len(Append(s, c)) = Len(s) + 1
      /\ \A k \in 1..Len(s) : Append(s, c)[k] = s[k]
      /\ Append(s, c)[Len(s) + 1] = c
  BY AppendProperties
<1> QED
  BY <1>1, <1>2 DEF Extended

\* A recursion along the places of a sequence computes its fold.
LEMMA FoldAlong ==
    ASSUME NEW V, NEW C, NEW base, NEW op, IsFold(V, C, base, op), NEW seq \in Seq(C),
           NEW f, f[0] = base,
           \A k \in 1..Len(seq) : f[k - 1] \in V => f[k] = op[<<f[k - 1], seq[k]>>]
    PROVE  f[Len(seq)] = Folded(op, base, seq)
<1> DEFINE So(k) == Folded(op, base, SubSeq(seq, 1, k))
           Good == {k \in Nat : k <= Len(seq) => f[k] = So(k)}
<1>1. 0 \in Good
  <2>1. SubSeq(seq, 1, 0) = <<>>
    BY SubSeqEmpty
  <2>2. So(0) = base
    BY <2>1, FoldedEmpty
  <2> QED
    BY <2>2
<1>2. ASSUME NEW k \in Nat, k \in Good PROVE k + 1 \in Good
  <2>0. k + 1 \in Nat
    OBVIOUS
  <2>1. CASE k + 1 <= Len(seq)
    <3>1. k \in 0..Len(seq) /\ k < Len(seq) /\ k + 1 \in 1..Len(seq) /\ (k + 1) - 1 = k
      BY <2>1
    <3>2. /\ SubSeq(seq, 1, k) \in Seq(C)
          /\ SubSeq(seq, 1, k + 1) = Append(SubSeq(seq, 1, k), seq[k + 1])
      BY <3>1, FirstElements
    <3>3. seq[k + 1] \in C
      BY <3>1, ElementOfSeq
    <3>4. So(k) \in V
      BY <3>2, FoldedType
    <3>5. So(k + 1) = op[<<So(k), seq[k + 1]>>]
      <4>1. PICK p \in Seq(C), c \in C : p = SubSeq(seq, 1, k) /\ c = seq[k + 1]
        BY <3>2, <3>3
      <4>2. Folded(op, base, Append(p, c)) = op[<<Folded(op, base, p), c>>]
        BY FoldedAppend
      <4> QED
        BY <3>2, <4>1, <4>2
    <3>6. f[k] = So(k)
      BY <1>2, <3>1
    <3> HIDE DEF So
    <3>7. f[k + 1] = op[<<f[k], seq[k + 1]>>]
      BY <3>1, <3>4, <3>6
    <3> QED
      BY <2>0, <3>5, <3>6, <3>7
  <2>2. CASE ~(k + 1 <= Len(seq))
    BY <2>0, <2>2
  <2> QED
    BY <2>1, <2>2
<1>3. Len(seq) \in Nat /\ SubSeq(seq, 1, Len(seq)) = seq
  BY SubSeqFull
<1> HIDE DEF Good
<1>4. Nat \subseteq Good
  BY <1>1, <1>2, Inductive
<1>5. Len(seq) \in Good
  BY <1>3, <1>4
<1>6. Len(seq) <= Len(seq)
  BY <1>3
<1> HIDE DEF So
<1>7. f[Len(seq)] = So(Len(seq))
  BY <1>5, <1>6 DEF Good
<1> QED
  BY <1>3, <1>7 DEF So

-----------------------------------------------------------------------------
(***************************************************************************)
(* Sequences of sequences, one behind the other.                           *)
(***************************************************************************)
Linking(C) == [p \in Seq(C) \X Seq(C) |-> p[1] \o p[2]]

\* The parameters of that fold.
LEMMA LinkingIsFold ==
    ASSUME NEW C PROVE IsFold(Seq(C), Seq(C), <<>>, Linking(C))
<1>1. <<>> \in Seq(C)
  BY EmptySeq
<1>2. \A p \in Seq(C) \X Seq(C) : p[1] \o p[2] \in Seq(C)
  <2> SUFFICES ASSUME NEW s \in Seq(C), NEW t \in Seq(C) PROVE s \o t \in Seq(C)
    OBVIOUS
  <2> QED
    OBVIOUS
<1> QED
  BY <1>1, <1>2 DEF Linking, IsFold

\* FlattenSeq is that fold.
LEMMA FlattenFold ==
    ASSUME NEW C, NEW seqs \in Seq(Seq(C))
    PROVE  FlattenSeq(seqs) = Folded(Linking(C), <<>>, seqs)
<1> DEFINE n == Len(seqs)
           Rec(h) == h = [i \in 1..n |-> IF i = 1 THEN seqs[i] ELSE h[i - 1] \o seqs[i]]
           So(k) == Folded(Linking(C), <<>>, SubSeq(seqs, 1, k))
           w == [i \in 1..n |-> So(i)]
<1>0. IsFold(Seq(C), Seq(C), <<>>, Linking(C)) /\ n \in Nat
  BY LinkingIsFold
<1>1. CASE n = 0
  <2>1. seqs = <<>>
    BY <1>1
  <2>2. Folded(Linking(C), <<>>, <<>>) = <<>>
    BY <1>0, FoldedEmpty
  <2> QED
    BY <2>1, <2>2 DEF FlattenSeq
<1>2. CASE n # 0
  <2>1. ASSUME NEW k \in 1..n
        PROVE  So(k - 1) \in Seq(C) /\ So(k) = So(k - 1) \o seqs[k]
    <3>1. k - 1 \in 0..n /\ k - 1 < n /\ (k - 1) + 1 = k /\ k - 1 \in 0..Len(seqs)
      BY <1>0
    <3>2. SubSeq(seqs, 1, k - 1) \in Seq(Seq(C)) /\ seqs[k] \in Seq(C)
      BY <3>1, FirstElements, ElementOfSeq
    <3>3. SubSeq(seqs, 1, (k - 1) + 1) = Append(SubSeq(seqs, 1, k - 1), seqs[(k - 1) + 1])
      BY <3>1, FirstElements
    <3>4. So(k - 1) \in Seq(C)
      BY <1>0, <3>2, FoldedType
    <3>5. Folded(Linking(C), <<>>, Append(SubSeq(seqs, 1, k - 1), seqs[k]))
             = Linking(C)[<<So(k - 1), seqs[k]>>]
      <4>1. PICK p \in Seq(Seq(C)), s \in Seq(C) : p = SubSeq(seqs, 1, k - 1) /\ s = seqs[k]
        BY <3>2
      <4>2. Folded(Linking(C), <<>>, Append(p, s)) = Linking(C)[<<Folded(Linking(C), <<>>, p), s>>]
        BY <1>0, FoldedAppend
      <4> QED
        BY <4>1, <4>2
    <3>6. Linking(C)[<<So(k - 1), seqs[k]>>] = So(k - 1) \o seqs[k]
      BY <3>2, <3>4 DEF Linking
    <3> QED
      BY <3>1, <3>3, <3>4, <3>5, <3>6
  <2>2. So(0) = <<>>
    <3>1. SubSeq(seqs, 1, 0) = <<>>
      BY SubSeqEmpty
    <3> QED
      BY <1>0, <3>1, FoldedEmpty
  <2>3. Rec(w)
    <3> SUFFICES ASSUME NEW i \in 1..n
                 PROVE  So(i) = IF i = 1 THEN seqs[i] ELSE w[i - 1] \o seqs[i]
      BY Zenon
    <3>1. So(i) = So(i - 1) \o seqs[i] /\ seqs[i] \in Seq(C)
      BY <2>1, ElementOfSeq
    <3>2. CASE i = 1
      <4>1. i - 1 = 0
        BY <3>2
      <4>2. <<>> \o seqs[i] = seqs[i]
        BY <3>1, ConcatEmptySeq
      <4> QED
        BY <2>2, <3>1, <3>2, <4>1, <4>2
    <3>3. CASE i # 1
      <4>1. i - 1 \in 1..n
        BY <3>3
      <4> QED
        BY <3>1, <3>3, <4>1
    <3> QED
      BY <3>2, <3>3
  <2> HIDE DEF w, So
  <2>4. PICK h : Rec(h) /\ FlattenSeq(seqs) = h[n]
    BY <1>2, <2>3 DEF FlattenSeq
  <2> DEFINE f == [i \in 0..n |-> IF i = 0 THEN <<>> ELSE h[i]]
  <2>5. ASSUME NEW k \in 1..n, f[k - 1] \in Seq(C) PROVE f[k] = Linking(C)[<<f[k - 1], seqs[k]>>]
    <3>1. seqs[k] \in Seq(C) /\ k - 1 \in 0..n /\ k \in 0..n /\ k # 0
      BY ElementOfSeq
    <3>2. Linking(C)[<<f[k - 1], seqs[k]>>] = f[k - 1] \o seqs[k]
      BY <2>5, <3>1 DEF Linking
    <3>3. f[k] = h[k] /\ h[k] = IF k = 1 THEN seqs[k] ELSE h[k - 1] \o seqs[k]
      BY <2>4, <3>1
    <3>4. CASE k = 1
      <4>1. f[k - 1] = <<>>
        BY <3>4
      <4>2. <<>> \o seqs[k] = seqs[k]
        BY <3>1, ConcatEmptySeq
      <4> QED
        BY <3>2, <3>3, <3>4, <4>1, <4>2
    <3>5. CASE k # 1
      <4>1. k - 1 # 0
        BY <3>5
      <4>2. f[k - 1] = h[k - 1]
        BY <3>1, <4>1
      <4> QED
        BY <3>2, <3>3, <3>5, <4>2
    <3> QED
      BY <3>4, <3>5
  <2>6. f[0] = <<>> /\ f[n] = h[n]
    BY <1>0, <1>2
  <2> HIDE DEF f
  <2>7. f[n] = Folded(Linking(C), <<>>, seqs)
    BY <1>0, <2>5, <2>6, FoldAlong
  <2> QED
    BY <2>4, <2>6, <2>7
<1> QED
  BY <1>1, <1>2

\* A sequence more comes at the end.
LEMMA FlattenSteps ==
    ASSUME NEW C, NEW seqs \in Seq(Seq(C))
    PROVE  /\ FlattenSeq(<<>>) = <<>>
           /\ FlattenSeq(seqs) \in Seq(C)
           /\ \A s \in Seq(C) : FlattenSeq(Append(seqs, s)) = FlattenSeq(seqs) \o s
<1>0. IsFold(Seq(C), Seq(C), <<>>, Linking(C))
  BY LinkingIsFold
<1>1. FlattenSeq(seqs) \in Seq(C) /\ FlattenSeq(seqs) = Folded(Linking(C), <<>>, seqs)
  BY <1>0, FlattenFold, FoldedType
<1>2. ASSUME NEW s \in Seq(C) PROVE FlattenSeq(Append(seqs, s)) = FlattenSeq(seqs) \o s
  <2>1. Append(seqs, s) \in Seq(Seq(C))
    BY AppendProperties
  <2>2. FlattenSeq(Append(seqs, s)) = Folded(Linking(C), <<>>, Append(seqs, s))
    BY <2>1, FlattenFold
  <2>3. Folded(Linking(C), <<>>, Append(seqs, s))
           = Linking(C)[<<Folded(Linking(C), <<>>, seqs), s>>]
    BY <1>0, FoldedAppend
  <2>4. Linking(C)[<<FlattenSeq(seqs), s>>] = FlattenSeq(seqs) \o s
    BY <1>1 DEF Linking
  <2> QED
    BY <1>1, <2>2, <2>3, <2>4
<1>3. FlattenSeq(<<>>) = <<>>
  BY DEF FlattenSeq
<1> QED
  BY <1>1, <1>2, <1>3

\* v is s with t behind it.
Joins(v, s, t) == /\ v = s \o t /\ Len(v) = Len(s) + Len(t)
                  /\ \A k \in 1..Len(s) : v[k] = s[k]
                  /\ \A k \in 1..Len(t) : v[Len(s) + k] = t[k]

\* What \o does.
LEMMA Concatenation ==
    ASSUME NEW C, NEW s \in Seq(C), NEW t \in Seq(C)
    PROVE  \E v \in Seq(C) : Joins(v, s, t)
<1>1. /\ s \o t \in Seq(C) /\ Len(s \o t) = Len(s) + Len(t)
      /\ \A i \in 1..Len(s) + Len(t) : (s \o t)[i] = IF i <= Len(s) THEN s[i] ELSE t[i - Len(s)]
  BY ConcatProperties, Zenon
<1>2. PICK m \in Nat, n \in Nat : m = Len(s) /\ n = Len(t)
  OBVIOUS
<1>3. \A k \in 1..m : (s \o t)[k] = s[k]
  BY <1>1, <1>2
<1>4. ASSUME NEW k \in 1..n PROVE (s \o t)[m + k] = t[k]
  <2>1. m + k \in 1..m + n /\ ~(m + k <= m) /\ (m + k) - m = k
    OBVIOUS
  <2> QED
    BY <1>1, <1>2, <2>1
<1>5. Joins(s \o t, s, t)
  BY <1>1, <1>2, <1>3, <1>4 DEF Joins
<1> QED
  BY <1>1, <1>5

\* A sequence of one element.
LEMMA Single ==
    ASSUME NEW C, NEW c \in C
    PROVE  <<c>> \in Seq(C) /\ Len(<<c>>) = 1 /\ <<c>>[1] = c
  OBVIOUS

\* A sequence of two.
LEMMA Double ==
    ASSUME NEW C, NEW c \in C, NEW d \in C
    PROVE  <<c, d>> \in Seq(C) /\ Len(<<c, d>>) = 2 /\ <<c, d>>[1] = c /\ <<c, d>>[2] = d
  OBVIOUS

\* Three sequences can be put together in either order.
Regroups(s, t, r) == s \o (t \o r) = (s \o t) \o r

\* They always can.
LEMMA Regrouped ==
    ASSUME NEW C, NEW s \in Seq(C), NEW t \in Seq(C), NEW r \in Seq(C)
    PROVE  Regroups(s, t, r)
  BY ConcatAssociative DEF Regroups

\* Induction over two sequences of the same length, side by side.
LEMMA PairInductive ==
    ASSUME NEW C, NEW D, NEW s \in Seq(C), NEW t \in Seq(D), NEW n \in Nat, Len(s) = n, Len(t) = n,
           NEW S, << <<>>, <<>> >> \in S,
           \A k \in 1..n : \A p \in Seq(C) : \A q \in Seq(D) :
              <<p, q>> \in S => <<Append(p, s[k]), Append(q, t[k])>> \in S
    PROVE  <<s, t>> \in S
<1> DEFINE So(k) == <<SubSeq(s, 1, k), SubSeq(t, 1, k)>> \in S
           Good == {k \in Nat : k <= n => So(k)}
<1>1. 0 \in Good
  <2>1. SubSeq(s, 1, 0) = <<>> /\ SubSeq(t, 1, 0) = <<>>
    BY SubSeqEmpty
  <2> QED
    BY <2>1
<1>2. ASSUME NEW k \in Nat, k \in Good PROVE k + 1 \in Good
  <2>1. CASE k + 1 <= n
    <3>1. k \in 0..Len(s) /\ k < Len(s) /\ k \in 0..Len(t) /\ k < Len(t) /\ k + 1 \in 1..n
      BY <2>1
    <3>2. PICK p \in Seq(C) : /\ p = SubSeq(s, 1, k)
                               /\ SubSeq(s, 1, k + 1) = Append(p, s[k + 1])
      BY <3>1, FirstElements
    <3>3. PICK q \in Seq(D) : /\ q = SubSeq(t, 1, k)
                               /\ SubSeq(t, 1, k + 1) = Append(q, t[k + 1])
      BY <3>1, FirstElements
    <3>4. <<p, q>> \in S
      BY <1>2, <3>1, <3>2, <3>3
    <3>5. <<Append(p, s[k + 1]), Append(q, t[k + 1])>> \in S
      BY <3>1, <3>4
    <3>6. So(k + 1)
      BY <3>2, <3>3, <3>5
    <3> HIDE DEF So
    <3> QED
      BY <3>6
  <2>2. CASE ~(k + 1 <= n)
    BY <2>2
  <2> QED
    BY <2>1, <2>2
<1> HIDE DEF Good
<1>3. n \in Good
  BY <1>1, <1>2, Inductive
<1>4. SubSeq(s, 1, n) = s /\ SubSeq(t, 1, n) = t
  BY SubSeqFull
<1> HIDE DEF So
<1>5. So(n)
  BY <1>3 DEF Good
<1> QED
  BY <1>4, <1>5 DEF So
-----------------------------------------------------------------------------

\* Two sequences of one character.
LEMMA Twice ==
    ASSUME NEW C, NEW c \in C, NEW d \in C
    PROVE  /\ <<c>> \in Seq(C) /\ <<d>> \in Seq(C) /\ <<c, d>> \in Seq(C)
           /\ <<c>> \o <<d>> = <<c, d>>
<1>1. <<c>> \in Seq(C) /\ <<d>> \in Seq(C) /\ <<c, d>> \in Seq(C)
  BY Single, Double
<1>2. <<c>> \o <<d>> = Append(<<c>>, d)
  BY <1>1, AppendIsConcat
<1>3. Append(<<c>>, d) = <<c, d>>
  <2>1. PICK s \in Seq(C) : s = <<c>> /\ Len(s) = 1 /\ s[1] = c
    BY Single
  <2>2. PICK v \in Seq(C), n \in Nat : Extended(v, s, d, n)
    BY Extension
  <2>3. PICK w \in Seq(C) : w = <<c, d>> /\ Len(w) = 2 /\ w[1] = c /\ w[2] = d
    <3>1. <<c, d>> \in Seq(C) /\ Len(<<c, d>>) = 2 /\ <<c, d>>[1] = c /\ <<c, d>>[2] = d
      BY Double
    <3> QED
      BY <3>1, Zenon
  <2>4. v = Append(s, d) /\ Len(v) = 2 /\ v[1] = c /\ v[2] = d
    BY <2>1, <2>2 DEF Extended
  <2>5. \A k \in 1..2 : v[k] = w[k]
    <3>1. \A k \in 1..2 : k = 1 \/ k = 2
      OBVIOUS
    <3> QED
      BY <2>3, <2>4, <3>1
  <2>6. v = w
    BY <2>3, <2>4, <2>5, SeqEqual
  <2> QED
    BY <2>1, <2>3, <2>4, <2>6
<1> QED
  BY <1>1, <1>2, <1>3

\* A function that goes on where a sequence ends.
LEMMA Grown ==
    ASSUME NEW D, NEW s \in Seq(D), NEW n \in Nat, n = Len(s), NEW g \in [1..n + 1 -> D],
           \A k \in 1..n : g[k] = s[k]
    PROVE  g \in Seq(D) /\ g = Append(s, g[n + 1])
<1>1. PICK e \in D : e = g[n + 1]
  BY SMT
<1>2. PICK v \in Seq(D), m \in Nat : Extended(v, s, e, m)
  BY Extension
<1>3. m = n /\ v = Append(s, e) /\ Len(v) = n + 1 /\ v[n + 1] = e /\ \A k \in 1..n : v[k] = s[k]
  BY <1>2 DEF Extended
<1>4. PICK w \in Seq(D) : w = g /\ Len(w) = n + 1
  OBVIOUS
<1>5. \A k \in 1..Len(v) : v[k] = w[k]
  <2> SUFFICES ASSUME NEW k \in 1..n + 1 PROVE v[k] = g[k]
    BY <1>3, <1>4
  <2>1. CASE k = n + 1
    BY <1>1, <1>3, <2>1
  <2>2. CASE k # n + 1
    <3>1. k \in 1..n
      BY <2>2
    <3> QED
      BY <1>3, <3>1
  <2> QED
    BY <2>1, <2>2
<1>6. v = w
  BY <1>3, <1>4, <1>5, SeqEqual
<1> QED
  BY <1>1, <1>3, <1>4, <1>6

\* A sequence is its beginning and its end.
LEMMA Halves ==
    ASSUME NEW C, NEW s \in Seq(C), NEW t \in Seq(C), NEW v \in Seq(C), NEW m \in Nat,
           v = s \o t, m = Len(s)
    PROVE  SubSeq(v, 1, m) = s /\ SubSeq(v, m + 1, Len(v)) = t
<1>1. PICK u \in Seq(C) : Joins(u, s, t)
  BY Concatenation
<1>2. PICK n \in Nat : n = Len(t)
  BY LenProperties
<1>3. /\ u = v /\ Len(v) = m + n
      /\ \A k \in 1..m : v[k] = s[k]
      /\ \A k \in 1..n : v[m + k] = t[k]
  BY <1>1, <1>2 DEF Joins
<1>4. SubSeq(v, 1, m) = s
  <2>1. m \in 0..Len(v)
    BY <1>3
  <2>2. PICK a \in Seq(C) : a = SubSeq(v, 1, m) /\ Len(a) = m /\ \A k \in 1..m : a[k] = v[k]
    BY <2>1, FirstElements
  <2>3. a = s
    BY <1>3, <2>2, SeqEqual
  <2> QED
    BY <2>2, <2>3
<1>5. SubSeq(v, m + 1, m + n) = t
  <2>1. /\ SubSeq(v, m + 1, m + n) \in Seq(C) /\ Len(SubSeq(v, m + 1, m + n)) = n
        /\ \A k \in 1..n : SubSeq(v, m + 1, m + n)[k] = v[m + k]
    BY <1>3
  <2>2. PICK b \in Seq(C) : b = SubSeq(v, m + 1, m + n) /\ Len(b) = n /\ \A k \in 1..n : b[k] = v[m + k]
    BY <2>1
  <2>3. \A k \in 1..Len(b) : b[k] = t[k]
    BY <1>3, <2>2
  <2>4. b = t
    BY <1>2, <2>2, <2>3, SeqEqual
  <2> QED
    BY <2>2, <2>4
<1> QED
  BY <1>3, <1>4, <1>5
=============================================================================
