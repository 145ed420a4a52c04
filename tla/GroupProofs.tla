------------------------------ MODULE GroupProofs ------------------------------
(***************************************************************************)
(* What comes out of any list of documents that clients have made: not in  *)
(* any order, from encryptors that were replaced, with texts that were     *)
(* damaged, more of them than the group has members.                       *)
(***************************************************************************)
EXTENDS InnerProductProofs, SequenceTheorems

----------------------------------------------------------------------------
(***************************************************************************)
(* Insertion within the vector.                                            *)
(***************************************************************************)
HasLength(v, k) == v = [j \in 1 .. k |-> v[j]]

\* Where the new item goes, and what moves.
MadeRoom(v, k, i, new) ==
  [m \in 1 .. (k + 1) |-> IF m < i THEN v[m] ELSE IF m = i THEN new ELSE v[m - 1]]

LEMMA InsertedWithin ==
  ASSUME NEW k \in Nat, NEW v, HasLength(v, k), NEW i \in 1 .. (k + 1), NEW x
  PROVE  InsertAt(v, i, x) = MadeRoom(v, k, i, x)
<1> DEFINE S == {v[j] : j \in 1 .. k} \cup {x}
           left == SubSeq(v, 1, i - 1)
           right == SubSeq(v, i, k)
<1>1. v \in Seq(S) /\ Len(v) = k
  <2>1. v \in [1 .. k -> S]
    BY DEF HasLength
  <2> QED
    BY <2>1
<1> HIDE DEF S
<1>2. /\ left \in Seq(S) /\ Len(left) = i - 1
      /\ \A m \in 1 .. (i - 1) : left[m] = v[m]
  BY <1>1
<1>3. /\ right \in Seq(S) /\ Len(right) = k - i + 1
      /\ \A m \in 1 .. (k - i + 1) : right[m] = v[i + m - 1]
  BY <1>1
<1>4. InsertAt(v, i, x) = left \o <<x>> \o right
  BY <1>1 DEF InsertAt
<1>5. x \in S
  BY DEF S
<1> HIDE DEF left, right
<1> DEFINE w == left \o <<x>>
<1>6. /\ w \in Seq(S) /\ Len(w) = i
      /\ \A m \in 1 .. i : w[m] = IF m < i THEN v[m] ELSE x
  <2>1. <<x>> \in Seq(S) /\ Len(<<x>>) = 1 /\ <<x>>[1] = x
    BY <1>5
  <2>2. /\ w \in Seq(S) /\ Len(w) = i - 1 + 1
        /\ \A m \in 1 .. (i - 1 + 1) :
             w[m] = IF m <= i - 1 THEN left[m] ELSE <<x>>[m - (i - 1)]
    BY <1>2, <2>1, ConcatProperties
  <2> HIDE DEF w
  <2>3. ASSUME NEW m \in 1 .. i PROVE w[m] = IF m < i THEN v[m] ELSE x
    <3>1. CASE m < i
      <4>1. m \in 1 .. (i - 1) /\ m \in 1 .. (i - 1 + 1) /\ m <= i - 1
        BY <3>1
      <4>2. w[m] = left[m]
        BY <2>2, <4>1
      <4>3. left[m] = v[m]
        BY <1>2, <4>1
      <4> QED
        BY <3>1, <4>2, <4>3
    <3>2. CASE m = i
      BY <2>1, <2>2, <3>2
    <3> QED
      BY <3>1, <3>2
  <2>4. i - 1 + 1 = i
    OBVIOUS
  <2>5. Len(w) = i
    BY <2>2, <2>4
  <2> QED
    BY <2>2, <2>3, <2>5
<1> HIDE DEF w
<1> DEFINE u == w \o right
<1>7. /\ u \in Seq(S) /\ Len(u) = k + 1
      /\ \A m \in 1 .. (k + 1) : u[m] = IF m <= i THEN w[m] ELSE right[m - i]
  <2>1. /\ u \in Seq(S) /\ Len(u) = Len(w) + Len(right)
        /\ \A m \in 1 .. (Len(w) + Len(right)) :
             u[m] = IF m <= Len(w) THEN w[m] ELSE right[m - Len(w)]
    BY <1>3, <1>6, ConcatProperties
  <2>2. Len(w) = i /\ Len(w) + Len(right) = k + 1
    BY <1>3, <1>6
  <2> HIDE DEF u
  <2> QED
    BY <2>1, <2>2
<1> HIDE DEF u
<1>8. ASSUME NEW m \in 1 .. (k + 1)
      PROVE  u[m] = IF m < i THEN v[m] ELSE IF m = i THEN x ELSE v[m - 1]
  <2>1. CASE m <= i
    <3>1. u[m] = w[m] /\ m \in 1 .. i
      BY <1>7, <2>1
    <3>2. w[m] = IF m < i THEN v[m] ELSE x
      BY <1>6, <3>1
    <3> QED
      BY <2>1, <3>1, <3>2
  <2>2. CASE m > i
    <3>1. m - i \in 1 .. (k - i + 1) /\ i + (m - i) - 1 = m - 1
      BY <2>2
    <3>2. right[m - i] = v[m - 1]
      BY <1>3, <3>1
    <3> QED
      BY <1>7, <2>2, <3>2
  <2> QED
    BY <2>1, <2>2
<1>9. u = [m \in 1 .. (k + 1) |-> u[m]]
  BY <1>7
<1> QED
  BY <1>4, <1>8, <1>9 DEF u, w, MadeRoom

\* The number of those among the first k that are in S.
LEMMA Counted ==
  ASSUME NEW S, NEW k \in Nat
  PROVE  /\ Cardinality(S \cap 1 .. 0) = 0
         /\ Cardinality(S \cap 1 .. k) \in Nat
         /\ k + 1 \in S => Cardinality(S \cap 1 .. (k + 1))
                             = Cardinality(S \cap 1 .. k) + 1
         /\ k + 1 \notin S => S \cap 1 .. (k + 1) = S \cap 1 .. k
<1>1. S \cap 1 .. 0 = {}
  OBVIOUS
<1>2. IsFiniteSet(S \cap 1 .. k)
  <2>1. IsFiniteSet(1 .. k) /\ S \cap 1 .. k \in SUBSET (1 .. k)
    BY FS_Interval
  <2> QED
    BY <2>1, FS_Subset
<1>3. ASSUME k + 1 \in S
      PROVE  /\ S \cap 1 .. (k + 1) = (S \cap 1 .. k) \cup {k + 1}
             /\ k + 1 \notin S \cap 1 .. k
  BY <1>3
<1>4. ASSUME k + 1 \notin S PROVE S \cap 1 .. (k + 1) = S \cap 1 .. k
  BY <1>4
<1>5. Cardinality(S \cap 1 .. 0) = 0
  BY <1>1, FS_EmptySet
<1>6. Cardinality(S \cap 1 .. k) \in Nat
  BY <1>2, FS_CardinalityType
<1>7. ASSUME k + 1 \in S
      PROVE  Cardinality(S \cap 1 .. (k + 1)) = Cardinality(S \cap 1 .. k) + 1
  BY <1>2, <1>3, <1>7, FS_AddElement
<1> QED
  BY <1>4, <1>5, <1>6, <1>7

\* The fold over the positions in S.
LEMMA FoldOn ==
  ASSUME NEW n \in Nat, NEW S \in SUBSET (1 .. n), NEW entries, DOMAIN entries = S
  PROVE  \E f : IsFold(f, entries, S) /\ InsertedAt(entries) = f[S]
<1>1. PICK g : IsFold(g, entries, 1 .. n)
  BY FoldExists
<1> DEFINE h == [s \in SUBSET S |-> g[s]]
           Step(s) == IF s = {} THEN <<>>
                        ELSE Inserted(h[s \ {Max(s)}], entries[Max(s)])
<1>2. ASSUME NEW s \in SUBSET S PROVE h[s] = Step(s)
  <2>1. s \in SUBSET (1 .. n) /\ s \ {Max(s)} \in SUBSET S
    OBVIOUS
  <2>2. h[s] = g[s] /\ h[s \ {Max(s)}] = g[s \ {Max(s)}]
    BY <2>1
  <2>3. g[s] = IF s = {} THEN <<>>
                 ELSE Inserted(g[s \ {Max(s)}], entries[Max(s)])
    BY <1>1, <2>1 DEF IsFold
  <2> QED
    BY <2>2, <2>3
<1>3. h = [s \in SUBSET S |-> Step(s)]
  <2> HIDE DEF Step
  <2> QED
    BY <1>2
<1> HIDE DEF h
<1>4. IsFold(h, entries, S)
  BY <1>3 DEF IsFold
<1>5. PICK f : f = (CHOOSE e : IsFold(e, entries, S))
  OBVIOUS
<1>6. IsFold(f, entries, S)
  BY <1>4, <1>5
<1>7. InsertedAt(entries) = f[S]
  BY <1>5 DEF InsertedAt, MapThenFoldSet, IsFold, Inserted
<1> QED
  BY <1>6, <1>7

\* After the positions up to k: the items are those at the positions p, and no
\* item stands before its own index.
Upto(S, k) == S \cap 1 .. k
Count(S, k) == Cardinality(Upto(S, k))

Arrangement(S, k, entries, p) ==
  /\ p \in [1 .. Count(S, k) -> S]
  /\ \A m \in 1 .. Count(S, k) : entries[p[m]].index <= m - 1

Arranged(entries, k, p) == [m \in 1 .. k |-> entries[p[m]].item]

LEMMA OneMore ==
  ASSUME NEW c \in Nat, NEW S, NEW p \in [1 .. c -> S],
         NEW new \in S, NEW entries,
         NEW i \in 1 .. (c + 1), entries[new].index + 1 = i
  PROVE  Inserted(Arranged(entries, c, p), entries[new])
           = Arranged(entries, c + 1, MadeRoom(p, c, i, new))
<1> DEFINE v == Arranged(entries, c, p)
           x == entries[new].item
           q == MadeRoom(p, c, i, new)
<1>1. v = [j \in 1 .. c |-> v[j]] /\ \A j \in 1 .. c : v[j] = entries[p[j]].item
  BY DEF Arranged
<1> HIDE DEF v
<1>2. InsertAt(v, i, x)
        = [m \in 1 .. (c + 1) |->
             IF m < i THEN v[m] ELSE IF m = i THEN x ELSE v[m - 1]]
  <2> HIDE DEF x
  <2>1. HasLength(v, c)
    BY <1>1 DEF HasLength
  <2> QED
    BY <2>1, InsertedWithin DEF MadeRoom
<1>3. ASSUME NEW m \in 1 .. (c + 1)
      PROVE  (IF m < i THEN v[m] ELSE IF m = i THEN x ELSE v[m - 1])
               = entries[q[m]].item
  <2>1. CASE m < i
    <3>1. m \in 1 .. c /\ q[m] = p[m]
      BY <2>1 DEF MadeRoom
    <3> QED
      BY <1>1, <2>1, <3>1
  <2>2. CASE m = i
    BY <2>2 DEF MadeRoom
  <2>3. CASE m > i
    <3>1. m - 1 \in 1 .. c /\ q[m] = p[m - 1]
      BY <2>3 DEF MadeRoom
    <3> QED
      BY <1>1, <2>3, <3>1
  <2> QED
    BY <2>1, <2>2, <2>3
<1> HIDE DEF q
<1>4. InsertAt(v, i, x) = Arranged(entries, c + 1, q)
  BY <1>2, <1>3 DEF Arranged
<1> QED
  BY <1>4 DEF Inserted, v, q

LEMMA RoomKeepsOrder ==
  ASSUME NEW c \in Nat, NEW S, NEW p \in [1 .. c -> S],
         NEW new \in S, NEW entries,
         \A k \in S : entries[k].index \in Nat,
         \A m \in 1 .. c : entries[p[m]].index <= m - 1,
         NEW i \in 1 .. (c + 1), entries[new].index + 1 = i
  PROVE  /\ MadeRoom(p, c, i, new) \in [1 .. (c + 1) -> S]
         /\ \A m \in 1 .. (c + 1) :
              entries[MadeRoom(p, c, i, new)[m]].index <= m - 1
<1> DEFINE q == MadeRoom(p, c, i, new)
<1>1. ASSUME NEW m \in 1 .. (c + 1)
      PROVE  q[m] \in S /\ entries[q[m]].index <= m - 1
  <2>1. CASE m < i
    <3>1. m \in 1 .. c /\ q[m] = p[m]
      BY <2>1 DEF MadeRoom
    <3> QED
      BY <3>1
  <2>2. CASE m = i
    BY <2>2 DEF MadeRoom
  <2>3. CASE m > i
    <3>1. m - 1 \in 1 .. c /\ q[m] = p[m - 1]
      BY <2>3 DEF MadeRoom
    <3>2. p[m - 1] \in S /\ entries[p[m - 1]].index <= m - 1 - 1
      BY <3>1
    <3>3. entries[p[m - 1]].index \in Nat
      BY <3>2
    <3>4. entries[p[m - 1]].index <= m - 1
      BY <3>2, <3>3
    <3> QED
      BY <3>1, <3>2, <3>4
  <2> QED
    BY <2>1, <2>2, <2>3
<1>2. q = [m \in 1 .. (c + 1) |-> q[m]]
  BY DEF MadeRoom
<1> HIDE DEF q
<1> QED
  BY <1>1, <1>2 DEF q

\* Both end up in the order p.
ArrangedBy(p, S, e, d) ==
  /\ p \in [1 .. Cardinality(S) -> S]
  /\ InsertedAt(e) = Arranged(e, Cardinality(S), p)
  /\ InsertedAt(d) = Arranged(d, Cardinality(S), p)
  /\ \A m \in 1 .. Cardinality(S) : e[p[m]].index <= m - 1

(***************************************************************************)
(* Two lists of entries with the same indexes, none of which is past the   *)
(* end when its turn comes, are arranged alike, whatever their order: the  *)
(* ciphers of a label stand where the key parts of the same documents do   *)
(* (core.cpp:199-213), and nothing ever stands before its own index.       *)
(***************************************************************************)
THEOREM ArrangedAlike ==
  ASSUME NEW n \in Nat, NEW S \in SUBSET (1 .. n),
         NEW e, DOMAIN e = S, NEW d, DOMAIN d = S,
         \A k \in S : /\ e[k].index \in Nat
                      /\ d[k].index = e[k].index
                      /\ e[k].index <= Count(S, k - 1)
  PROVE  \E p : ArrangedBy(p, S, e, d)
<1>1. PICK f : IsFold(f, e, S) /\ InsertedAt(e) = f[S]
  BY FoldOn
<1>2. PICK g : IsFold(g, d, S) /\ InsertedAt(d) = g[S]
  BY FoldOn
<1> DEFINE Good(k, p) == /\ Arrangement(S, k, e, p)
                         /\ f[Upto(S, k)] = Arranged(e, Count(S, k), p)
                         /\ g[Upto(S, k)] = Arranged(d, Count(S, k), p)
           T == {k \in Nat : \E p : Good(k, p)}
<1>3. 0 \in T
  <2>1. Upto(S, 0) = {} /\ Count(S, 0) = 0
    <3>1. Upto(S, 0) = {}
      BY DEF Upto
    <3> QED
      BY <3>1, FS_EmptySet DEF Count
  <2>2. f[{}] = <<>> /\ g[{}] = <<>>
    BY <1>1, <1>2 DEF IsFold
  <2> DEFINE p == [m \in 1 .. 0 |-> 0]
  <2>3. /\ p \in [1 .. 0 -> S] /\ 1 .. 0 = {}
        /\ Arranged(e, 0, p) = <<>> /\ Arranged(d, 0, p) = <<>>
    BY DEF Arranged
  <2> HIDE DEF p
  <2>4. Good(0, p)
    BY <2>1, <2>2, <2>3 DEF Arrangement
  <2> QED
    BY <2>4
<1>4. ASSUME NEW k \in Nat, k \in T PROVE k + 1 \in T
  <2>1. PICK p : Good(k, p)
    BY <1>4
  <2> DEFINE c == Count(S, k)
  <2>2. c \in Nat
    BY Counted DEF Count, Upto
  <2>3. CASE k + 1 \notin S
    <3>1. Upto(S, k + 1) = Upto(S, k) /\ Count(S, k + 1) = Count(S, k)
      BY <2>3, Counted DEF Upto, Count
    <3>2. Good(k + 1, p)
      BY <2>1, <3>1 DEF Arrangement
    <3> QED
      BY <3>2
  <2>4. CASE k + 1 \in S
    <3> DEFINE i == e[k + 1].index + 1
               q == MadeRoom(p, c, i, k + 1)
    <3>1. /\ Count(S, k + 1) = c + 1
          /\ e[k + 1].index \in Nat /\ e[k + 1].index <= c
          /\ d[k + 1].index + 1 = i
      <4>1. k + 1 - 1 = k
        OBVIOUS
      <4> QED
        BY <2>4, <4>1, Counted DEF Count, Upto
    <3>2. i \in 1 .. (c + 1)
      BY <2>2, <3>1
    <3>3. p \in [1 .. c -> S] /\ \A m \in 1 .. c : e[p[m]].index <= m - 1
      BY <2>1 DEF Arrangement
    <3>4. /\ Upto(S, k + 1) \in SUBSET S /\ Upto(S, k + 1) # {}
          /\ Max(Upto(S, k + 1)) = k + 1
          /\ Upto(S, k + 1) \ {k + 1} = Upto(S, k)
      <4>1. /\ Upto(S, k + 1) \in SUBSET (1 .. (k + 1))
            /\ k + 1 \in Upto(S, k + 1)
            /\ Upto(S, k + 1) \in SUBSET S
        BY <2>4 DEF Upto
      <4>2. Max(Upto(S, k + 1)) = k + 1
        BY <4>1, MaxIs
      <4>3. Upto(S, k + 1) \ {k + 1} = Upto(S, k)
        BY DEF Upto
      <4> QED
        BY <4>1, <4>2, <4>3
    <3>5. /\ f[Upto(S, k + 1)] = Inserted(f[Upto(S, k)], e[k + 1])
          /\ g[Upto(S, k + 1)] = Inserted(g[Upto(S, k)], d[k + 1])
      BY <1>1, <1>2, <3>4 DEF IsFold
    <3>6. f[Upto(S, k)] = Arranged(e, c, p) /\ g[Upto(S, k)] = Arranged(d, c, p)
      BY <2>1
    <3> HIDE DEF c, Good
    <3>7. /\ Inserted(Arranged(e, c, p), e[k + 1]) = Arranged(e, c + 1, q)
          /\ Inserted(Arranged(d, c, p), d[k + 1]) = Arranged(d, c + 1, q)
      <4>1. e[k + 1].index + 1 = i
        OBVIOUS
      <4> HIDE DEF i
      <4> QED
        BY <2>2, <2>4, <3>1, <3>2, <3>3, <4>1, OneMore
    <3>8. q \in [1 .. (c + 1) -> S] /\ \A m \in 1 .. (c + 1) : e[q[m]].index <= m - 1
      <4>1. e[k + 1].index + 1 = i
        OBVIOUS
      <4> HIDE DEF i
      <4> QED
        BY <2>2, <2>4, <3>2, <3>3, <4>1, RoomKeepsOrder
    <3> HIDE DEF q
    <3>9. Good(k + 1, q)
      BY <3>1, <3>5, <3>6, <3>7, <3>8 DEF Good, Arrangement
    <3> QED
      BY <3>9
  <2> QED
    BY <2>3, <2>4
<1>5. Nat \subseteq T
  <2> HIDE DEF T
  <2> QED
    BY <1>3, <1>4, Induction
<1>6. PICK p : Good(n, p)
  BY <1>5
<1>7. Upto(S, n) = S /\ Count(S, n) = Cardinality(S)
  BY DEF Upto, Count
<1> QED
  BY <1>1, <1>2, <1>6, <1>7 DEF Arrangement, ArrangedBy

----------------------------------------------------------------------------
----------------------------------------------------------------------------
(***************************************************************************)
(* Documents that the loop takes in.                                       *)
(***************************************************************************)
\* A list of n documents with numbers for indexes.
IsBatch(ds, n) ==
  /\ ds = [k \in 1 .. n |-> ds[k]]
  /\ Len(ds) = n
  /\ \A k \in 1 .. n : ds[k].index \in Nat

TakenIn(ds, n) ==
  \A k \in 1 .. n :
    /\ Complete(ds[k])
    /\ Len(ds[k].fdKey) = 2
    /\ ds[k].index <= k - 1
    /\ \A l \in DOMAIN ds[k].encData : ds[k].index <= Count(Carrying(ds, l), k - 1)

LEMMA Gathered ==
  ASSUME NEW n \in Nat, NEW ds, IsBatch(ds, n), Gathering(ds) = "kOk"
  PROVE  TakenIn(ds, n)
<1>1. DOMAIN ds = 1 .. n
  BY DEF IsBatch
<1> DEFINE stops == {k \in DOMAIN ds :
                       Throws(ds, k) \/ Rejected(ds, k) \/ PastEnd(ds, k)}
<1>2. stops = {}
  <2> SUFFICES ASSUME stops # {} PROVE FALSE
    OBVIOUS
  <2> HIDE DEF stops
  <2> QED
    BY DEF Gathering, stops
<1>3. ASSUME NEW k \in 1 .. n
      PROVE  /\ Complete(ds[k])
             /\ Len(ds[k].fdKey) = 2
             /\ ds[k].index <= k - 1
             /\ \A l \in DOMAIN ds[k].encData :
                  ds[k].index <= Count(Carrying(ds, l), k - 1)
  <2>1. ~Throws(ds, k) /\ ~Rejected(ds, k) /\ ~PastEnd(ds, k)
    BY <1>1, <1>2
  <2>2. /\ Complete(ds[k]) /\ ~CipherPastEnd(ds, k)
        /\ ~KeyRejected(ds, k) /\ ~KeyPastEnd(ds, k)
    BY <2>1 DEF Throws, Rejected, PastEnd
  <2>3. ds[k].index \in Nat
    BY DEF IsBatch
  <2>4. ASSUME NEW l \in DOMAIN ds[k].encData
        PROVE  ds[k].index <= Count(Carrying(ds, l), k - 1)
    <3> DEFINE c == Count(Carrying(ds, l), k - 1)
    <3>1. c \in Nat
      <4>1. k - 1 \in Nat
        OBVIOUS
      <4> QED
        BY <4>1, Counted DEF Count, Upto
    <3>2. ~(ds[k].index > c)
      BY <2>2 DEF CipherPastEnd, Count, Upto
    <3> HIDE DEF c
    <3>3. ds[k].index <= c
      BY <2>3, <3>1, <3>2
    <3> QED
      BY <3>3 DEF c
  <2> QED
    BY <2>2, <2>3, <2>4 DEF KeyRejected, KeyPastEnd
<1> QED
  BY <1>3 DEF TakenIn

LEMMA TakenInGathers ==
  ASSUME NEW n \in Nat, NEW ds, IsBatch(ds, n), TakenIn(ds, n)
  PROVE  Gathering(ds) = "kOk"
<1>1. DOMAIN ds = 1 .. n /\ Len(ds) = n
  BY DEF IsBatch
<1>2. ASSUME NEW k \in 1 .. n
      PROVE  ~Throws(ds, k) /\ ~Rejected(ds, k) /\ ~PastEnd(ds, k)
  <2>1. /\ Complete(ds[k]) /\ Len(ds[k].fdKey) = 2
        /\ ds[k].index \in Nat /\ ds[k].index <= k - 1
    BY DEF TakenIn, IsBatch
  <2>2. ~IndexRejected(ds, k) /\ ~KeyRejected(ds, k) /\ ~KeyPastEnd(ds, k)
    BY <1>1, <2>1 DEF IndexRejected, KeyRejected, KeyPastEnd
  <2>3. ASSUME NEW l \in DOMAIN ds[k].encData
        PROVE  ~(ds[k].index > Cardinality(Carrying(ds, l) \cap 1 .. (k - 1)))
    <3> DEFINE c == Count(Carrying(ds, l), k - 1)
    <3>1. c \in Nat
      <4>1. k - 1 \in Nat
        OBVIOUS
      <4> QED
        BY <4>1, Counted DEF Count, Upto
    <3>2. ds[k].index <= c
      BY DEF TakenIn
    <3> HIDE DEF c
    <3>3. ~(ds[k].index > c)
      BY <2>1, <3>1, <3>2
    <3> QED
      BY <3>3 DEF c, Count, Upto
  <2>4. ~CipherPastEnd(ds, k)
    BY <2>3 DEF CipherPastEnd
  <2> QED
    BY <2>1, <2>2, <2>4 DEF Throws, Rejected, PastEnd
<1>3. {k \in DOMAIN ds : Throws(ds, k) \/ Rejected(ds, k) \/ PastEnd(ds, k)} = {}
  BY <1>1, <1>2
<1> QED
  BY <1>3 DEF Gathering

\* The entries of the two kinds of vectors.
CipherEntries(ds, l) ==
  [k \in Carrying(ds, l) |-> [index |-> ds[k].index, item |-> ds[k].encData[l]]]
KeyEntries(ds) ==
  [k \in DOMAIN ds |-> [index |-> ds[k].index, item |-> Joined(ds[k].fdKey)]]

LEMMA CiphersCounted ==
  ASSUME NEW n \in Nat, NEW ds, IsBatch(ds, n), TakenIn(ds, n), NEW l
  PROVE  /\ Carrying(ds, l) \in SUBSET (1 .. n)
         /\ Len(Ciphers(ds, l)) = Cardinality(Carrying(ds, l))
<1> DEFINE S == Carrying(ds, l)
           e == CipherEntries(ds, l)
<1>1. S \in SUBSET (1 .. n) /\ DOMAIN e = S
  BY DEF Carrying, IsBatch, CipherEntries
<1>2. ASSUME NEW k \in S
      PROVE  e[k].index \in Nat /\ e[k].index <= Count(S, k - 1)
  <2>1. e[k].index = ds[k].index /\ k \in 1 .. n /\ l \in DOMAIN ds[k].encData
    BY <1>1 DEF CipherEntries, Carrying
  <2> QED
    BY <2>1 DEF IsBatch, TakenIn
<1>3. Ciphers(ds, l) = InsertedAt(e)
  BY DEF Ciphers, CipherEntries
<1>4. IsFiniteSet(S)
  <2>1. IsFiniteSet(1 .. n)
    BY FS_Interval
  <2> HIDE DEF S
  <2> QED
    BY <1>1, <2>1, FS_Subset
<1> HIDE DEF S, e
<1>5. Cardinality(S) \in Nat
  BY <1>4, FS_CardinalityType
<1>6. PICK p : InsertedAt(e) = Arranged(e, Cardinality(S), p)
  <2>1. \E p : ArrangedBy(p, S, e, e)
    BY <1>1, <1>2, ArrangedAlike
  <2> QED
    BY <2>1 DEF ArrangedBy
<1> DEFINE c == Cardinality(S)
<1> HIDE DEF c
<1>7. Len(Arranged(e, c, p)) = c
  BY <1>5 DEF Arranged, c
<1> QED
  BY <1>1, <1>3, <1>6, <1>7 DEF S, c

\* The key parts, and ciphers of a label that every document carries.
Vectors(ds, n, l, p) ==
  /\ p \in [1 .. n -> 1 .. n]
  /\ Ciphers(ds, l) = [m \in 1 .. n |-> ds[p[m]].encData[l]]
  /\ FdKeys(ds) = [m \in 1 .. n |-> Joined(ds[p[m]].fdKey)]
  /\ \A m \in 1 .. n : ds[p[m]].index <= m - 1

LEMMA VectorsAlike ==
  ASSUME NEW n \in Nat, NEW ds, IsBatch(ds, n), TakenIn(ds, n), NEW l,
         Carrying(ds, l) = 1 .. n
  PROVE  \E p : Vectors(ds, n, l, p)
<1> DEFINE e == CipherEntries(ds, l)
           d == KeyEntries(ds)
<1>1. /\ DOMAIN e = 1 .. n /\ DOMAIN d = 1 .. n
      /\ \A k \in 1 .. n : /\ e[k].index = ds[k].index
                           /\ d[k].index = ds[k].index
                           /\ e[k].item = ds[k].encData[l]
                           /\ d[k].item = Joined(ds[k].fdKey)
  BY DEF CipherEntries, KeyEntries, IsBatch
<1>2. Ciphers(ds, l) = InsertedAt(e) /\ FdKeys(ds) = InsertedAt(d)
  BY DEF Ciphers, FdKeys, CipherEntries, KeyEntries
<1> HIDE DEF e, d
<1>3. ASSUME NEW k \in 1 .. n
      PROVE  /\ e[k].index \in Nat /\ d[k].index = e[k].index
             /\ e[k].index <= Count(1 .. n, k - 1)
  <2>1. l \in DOMAIN ds[k].encData
    BY DEF Carrying
  <2> QED
    BY <1>1, <2>1 DEF IsBatch, TakenIn
<1>4. Cardinality(1 .. n) = n /\ 1 .. n \in SUBSET (1 .. n)
  BY FS_Interval
<1>5. PICK p \in [1 .. n -> 1 .. n] :
        /\ InsertedAt(e) = Arranged(e, n, p)
        /\ InsertedAt(d) = Arranged(d, n, p)
        /\ \A m \in 1 .. n : e[p[m]].index <= m - 1
  <2> DEFINE S == 1 .. n
  <2>1. /\ S \in SUBSET (1 .. n) /\ DOMAIN e = S /\ DOMAIN d = S
        /\ \A k \in S : /\ e[k].index \in Nat
                         /\ d[k].index = e[k].index
                         /\ e[k].index <= Count(S, k - 1)
    BY <1>1, <1>3
  <2>2. Cardinality(S) = n
    BY <1>4
  <2> HIDE DEF S
  <2>3. PICK p : ArrangedBy(p, S, e, d)
    BY <2>1, ArrangedAlike
  <2> QED
    BY <2>2, <2>3 DEF S, ArrangedBy
<1>6. ASSUME NEW m \in 1 .. n
      PROVE  /\ e[p[m]].item = ds[p[m]].encData[l]
             /\ d[p[m]].item = Joined(ds[p[m]].fdKey)
             /\ ds[p[m]].index <= m - 1
  BY <1>1, <1>5
<1>7. /\ Arranged(e, n, p) = [m \in 1 .. n |-> ds[p[m]].encData[l]]
      /\ Arranged(d, n, p) = [m \in 1 .. n |-> Joined(ds[p[m]].fdKey)]
  BY <1>6 DEF Arranged
<1>8. Vectors(ds, n, l, p)
  BY <1>2, <1>5, <1>6, <1>7 DEF Vectors
<1> QED
  BY <1>8

----------------------------------------------------------------------------
(***************************************************************************)
(* Decoding.  What is left in the buffer by another label is a cipher of   *)
(* that label.                                                             *)
(***************************************************************************)
\* t is what comes of document d, made with encryptor e.
DecodedFrom(t, d, e) ==
  /\ t.index = d.index /\ t.fdKey = d.fdKey /\ Complete(t)
  /\ DOMAIN t.encData = DOMAIN d.encData
  /\ \A l \in DOMAIN d.encData :
       \/ t.encData[l] = Blank
       \/ t.encData[l][1].label # l
       \/ t.encData[l] = d.encData[l]
  /\ \A l \in DOMAIN d.encData :
       d.encData[l] # Blank => t.encData[l] = d.encData[l]

LEMMA DecodedText ==
  ASSUME NEW e, NEW d, MadeBy(e, d), Complete(d), NEW t \in Decoded(d)
  PROVE  DecodedFrom(t, d, e)
<1> DEFINE buffers == {Blank} \cup {d.encData[l] : l \in DOMAIN d.encData}
<1>1. PICK f \in [DOMAIN d.encData -> buffers] :
        /\ t = [d EXCEPT !.encData = f]
        /\ \A l \in DOMAIN f : \E b \in buffers : f[l] \in fromBase64(b, d.encData[l])
  BY DEF Decoded
<1>2. d = AnalyticsData(d.index, [l \in DOMAIN d.encData |-> d.encData[l]], d.fdKey)
  BY DEF MadeBy
<1>3. /\ t.index = d.index /\ t.fdKey = d.fdKey /\ t.encData = f
      /\ Complete(t)
  <2> HIDE DEF buffers
  <2> QED
    BY <1>1, <1>2 DEF AnalyticsData, Complete
<1>4. ASSUME NEW l \in DOMAIN d.encData
      PROVE  \/ f[l] = Blank
             \/ f[l][1].label # l
             \/ f[l] = d.encData[l]
  <2> SUFFICES ASSUME f[l] # Blank, f[l] # d.encData[l] PROVE f[l][1].label # l
    OBVIOUS
  <2>1. f[l] \in buffers
    BY <1>1
  <2>2. PICK other \in DOMAIN d.encData : f[l] = d.encData[other]
    BY <2>1
  <2>3. other # l
    BY <2>2
  <2>4. f[l] = G1(encrypt(e, other, d.encData[other][1].value))
    BY <2>2 DEF MadeBy
  <2> QED
    BY <2>3, <2>4 DEF G1, encrypt
<1> HIDE DEF buffers
<1>5. ASSUME NEW l \in DOMAIN d.encData, d.encData[l] # Blank
      PROVE  f[l] = d.encData[l]
  BY <1>1, <1>5 DEF fromBase64
<1> QED
  BY <1>1, <1>3, <1>4, <1>5 DEF DecodedFrom

\* The encryptors that the documents were made with.
MadeIn(ds, n, maker) == \A k \in 1 .. n : MadeBy(maker[k], ds[k])

DecodedList(s, ds, n, maker) ==
  /\ s = [k \in 1 .. n |-> s[k]]
  /\ \A k \in 1 .. n : DecodedFrom(s[k], ds[k], maker[k])

LEMMA DecodedDocuments ==
  ASSUME NEW n \in Nat, NEW ds, IsBatch(ds, n), TakenIn(ds, n),
         NEW maker, MadeIn(ds, n, maker), NEW s \in Decodings(ds)
  PROVE  DecodedList(s, ds, n, maker)
<1>1. DOMAIN ds = 1 .. n
  BY DEF IsBatch
<1>2. /\ s = [k \in 1 .. n |-> s[k]]
      /\ \A k \in 1 .. n : s[k] \in Decoded(ds[k])
  BY <1>1 DEF Decodings
<1>3. ASSUME NEW k \in 1 .. n PROVE DecodedFrom(s[k], ds[k], maker[k])
  <2>1. MadeBy(maker[k], ds[k]) /\ Complete(ds[k])
    BY DEF MadeIn, TakenIn
  <2> QED
    BY <1>2, <2>1, DecodedText
<1> QED
  BY <1>2, <1>3 DEF DecodedList

LEMMA SameAfterDecoding ==
  ASSUME NEW n \in Nat, NEW ds, IsBatch(ds, n), TakenIn(ds, n),
         NEW maker, NEW s, DecodedList(s, ds, n, maker)
  PROVE  /\ IsBatch(s, n) /\ TakenIn(s, n)
         /\ \A l : Carrying(s, l) = Carrying(ds, l)
         /\ Labels(s) = Labels(ds)
<1>1. ASSUME NEW k \in 1 .. n
      PROVE  /\ s[k].index = ds[k].index /\ s[k].fdKey = ds[k].fdKey
             /\ Complete(s[k]) /\ Complete(ds[k])
             /\ DOMAIN s[k].encData = DOMAIN ds[k].encData
  BY DEF DecodedList, DecodedFrom, TakenIn
<1>2. DOMAIN s = 1 .. n /\ DOMAIN ds = 1 .. n /\ s = [k \in 1 .. n |-> s[k]]
  BY DEF IsBatch, DecodedList
<1>3. ASSUME NEW l PROVE Carrying(s, l) = Carrying(ds, l)
  BY <1>1, <1>2 DEF Carrying
<1>4. IsBatch(s, n)
  <2>1. Len(s) = n
    BY <1>2
  <2> QED
    BY <1>1, <1>2, <2>1 DEF IsBatch
<1>5. TakenIn(s, n)
  BY <1>1, <1>3 DEF TakenIn
<1>6. Labels(s) = Labels(ds)
  <2>1. ASSUME NEW l
        PROVE  /\ l \in Labels(s) <=> \E k \in 1 .. n : l \in DOMAIN s[k].encData
               /\ l \in Labels(ds) <=> \E k \in 1 .. n : l \in DOMAIN ds[k].encData
    BY <1>1, <1>2 DEF Labels, Range
  <2> QED
    BY <1>1, <2>1
<1> QED
  BY <1>3, <1>4, <1>5, <1>6

----------------------------------------------------------------------------
(***************************************************************************)
(* What makes masks cancel.                                                *)
(***************************************************************************)
\* A function that is below its argument, at different values, is the identity.
LEMMA NoneBelow ==
  ASSUME NEW n \in Nat, NEW h,
         \A j \in 1 .. n : h[j] \in 1 .. n /\ h[j] <= j,
         \A i, j \in 1 .. n : h[i] = h[j] => i = j
  PROVE  \A j \in 1 .. n : h[j] = j
<1> SUFFICES ASSUME NEW j \in 1 .. n, h[j] # j PROVE FALSE
  OBVIOUS
<1> DEFINE S == {i \in 1 .. n : h[i] # i}
<1>1. PICK i \in S : \A k \in S : i <= k
  <2>1. S \in SUBSET Nat /\ j \in S
    OBVIOUS
  <2> HIDE DEF S
  <2> QED
    BY <2>1, LeastNumber
<1>2. h[i] \in 1 .. n /\ h[i] < i
  BY <1>1
<1>3. h[h[i]] = h[i]
  BY <1>1, <1>2
<1> QED
  BY <1>1, <1>2, <1>3

Of(fdKeys, S, p) == {t \in S : Pair(fdKeys, t) = p}

\* The terms with one sign and those with the other, matched.
Matching(F, fdKeys) ==
  /\ F \in Bijection(Added(fdKeys), Subtracted(fdKeys))
  /\ \A t \in Added(fdKeys) : Pair(fdKeys, F[t]) = Pair(fdKeys, t)

\* Matched pair by pair.
LEMMA MatchingExists ==
  ASSUME NEW fdKeys, IsFiniteSet(Terms(fdKeys)), MasksCancel(fdKeys)
  PROVE  \E F : Matching(F, fdKeys)
<1> DEFINE A(p) == Of(fdKeys, Added(fdKeys), p)
           S(p) == Of(fdKeys, Subtracted(fdKeys), p)
           pairs == {Pair(fdKeys, t) : t \in Terms(fdKeys)}
           B == [p \in pairs |-> CHOOSE f : f \in Bijection(A(p), S(p))]
           F == [t \in Added(fdKeys) |-> B[Pair(fdKeys, t)][t]]
<1>1. /\ Added(fdKeys) \in SUBSET Terms(fdKeys)
      /\ Subtracted(fdKeys) \in SUBSET Terms(fdKeys)
  BY DEF Added, Subtracted
<1>2. ASSUME NEW p \in pairs PROVE B[p] \in Bijection(A(p), S(p))
  <2>1. A(p) \in SUBSET Terms(fdKeys) /\ S(p) \in SUBSET Terms(fdKeys)
    BY <1>1 DEF Of
  <2>2. Cardinality(A(p)) = Cardinality(S(p))
    BY DEF MasksCancel, Terms, Pair, Added, Subtracted, Of
  <2> HIDE DEF A, S
  <2>3. IsFiniteSet(A(p)) /\ IsFiniteSet(S(p))
    BY <2>1, FS_Subset
  <2>4. ExistsBijection(A(p), S(p))
    BY <2>2, <2>3, FS_SameCardinalityBij
  <2>5. \E f : f \in Bijection(A(p), S(p))
    BY <2>4 DEF ExistsBijection
  <2> HIDE DEF pairs
  <2> QED
    BY <2>5
<1> HIDE DEF B
<1>3. ASSUME NEW p \in pairs
      PROVE  /\ \A t \in A(p) : B[p][t] \in S(p)
             /\ \A t, u \in A(p) : B[p][t] = B[p][u] => t = u
             /\ \A u \in S(p) : \E t \in A(p) : B[p][t] = u
  <2> HIDE DEF A, S
  <2> QED
    BY <1>2 DEF Bijection, Injection, Surjection, IsInjective
<1>4. /\ \A t \in Added(fdKeys) : Pair(fdKeys, t) \in pairs /\ t \in A(Pair(fdKeys, t))
      /\ \A t \in Subtracted(fdKeys) :
           Pair(fdKeys, t) \in pairs /\ t \in S(Pair(fdKeys, t))
      /\ \A p : \A t \in A(p) : t \in Added(fdKeys) /\ Pair(fdKeys, t) = p
      /\ \A p : \A t \in S(p) : t \in Subtracted(fdKeys) /\ Pair(fdKeys, t) = p
  BY <1>1 DEF Of
<1> HIDE DEF pairs, A, S
<1>5. ASSUME NEW t \in Added(fdKeys)
      PROVE  F[t] \in Subtracted(fdKeys) /\ Pair(fdKeys, F[t]) = Pair(fdKeys, t)
  BY <1>3, <1>4
<1>6. ASSUME NEW t \in Added(fdKeys), NEW u \in Added(fdKeys), F[t] = F[u]
      PROVE  t = u
  <2>1. Pair(fdKeys, t) = Pair(fdKeys, u)
    BY <1>5, <1>6
  <2>2. B[Pair(fdKeys, t)][t] = B[Pair(fdKeys, t)][u]
    BY <1>6, <2>1
  <2> QED
    BY <1>3, <1>4, <2>1, <2>2
<1>7. ASSUME NEW u \in Subtracted(fdKeys) PROVE \E t \in Added(fdKeys) : F[t] = u
  <2>1. PICK t \in A(Pair(fdKeys, u)) : B[Pair(fdKeys, u)][t] = u
    BY <1>3, <1>4
  <2>2. t \in Added(fdKeys) /\ Pair(fdKeys, t) = Pair(fdKeys, u)
    BY <1>4
  <2> QED
    BY <2>1, <2>2
<1>8. F \in [Added(fdKeys) -> Subtracted(fdKeys)]
  BY <1>5
<1> HIDE DEF F
<1>9. Matching(F, fdKeys)
  BY <1>5, <1>6, <1>7, <1>8 DEF Matching, Bijection, Injection, Surjection, IsInjective
<1> QED
  BY <1>9

(***************************************************************************)
(* Key parts no one of which is before its own place, and likewise every   *)
(* key in their lists: what insertion at the index leaves, whatever was    *)
(* inserted.                                                               *)
(***************************************************************************)
NoneBefore(part, n, place) ==
  /\ part = [m \in 1 .. n |-> part[m]]
  /\ \A m \in 1 .. n :
       /\ part[m].index \in Nat /\ part[m].index <= m - 1
       /\ place[part[m].key] = part[m].index
       /\ DOMAIN part[m].peers = 1 .. n
       /\ \A j \in 1 .. n :
            /\ place[part[m].peers[j]] \in Nat
            /\ place[part[m].peers[j]] <= j - 1

\* The pairs of numbers on one side of the diagonal, and further on than t.
Below(n, t) == {u \in (1 .. n) \X (1 .. n) : u[2] < u[1] /\ u[1] >= t}
Above(n, t) == {u \in (1 .. n) \X (1 .. n) : u[1] < u[2] /\ u[2] >= t}

LEMMA Mirrored ==
  ASSUME NEW n \in Nat, NEW t
  PROVE  /\ IsFiniteSet(Below(n, t)) /\ IsFiniteSet(Above(n, t))
         /\ Cardinality(Below(n, t)) = Cardinality(Above(n, t))
<1> DEFINE A == Below(n, t)
           S == Above(n, t)
           f == [u \in A |-> <<u[2], u[1]>>]
<1>1. ASSUME NEW u \in A PROVE <<u[2], u[1]>> \in S
  BY DEF Below, Above
<1>2. ASSUME NEW u \in A, NEW w \in A, f[u] = f[w] PROVE u = w
  <2>1. PICK i \in 1 .. n, j \in 1 .. n : u = <<i, j>>
    BY DEF Below
  <2>2. PICK k \in 1 .. n, m \in 1 .. n : w = <<k, m>>
    BY DEF Below
  <2>3. f[u] = <<j, i>> /\ f[w] = <<m, k>>
    BY <2>1, <2>2
  <2> HIDE DEF f
  <2> QED
    BY <1>2, <2>1, <2>2, <2>3
<1>3. ASSUME NEW w \in S PROVE \E u \in A : f[u] = w
  <2>1. PICK i \in 1 .. n, j \in 1 .. n : w = <<i, j>>
    BY DEF Above
  <2>2. <<j, i>> \in A
    BY <2>1 DEF Below, Above
  <2>3. f[<<j, i>>] = w
    BY <2>1, <2>2
  <2> QED
    BY <2>2, <2>3
<1>4. f \in [A -> S]
  BY <1>1
<1>5. IsFiniteSet(A)
  <2>1. IsFiniteSet(1 .. n)
    BY FS_Interval
  <2>2. IsFiniteSet((1 .. n) \X (1 .. n))
    BY <2>1, FS_Product
  <2>3. A \in SUBSET ((1 .. n) \X (1 .. n))
    BY DEF Below
  <2> QED
    BY <2>2, <2>3, FS_Subset
<1> HIDE DEF f, A, S
<1>6. f \in Bijection(A, S)
  BY <1>2, <1>3, <1>4 DEF Bijection, Injection, Surjection, IsInjective
<1>7. ExistsBijection(A, S)
  BY <1>6 DEF ExistsBijection
<1> QED
  BY <1>5, <1>7, FS_Bijection DEF A, S

\* As many terms have the one sign as have the other only if every key part is at
\* its place.
LEMMA PartsInPlace ==
  ASSUME NEW n \in Nat, NEW part, NEW place, NoneBefore(part, n, place),
         NEW F, Matching(F, part)
  PROVE  /\ Terms(part) = (1 .. n) \X (1 .. n)
         /\ \A m \in 1 .. n : part[m].index = m - 1
<1>1. Terms(part) = (1 .. n) \X (1 .. n)
  <2>1. DOMAIN part = 1 .. n /\ \A m \in 1 .. n : DOMAIN part[m].peers = 1 .. n
    BY DEF NoneBefore
  <2>2. ASSUME NEW t PROVE t \in Terms(part) <=> t \in (1 .. n) \X (1 .. n)
    BY <2>1 DEF Terms
  <2> QED
    BY <2>2
<1>2. ASSUME NEW m \in 1 .. n, NEW j \in 1 .. n
      PROVE  /\ <<m, j>> \in Added(part) <=> j - 1 < part[m].index
             /\ <<m, j>> \in Subtracted(part) <=> j - 1 > part[m].index
             /\ <<m, j>> \in Below(n, 0) <=> j < m
             /\ <<m, j>> \in Above(n, 0) <=> j > m
             /\ part[m].index \in Nat /\ part[m].index <= m - 1
  BY <1>1 DEF Added, Subtracted, Below, Above, NoneBefore
<1>3. /\ \A t \in Added(part) : \E m, j \in 1 .. n : t = <<m, j>>
      /\ \A t \in Above(n, 0) : \E m, j \in 1 .. n : t = <<m, j>>
  BY <1>1 DEF Added, Above
<1>4. Added(part) \subseteq Below(n, 0)
  <2> SUFFICES ASSUME NEW t \in Added(part) PROVE t \in Below(n, 0)
    OBVIOUS
  <2>1. PICK m \in 1 .. n, j \in 1 .. n : t = <<m, j>>
    BY <1>3
  <2>2. j - 1 < part[m].index /\ part[m].index \in Nat /\ part[m].index <= m - 1
    BY <1>2, <2>1
  <2>3. j < m
    BY <2>2
  <2> QED
    BY <1>2, <2>1, <2>3
<1>5. Above(n, 0) \subseteq Subtracted(part)
  <2> SUFFICES ASSUME NEW t \in Above(n, 0) PROVE t \in Subtracted(part)
    OBVIOUS
  <2>1. PICK m \in 1 .. n, j \in 1 .. n : t = <<m, j>>
    BY <1>3
  <2>2. j > m /\ part[m].index \in Nat /\ part[m].index <= m - 1
    BY <1>2, <2>1
  <2>3. j - 1 > part[m].index
    BY <2>2
  <2> QED
    BY <1>2, <2>1, <2>3
<1>6. /\ IsFiniteSet(Added(part)) /\ IsFiniteSet(Subtracted(part))
      /\ Cardinality(Added(part)) = Cardinality(Subtracted(part))
  <2>1. IsFiniteSet(Added(part))
    BY <1>4, Mirrored, FS_Subset
  <2>2. ExistsBijection(Added(part), Subtracted(part))
    BY DEF Matching, ExistsBijection
  <2> QED
    BY <2>1, <2>2, FS_Bijection
<1>7. Added(part) = Below(n, 0)
  <2> DEFINE A == Added(part)
             S == Subtracted(part)
             L == Below(n, 0)
             U == Above(n, 0)
  <2> HIDE DEF A, S, L, U
  <2>1. /\ IsFiniteSet(L) /\ IsFiniteSet(U) /\ Cardinality(L) = Cardinality(U)
    BY Mirrored DEF L, U
  <2>2. /\ A \in SUBSET L /\ U \in SUBSET S
        /\ IsFiniteSet(A) /\ IsFiniteSet(S) /\ Cardinality(A) = Cardinality(S)
    BY <1>4, <1>5, <1>6 DEF A, S, L, U
  <2>3. Cardinality(A) <= Cardinality(L) /\ (Cardinality(L) = Cardinality(A) => L = A)
    BY <2>1, <2>2, FS_Subset
  <2>4. Cardinality(U) <= Cardinality(S)
    BY <2>2, FS_Subset
  <2>5. Cardinality(A) \in Nat /\ Cardinality(L) \in Nat
    BY <2>1, <2>2, FS_CardinalityType
  <2> QED
    BY <2>1, <2>2, <2>3, <2>4, <2>5 DEF A, L
<1>8. ASSUME NEW m \in 1 .. n PROVE part[m].index = m - 1
  <2> DEFINE i == part[m].index
             j == i + 1
  <2>1. i \in Nat /\ i <= m - 1 /\ m \in 1 .. n
    BY <1>2
  <2> HIDE DEF i
  <2> SUFFICES ASSUME i < m - 1 PROVE FALSE
    BY <2>1 DEF i
  <2>2. j \in 1 .. n /\ j < m /\ ~(j - 1 < i)
    BY <2>1
  <2> HIDE DEF j
  <2>3. <<m, j>> \in Added(part)
    BY <1>2, <1>7, <2>2
  <2>4. j - 1 < part[m].index
    BY <1>2, <2>2, <2>3
  <2> QED
    BY <2>2, <2>4 DEF i
<1> QED
  BY <1>1, <1>8

\* Does one of the two owners have a place from t on?
High(part, place, u, t) == \E key \in Pair(part, u) : place[key] + 1 >= t

LEMMA HighMatched ==
  ASSUME NEW part, NEW place, NEW F, Matching(F, part), NEW t,
         IsFiniteSet({u \in Added(part) : High(part, place, u, t)})
  PROVE  LET A == {u \in Added(part) : High(part, place, u, t)}
             S == {u \in Subtracted(part) : High(part, place, u, t)}
         IN  IsFiniteSet(S) /\ Cardinality(A) = Cardinality(S)
<1> DEFINE A == {u \in Added(part) : High(part, place, u, t)}
           S == {u \in Subtracted(part) : High(part, place, u, t)}
           f == [u \in A |-> F[u]]
<1>1. /\ \A u \in Added(part) : F[u] \in Subtracted(part)
      /\ \A u, w \in Added(part) : F[u] = F[w] => u = w
      /\ \A w \in Subtracted(part) : \E u \in Added(part) : F[u] = w
      /\ \A u \in Added(part) :
           High(part, place, F[u], t) <=> High(part, place, u, t)
  BY DEF Matching, Bijection, Injection, Surjection, IsInjective, High
<1>2. \A u \in A : f[u] \in S
  BY <1>1
<1>3. \A u, w \in A : f[u] = f[w] => u = w
  BY <1>1
<1>4. \A w \in S : \E u \in A : f[u] = w
  BY <1>1
<1>5. f \in [A -> S]
  BY <1>2
<1> HIDE DEF f, A, S
<1>6. f \in Bijection(A, S)
  BY <1>3, <1>4, <1>5 DEF Bijection, Injection, Surjection, IsInjective
<1>7. ExistsBijection(A, S) /\ IsFiniteSet(A)
  BY <1>6 DEF ExistsBijection, A
<1> QED
  BY <1>7, FS_Bijection DEF A, S

\* A part of the keys after the own place is at theirs.
LEMMA LaterInPlace ==
  ASSUME NEW n \in Nat, NEW part, NEW place, NoneBefore(part, n, place),
         NEW F, Matching(F, part), NEW m \in 1 .. n, NEW t \in 1 .. n, t > m
  PROVE  place[part[m].peers[t]] = t - 1
<1>1. /\ Terms(part) = (1 .. n) \X (1 .. n)
      /\ \A i \in 1 .. n : part[i].index = i - 1
  BY PartsInPlace
<1>2. ASSUME NEW i \in 1 .. n, NEW j \in 1 .. n
      PROVE  /\ <<i, j>> \in Added(part) <=> j < i
             /\ <<i, j>> \in Subtracted(part) <=> j > i
             /\ Pair(part, <<i, j>>) = {part[i].key, part[i].peers[j]}
             /\ <<i, j>> \in Below(n, t) <=> j < i /\ i >= t
             /\ <<i, j>> \in Above(n, t) <=> j > i /\ j >= t
             /\ place[part[i].key] = i - 1
             /\ place[part[i].peers[j]] \in Nat
             /\ place[part[i].peers[j]] <= j - 1
  <2>1. part[i].index = i - 1
    BY <1>1
  <2>2. <<i, j>> \in Terms(part)
    BY <1>1
  <2>3. /\ <<i, j>> \in Added(part) <=> j < i
        /\ <<i, j>> \in Subtracted(part) <=> j > i
    BY <2>1, <2>2 DEF Added, Subtracted
  <2>4. /\ place[part[i].key] = i - 1
        /\ place[part[i].peers[j]] \in Nat
        /\ place[part[i].peers[j]] <= j - 1
    BY <2>1 DEF NoneBefore
  <2>5. Pair(part, <<i, j>>) = {part[i].key, part[i].peers[j]}
    BY DEF Pair
  <2>6. /\ <<i, j>> \in Below(n, t) <=> j < i /\ i >= t
        /\ <<i, j>> \in Above(n, t) <=> j > i /\ j >= t
    BY DEF Below, Above
  <2> QED
    BY <2>3, <2>4, <2>5, <2>6
<1>3. ASSUME NEW i \in 1 .. n, NEW j \in 1 .. n
      PROVE  High(part, place, <<i, j>>, t)
               <=> (i >= t \/ place[part[i].peers[j]] + 1 >= t)
  <2>1. /\ Pair(part, <<i, j>>) = {part[i].key, part[i].peers[j]}
        /\ place[part[i].key] = i - 1
    BY <1>2
  <2>2. High(part, place, <<i, j>>, t)
          <=> (place[part[i].key] + 1 >= t \/ place[part[i].peers[j]] + 1 >= t)
    BY <2>1 DEF High
  <2>3. (i - 1) + 1 = i
    OBVIOUS
  <2> QED
    BY <2>1, <2>2, <2>3
<1> DEFINE A == {u \in Added(part) : High(part, place, u, t)}
           S == {u \in Subtracted(part) : High(part, place, u, t)}
<1>4. /\ \A u \in Added(part) \cup Subtracted(part) \cup Below(n, t) :
           \E i, j \in 1 .. n : u = <<i, j>>
  BY <1>1 DEF Added, Subtracted, Below
<1>5. A = Below(n, t)
  <2>1. ASSUME NEW i \in 1 .. n, NEW j \in 1 .. n
        PROVE  <<i, j>> \in A <=> <<i, j>> \in Below(n, t)
    <3> DEFINE x == place[part[i].peers[j]]
    <3>1. /\ x \in Nat /\ x <= j - 1
          /\ <<i, j>> \in A <=> j < i /\ (i >= t \/ x + 1 >= t)
      BY <1>2, <1>3
    <3> HIDE DEF x, A
    <3>2. <<i, j>> \in A <=> j < i /\ i >= t
      BY <3>1
    <3> QED
      BY <1>2, <3>2
  <2>2. A \subseteq Added(part)
    OBVIOUS
  <2> HIDE DEF A
  <2> QED
    BY <1>4, <2>1, <2>2
<1>6. S \subseteq Above(n, t)
  <2>1. ASSUME NEW i \in 1 .. n, NEW j \in 1 .. n, <<i, j>> \in S
        PROVE  <<i, j>> \in Above(n, t)
    <3> DEFINE x == place[part[i].peers[j]]
    <3>1. /\ x \in Nat /\ x <= j - 1 /\ j > i /\ (i >= t \/ x + 1 >= t)
      BY <1>2, <1>3, <2>1
    <3> HIDE DEF x
    <3>2. j > i /\ j >= t
      BY <3>1
    <3> QED
      BY <1>2, <3>2
  <2>2. S \subseteq Subtracted(part)
    OBVIOUS
  <2> HIDE DEF S
  <2> QED
    BY <1>4, <2>1, <2>2
<1>7. /\ IsFiniteSet(A) /\ IsFiniteSet(S) /\ Cardinality(A) = Cardinality(S)
  <2>1. IsFiniteSet(A)
    BY <1>5, Mirrored
  <2> QED
    BY <2>1, HighMatched
<1>8. S = Above(n, t)
  <2>1. /\ IsFiniteSet(Above(n, t))
        /\ Cardinality(Below(n, t)) = Cardinality(Above(n, t))
    BY Mirrored
  <2>2. Cardinality(Above(n, t)) = Cardinality(S)
    BY <1>5, <1>7, <2>1
  <2> HIDE DEF A, S
  <2> QED
    BY <1>6, <2>1, <2>2, FS_Subset
<1>9. <<m, t>> \in Above(n, t)
  BY <1>2
<1> DEFINE x == place[part[m].peers[t]]
<1>10. High(part, place, <<m, t>>, t)
  BY <1>8, <1>9
<1>11. x \in Nat /\ x <= t - 1 /\ (m >= t \/ x + 1 >= t)
  BY <1>2, <1>3, <1>10
<1> HIDE DEF x
<1>12. x = t - 1
  BY <1>11
<1> QED
  BY <1>12 DEF x

(***************************************************************************)
(* Masks cancel of no key parts but those of clients who knew each other's *)
(* keys, each at its place: whatever lists the clients were given, with    *)
(* keys left out, replaced or repeated, as long as insertion at the index  *)
(* made vectors of them (dmcfe_encryptor.cpp, core.cpp:88-105, 199-213).   *)
(***************************************************************************)
THEOREM OnlyMutualMasksCancel ==
  ASSUME NEW n \in Nat, NEW part, NEW place, NoneBefore(part, n, place),
         MasksCancel(part)
  PROVE  \A m \in 1 .. n :
           /\ part[m].index = m - 1
           /\ \A j \in 1 .. n : j # m => part[m].peers[j] = part[j].key
<1>0. DOMAIN part = 1 .. n /\ \A m \in 1 .. n : DOMAIN part[m].peers = 1 .. n
  BY DEF NoneBefore
<1>1. PICK F : Matching(F, part)
  <2>1. ASSUME NEW t PROVE t \in Terms(part) <=> t \in (1 .. n) \X (1 .. n)
    BY <1>0 DEF Terms
  <2>2. Terms(part) = (1 .. n) \X (1 .. n)
    BY <2>1
  <2>3. IsFiniteSet(1 .. n)
    BY FS_Interval
  <2>4. IsFiniteSet(Terms(part))
    BY <2>2, <2>3, FS_Product
  <2> QED
    BY <2>4, MatchingExists
<1>2. /\ Terms(part) = (1 .. n) \X (1 .. n)
      /\ \A i \in 1 .. n : part[i].index = i - 1
  BY <1>1, PartsInPlace
<1>3. ASSUME NEW i \in 1 .. n, NEW j \in 1 .. n
      PROVE  /\ <<i, j>> \in Added(part) <=> j < i
             /\ <<i, j>> \in Subtracted(part) <=> j > i
             /\ Pair(part, <<i, j>>) = {part[i].key, part[i].peers[j]}
             /\ place[part[i].key] = i - 1
             /\ place[part[i].peers[j]] \in Nat
             /\ place[part[i].peers[j]] <= j - 1
  <2>1. part[i].index = i - 1 /\ <<i, j>> \in Terms(part)
    BY <1>2
  <2>2. /\ <<i, j>> \in Added(part) <=> j < i
        /\ <<i, j>> \in Subtracted(part) <=> j > i
    BY <2>1 DEF Added, Subtracted
  <2>3. /\ place[part[i].key] = i - 1
        /\ place[part[i].peers[j]] \in Nat
        /\ place[part[i].peers[j]] <= j - 1
    BY <2>1 DEF NoneBefore
  <2>4. Pair(part, <<i, j>>) = {part[i].key, part[i].peers[j]}
    BY DEF Pair
  <2> QED
    BY <2>2, <2>3, <2>4
<1>4. ASSUME NEW m \in 1 .. n, NEW j \in 1 .. n, j < m
      PROVE  \E i \in 1 .. n :
               /\ F[<<m, j>>] = <<i, m>> /\ i <= j
               /\ part[m].peers[j] = part[i].key
               /\ part[i].peers[m] = part[m].key
  <2>1. /\ F[<<m, j>>] \in Subtracted(part)
        /\ Pair(part, F[<<m, j>>]) = Pair(part, <<m, j>>)
    BY <1>1, <1>3, <1>4 DEF Matching, Bijection, Injection
  <2>2. PICK i \in 1 .. n, t \in 1 .. n : F[<<m, j>>] = <<i, t>>
    BY <1>2, <2>1 DEF Subtracted
  <2>3. t > i /\ {part[i].key, part[i].peers[t]} = {part[m].key, part[m].peers[j]}
    <3>1. <<i, t>> \in Subtracted(part)
      BY <2>1, <2>2
    <3>2. Pair(part, <<i, t>>) = Pair(part, <<m, j>>)
      BY <2>1, <2>2
    <3>3. /\ t > i
          /\ Pair(part, <<i, t>>) = {part[i].key, part[i].peers[t]}
      BY <1>3, <3>1
    <3>4. Pair(part, <<m, j>>) = {part[m].key, part[m].peers[j]}
      BY <1>3
    <3> QED
      BY ONLY <3>2, <3>3, <3>4
  <2>4. /\ place[part[i].key] = i - 1 /\ place[part[m].key] = m - 1
        /\ place[part[i].peers[t]] = t - 1
    <3>1. t > i
      BY <2>3
    <3>2. place[part[i].peers[t]] = t - 1
      BY ONLY <1>1, <3>1, n \in Nat, NoneBefore(part, n, place), i \in 1 .. n,
              t \in 1 .. n, LaterInPlace
    <3>3. /\ place[part[i].key] = i - 1 /\ place[part[m].key] = m - 1
      BY <1>3
    <3> QED
      BY ONLY <3>2, <3>3
  <2> DEFINE x == place[part[m].peers[j]]
  <2>5. x \in Nat /\ x <= j - 1
    BY <1>3
  <2>6. part[i].key # part[m].key
    <3> SUFFICES ASSUME part[i].key = part[m].key PROVE FALSE
      OBVIOUS
    <3>1. i - 1 = m - 1
      BY <2>4
    <3>2. part[i].peers[t] = part[m].key \/ part[i].peers[t] = part[m].peers[j]
      BY <2>3
    <3>3. t - 1 = m - 1 \/ t - 1 = x
      BY <2>4, <3>2
    <3> HIDE DEF x
    <3> QED
      BY <1>4, <2>3, <2>5, <3>1, <3>3
  <2>7. part[i].key = part[m].peers[j] /\ part[i].peers[t] = part[m].key
    BY <2>3, <2>6
  <2>8. x = i - 1 /\ t - 1 = m - 1
    BY <2>4, <2>7
  <2> HIDE DEF x
  <2>9. i <= j /\ t = m
    BY <2>5, <2>8
  <2> QED
    BY <2>2, <2>7, <2>9
<1>5. ASSUME NEW m \in 1 .. n, NEW j \in 1 .. n, j < m
      PROVE  part[m].peers[j] = part[j].key /\ part[j].peers[m] = part[m].key
  <2> DEFINE h == [k \in 1 .. (m - 1) |-> F[<<m, k>>][1]]
  <2>1. ASSUME NEW k \in 1 .. (m - 1)
        PROVE  /\ h[k] \in 1 .. (m - 1) /\ h[k] <= k
               /\ F[<<m, k>>] = <<h[k], m>>
               /\ part[m].peers[k] = part[h[k]].key
               /\ part[h[k]].peers[m] = part[m].key
    <3>1. k \in 1 .. n /\ k < m
      OBVIOUS
    <3>2. PICK i \in 1 .. n :
            /\ F[<<m, k>>] = <<i, m>> /\ i <= k
            /\ part[m].peers[k] = part[i].key
            /\ part[i].peers[m] = part[m].key
      BY <1>4, <3>1
    <3>3. h[k] = i
      BY <3>2
    <3> HIDE DEF h
    <3> QED
      BY <3>1, <3>2, <3>3
  <2> HIDE DEF h
  <2>2. ASSUME NEW k \in 1 .. (m - 1), NEW i \in 1 .. (m - 1), h[k] = h[i]
        PROVE  k = i
    <3>1. F[<<m, k>>] = F[<<m, i>>]
      BY <2>1, <2>2
    <3>2. k \in 1 .. n /\ k < m /\ i \in 1 .. n /\ i < m
      OBVIOUS
    <3>3. <<m, k>> \in Added(part) /\ <<m, i>> \in Added(part)
      BY <1>3, <3>2
    <3>4. <<m, k>> = <<m, i>>
      BY <1>1, <3>1, <3>3 DEF Matching, Bijection, Injection, IsInjective
    <3> QED
      BY <3>4
  <2>3. \A k \in 1 .. (m - 1) : h[k] = k
    <3>1. m - 1 \in Nat
      OBVIOUS
    <3>2. \A k \in 1 .. (m - 1) : h[k] \in 1 .. (m - 1) /\ h[k] <= k
      BY <2>1
    <3> QED
      BY ONLY <2>2, <3>1, <3>2, NoneBelow
  <2>4. j \in 1 .. (m - 1)
    BY <1>5
  <2>5. h[j] = j
    BY <2>3, <2>4
  <2> QED
    BY <2>1, <2>4, <2>5
<1>6. ASSUME NEW m \in 1 .. n, NEW j \in 1 .. n, j # m
      PROVE  part[m].peers[j] = part[j].key
  <2>1. j < m \/ m < j
    BY <1>6
  <2> QED
    BY <1>5, <2>1
<1> QED
  BY <1>2, <1>6

----------------------------------------------------------------------------
(***************************************************************************)
(* What is decrypted.                                                      *)
(***************************************************************************)
\* The places of the keys.
PlaceOf(encryptors) ==
  [key \in {e.key : e \in encryptors} |->
     (CHOOSE e \in encryptors : e.key = key).index]

LEMMA PlaceKnown ==
  ASSUME NEW encryptors, NoKeyEarly(encryptors), NEW e \in encryptors
  PROVE  /\ PlaceOf(encryptors)[e.key] = e.index
         /\ e.peers # NoPeers => \A j \in 1 .. e.length :
              /\ PlaceOf(encryptors)[e.peers[j]] \in Nat
              /\ PlaceOf(encryptors)[e.peers[j]] <= j - 1
<1>1. ASSUME NEW q \in encryptors PROVE PlaceOf(encryptors)[q.key] = q.index
  <2> DEFINE other == CHOOSE x \in encryptors : x.key = q.key
  <2>1. other \in encryptors /\ other.key = q.key
    OBVIOUS
  <2>2. PlaceOf(encryptors)[q.key] = other.index
    BY DEF PlaceOf
  <2> HIDE DEF other
  <2>3. other.index = q.index
    BY <2>1 DEF NoKeyEarly
  <2> QED
    BY <2>2, <2>3
<1>2. ASSUME e.peers # NoPeers, NEW j \in 1 .. e.length
      PROVE  /\ PlaceOf(encryptors)[e.peers[j]] \in Nat
             /\ PlaceOf(encryptors)[e.peers[j]] <= j - 1
  <2>1. PICK q \in encryptors : q.key = e.peers[j] /\ q.index < j
    BY <1>2 DEF NoKeyEarly
  <2>2. q.index \in Nat
    BY DEF NoKeyEarly
  <2>3. j \in Int
    OBVIOUS
  <2>4. q.index <= j - 1
    BY <2>1, <2>2, <2>3
  <2> QED
    BY <1>1, <2>1, <2>2, <2>4
<1> QED
  BY <1>1, <1>2

\* Key parts that their makers derived from a share are none of them early.
LEMMA DerivedNoneBefore ==
  ASSUME NEW encryptors, NoKeyEarly(encryptors), NEW n \in Nat,
         NEW part, part = [m \in 1 .. n |-> part[m]],
         \A m \in 1 .. n : \E e \in encryptors :
           part[m] = getFunctionalDecryptionKey(e) /\ e.length = n,
         \A m \in 1 .. n : part[m].index <= m - 1 /\ part[m].peers # NoPeers
  PROVE  NoneBefore(part, n, PlaceOf(encryptors))
<1> DEFINE place == PlaceOf(encryptors)
<1>1. ASSUME NEW m \in 1 .. n
      PROVE  /\ part[m].index \in Nat
             /\ place[part[m].key] = part[m].index
             /\ DOMAIN part[m].peers = 1 .. n
             /\ \A j \in 1 .. n :
                  /\ place[part[m].peers[j]] \in Nat
                  /\ place[part[m].peers[j]] <= j - 1
  <2>1. PICK e \in encryptors :
          part[m] = getFunctionalDecryptionKey(e) /\ e.length = n
    OBVIOUS
  <2>2. /\ part[m].index = e.index /\ part[m].key = e.key
        /\ part[m].peers = e.peers /\ e.peers # NoPeers
    BY <2>1 DEF getFunctionalDecryptionKey
  <2>3. e.index \in Nat /\ DOMAIN e.peers = 1 .. n
    BY <2>1, <2>2 DEF NoKeyEarly
  <2> QED
    BY <2>1, <2>2, <2>3, PlaceKnown
<1> HIDE DEF place
<1> QED
  BY <1>1 DEF NoneBefore, place

\* The recursive function inside the sum over a group.
ValueIn(ds, g, l, m) == ds[g[m]].encData[l][1].value
IsGroupSum(f, ds, g, l, S) ==
  f = [s \in SUBSET S |->
         IF s = {} THEN 0
                   ELSE ValueIn(ds, g, l, CHOOSE x \in s : TRUE)
                          + f[s \ {CHOOSE x \in s : TRUE}]]

SumOver(ds, g, l) ==
  MapThenSumSet(LAMBDA m : ds[g[m]].encData[l][1].value, DOMAIN g)

LEMMA SameSum ==
  ASSUME NEW ds, NEW g, NEW l, NEW ciphers, DOMAIN ciphers = DOMAIN g,
         \A m \in DOMAIN g : ciphers[m].value = ds[g[m]].encData[l][1].value
  PROVE  MapThenSumSet(LAMBDA m : ciphers[m].value, DOMAIN ciphers)
           = SumOver(ds, g, l)
<1> DEFINE S == DOMAIN g
<1>1. ASSUME NEW f PROVE IsSum(f, ciphers, S) <=> IsGroupSum(f, ds, g, l, S)
  <2> DEFINE A(s) == IF s = {} THEN 0
                       ELSE ciphers[CHOOSE x \in s : TRUE].value
                              + f[s \ {CHOOSE x \in s : TRUE}]
             B(s) == IF s = {} THEN 0
                       ELSE ValueIn(ds, g, l, CHOOSE x \in s : TRUE)
                              + f[s \ {CHOOSE x \in s : TRUE}]
  <2>1. ASSUME NEW s \in SUBSET S PROVE A(s) = B(s)
    <3>1. s # {} => (CHOOSE x \in s : TRUE) \in S
      OBVIOUS
    <3> QED
      BY <3>1 DEF ValueIn
  <2>2. [s \in SUBSET S |-> A(s)] = [s \in SUBSET S |-> B(s)]
    <3> HIDE DEF A, B
    <3> QED
      BY <2>1
  <2> QED
    BY <2>2 DEF IsSum, IsGroupSum
<1>2. (CHOOSE f : IsSum(f, ciphers, S)) = (CHOOSE f : IsGroupSum(f, ds, g, l, S))
  BY <1>1
<1>3. MapThenSumSet(LAMBDA m : ciphers[m].value, S)
        = (CHOOSE f : IsSum(f, ciphers, S))[S]
  BY DEF MapThenSumSet, MapThenFoldSet, IsSum
<1>4. SumOver(ds, g, l) = (CHOOSE f : IsGroupSum(f, ds, g, l, S))[S]
  BY DEF SumOver, MapThenSumSet, MapThenFoldSet, IsGroupSum, ValueIn
<1> QED
  BY <1>2, <1>3, <1>4

Part(d) == Joined(d.fdKey)[1]

\* Nothing is damaged that is read for a label, and no document was made before
\* the share of its maker was set.
NothingMissing(ds, n, l) ==
  \A k \in 1 .. n :
    /\ ds[k].encData[l] # Blank
    /\ Joined(ds[k].fdKey) # Blank
    /\ Part(ds[k]).peers # NoPeers

\* One undamaged document of every index below n, whose makers encrypted with the
\* encryptor that the key part comes from, and knew each other's keys.
IsMember(ds, n, l, g, m) ==
  LET d == ds[g[m]]
  IN  /\ Complete(d) /\ d.index = m - 1
      /\ l \in DOMAIN d.encData
      /\ d.encData[l] # Blank /\ Joined(d.fdKey) # Blank
      /\ d.encData[l][1].key = Part(d).key
      /\ DOMAIN Part(d).peers = 1 .. n
      /\ Part(d).policy = n
      /\ \A j \in 1 .. n : j # m => Part(d).peers[j] = Part(ds[g[j]]).key

IsGroup(ds, n, l, g) == \A m \in 1 .. n : IsMember(ds, n, l, g, m)

\* The key part of a document that is taken in.
LEMMA JoinedPart ==
  ASSUME NEW e, NEW d, MadeBy(e, d), Complete(d), Len(d.fdKey) = 2,
         Joined(d.fdKey) # Blank
  PROVE  Joined(d.fdKey) = G1(getFunctionalDecryptionKey(e))
<1> DEFINE S == {Blank, G1(getFunctionalDecryptionKey(e))}
<1>1. d.fdKey \in Seq(S)
  BY DEF MadeBy
<1>2. d.fdKey[1] \in S
  <2> HIDE DEF S
  <2> QED
    BY <1>1
<1> QED
  BY <1>2 DEF Joined

LEMMA DecryptedGroup ==
  ASSUME NEW N \in Nat, NEW n \in 0 .. N, NEW encryptors, NoKeyEarly(encryptors),
         NEW ds, TakenIn(ds, N),
         NEW maker \in [1 .. N -> encryptors], MadeIn(ds, N, maker),
         NEW l, Carrying(ds, l) = 1 .. N,
         NEW s, DecodedList(s, ds, N, maker),
         NEW p, Vectors(s, N, l, p), NEW bound,
         NEW o \in decrypt(Ciphers(s, l), FdKeys(s), n, l, bound), o.status = "kOk",
         o.value # Unpredictable \/ NothingMissing(ds, N, l)
  PROVE  \E g \in [1 .. n -> 1 .. N] :
           IsGroup(ds, n, l, g) /\ o.value = SumOver(ds, g, l) % ULongRange
<1> DEFINE C == Ciphers(s, l)
           K == FdKeys(s)
           g == [m \in 1 .. n |-> p[m]]
           part == Elements(K, n)
           ciphers == Elements(C, n)
           sum == MapThenSumSet(LAMBDA m : ciphers[m].value, DOMAIN ciphers)
<1>1. /\ C = [m \in 1 .. N |-> s[p[m]].encData[l]]
      /\ K = [m \in 1 .. N |-> Joined(s[p[m]].fdKey)]
      /\ \A m \in 1 .. N : p[m] \in 1 .. N /\ s[p[m]].index <= m - 1
  BY DEF Vectors
<1>2. n \in Nat /\ \A m \in 1 .. n : m \in 1 .. N
  OBVIOUS
<1>3. LengthsAgree(C, K, n)
  <2>1. Len(C) = N /\ Len(K) = N
    BY <1>1
  <2> HIDE DEF C, K
  <2> QED
    BY <2>1 DEF LengthsAgree
<1>4. /\ \A m \in 1 .. n : C[m] # Blank /\ K[m] # Blank
      /\ o \in cfe_dmcfe_decrypt(ciphers, part, n, l, AsLong(bound))
  <2> HIDE DEF C, K
  <2>1. \/ Written(C, K, n) /\ o \in cfe_dmcfe_decrypt(ciphers, part, n, l, AsLong(bound))
        \/ ~Written(C, K, n) /\ o \in {NotFound, Stray}
    BY DEF decrypt, C, K
  <2>2. Written(C, K, n)
    <3>1. CASE o.value # Unpredictable
      BY <2>1, <3>1 DEF NotFound, Stray
    <3>2. CASE NothingMissing(ds, N, l)
      <4>1. ASSUME NEW m \in 1 .. n PROVE C[m] # Blank /\ K[m] # Blank
        <5> DEFINE d == ds[p[m]]
        <5>1. /\ p[m] \in 1 .. N
              /\ C[m] = s[p[m]].encData[l] /\ K[m] = Joined(s[p[m]].fdKey)
          BY <1>1, <1>2
        <5>2. l \in DOMAIN d.encData /\ d.encData[l] # Blank /\ Joined(d.fdKey) # Blank
          BY <3>2, <5>1 DEF NothingMissing, Carrying
        <5>3. DecodedFrom(s[p[m]], d, maker[p[m]])
          BY <5>1 DEF DecodedList
        <5> HIDE DEF d
        <5>4. s[p[m]].fdKey = d.fdKey /\ s[p[m]].encData[l] = d.encData[l]
          BY <5>2, <5>3 DEF DecodedFrom
        <5> QED
          BY <5>1, <5>2, <5>4
      <4> QED
        BY <1>3, <4>1 DEF Written
    <3> QED
      BY <3>1, <3>2
  <2> QED
    BY <2>1, <2>2 DEF Written
<1>5. /\ part = [m \in 1 .. n |-> part[m]] /\ ciphers = [m \in 1 .. n |-> ciphers[m]]
      /\ \A m \in 1 .. n : part[m] = K[m][1] /\ ciphers[m] = C[m][1]
  BY DEF Elements
<1>6. ASSUME NEW m \in 1 .. n
      PROVE  LET d == ds[p[m]]
                 e == maker[p[m]]
             IN  /\ Complete(d) /\ d.index <= m - 1 /\ d.index = e.index
                 /\ e \in encryptors
                 /\ K[m] = Joined(d.fdKey) /\ K[m] = G1(getFunctionalDecryptionKey(e))
                 /\ part[m] = getFunctionalDecryptionKey(e)
                 /\ l \in DOMAIN d.encData
                 /\ \/ C[m][1].label # l
                    \/ C[m] = d.encData[l]
  <2> DEFINE d == ds[p[m]]
             e == maker[p[m]]
  <2>1. m \in 1 .. N /\ p[m] \in 1 .. N
    BY <1>1
  <2>2. /\ Complete(d) /\ Len(d.fdKey) = 2 /\ e \in encryptors /\ MadeBy(e, d)
        /\ DecodedFrom(s[p[m]], d, e)
    BY <2>1 DEF TakenIn, MadeIn, DecodedList
  <2>3. s[p[m]].index <= m - 1 /\ C[m] = s[p[m]].encData[l] /\ K[m] = Joined(s[p[m]].fdKey)
    BY <1>1, <2>1
  <2>4. l \in DOMAIN d.encData
    BY <2>1 DEF Carrying
  <2>5. C[m] # Blank /\ K[m] # Blank /\ part[m] = K[m][1]
    BY <1>4, <1>5
  <2> HIDE DEF C, K, part
  <2>6. K[m] = Joined(d.fdKey) /\ d.index <= m - 1
    BY <2>2, <2>3 DEF DecodedFrom
  <2>7. C[m][1].label # l \/ C[m] = d.encData[l]
    BY <2>2, <2>3, <2>4, <2>5 DEF DecodedFrom
  <2> HIDE DEF d, e
  <2>8. K[m] = G1(getFunctionalDecryptionKey(e))
    BY <2>2, <2>5, <2>6, JoinedPart
  <2>9. part[m] = getFunctionalDecryptionKey(e)
    BY <2>5, <2>8 DEF G1
  <2>10. d.index = e.index
    BY <2>2 DEF MadeBy
  <2> QED
    BY <2>2, <2>4, <2>6, <2>7, <2>8, <2>9, <2>10 DEF d, e
<1> HIDE DEF C, K, part, ciphers
<1>7. ASSUME NEW m \in DOMAIN part PROVE part[m].peers # NoPeers
  <2>1. m \in 1 .. n
    BY <1>5
  <2>2. CASE o.value # Unpredictable
    <3> SUFFICES ASSUME part[m].peers = NoPeers PROVE FALSE
      OBVIOUS
    <3>1. o \in {NotFound, Stray}
      BY <1>4 DEF cfe_dmcfe_decrypt
    <3> QED
      BY <2>2, <3>1 DEF NotFound, Stray
  <2>3. CASE NothingMissing(ds, N, l)
    <3>1. /\ p[m] \in 1 .. N /\ K[m] = Joined(ds[p[m]].fdKey) /\ K[m] # Blank
          /\ part[m] = K[m][1]
      BY <1>1, <1>2, <1>4, <1>5, <1>6, <2>1
    <3> QED
      BY <2>3, <3>1 DEF NothingMissing, Part
  <2> QED
    BY <2>2, <2>3
<1>8. /\ MasksCancel(part) /\ SecretsMatch(ciphers, part, n, l)
      /\ o = Found(sum)
  <2>1. o # NotFound
    BY DEF NotFound
  <2> HIDE DEF sum
  <2> QED
    BY <1>4, <1>7, <2>1 DEF cfe_dmcfe_decrypt, sum
<1>9. ASSUME NEW m \in 1 .. n
      PROVE  part[m].policy = n /\ ciphers[m].label = l
  BY <1>5, <1>8 DEF SecretsMatch
<1>10. ASSUME NEW m \in 1 .. n
       PROVE  /\ \E e \in encryptors :
                   part[m] = getFunctionalDecryptionKey(e) /\ e.length = n
              /\ part[m].index <= m - 1 /\ part[m].peers # NoPeers
  <2>1. /\ part[m] = getFunctionalDecryptionKey(maker[p[m]])
        /\ maker[p[m]] \in encryptors
        /\ ds[p[m]].index = maker[p[m]].index /\ ds[p[m]].index <= m - 1
    BY <1>6
  <2>2. /\ part[m].index = maker[p[m]].index
        /\ maker[p[m]].length = n
    BY <1>9, <2>1 DEF getFunctionalDecryptionKey
  <2>3. part[m].peers # NoPeers
    BY <1>5, <1>7
  <2> QED
    BY <2>1, <2>2, <2>3
<1>11. ASSUME NEW m \in 1 .. n
       PROVE  /\ part[m].index = m - 1
              /\ DOMAIN part[m].peers = 1 .. n
              /\ \A j \in 1 .. n : j # m => part[m].peers[j] = part[j].key
  <2>1. NoneBefore(part, n, PlaceOf(encryptors))
    BY <1>2, <1>5, <1>10, DerivedNoneBefore
  <2>2. /\ part[m].index = m - 1
        /\ \A j \in 1 .. n : j # m => part[m].peers[j] = part[j].key
    BY <1>2, <1>8, <2>1, OnlyMutualMasksCancel
  <2> QED
    BY <2>1, <2>2 DEF NoneBefore
<1>12. ASSUME NEW m \in 1 .. n
       PROVE  C[m] = ds[p[m]].encData[l] /\ C[m] # Blank
  <2>1. C[m][1].label = l
    BY <1>5, <1>9
  <2> QED
    BY <1>4, <1>6, <2>1
<1>13. ASSUME NEW m \in 1 .. n PROVE IsMember(ds, n, l, g, m)
  <2> DEFINE d == ds[p[m]]
             e == maker[p[m]]
  <2>1. /\ g[m] = p[m] /\ part[m].index = m - 1
        /\ DOMAIN part[m].peers = 1 .. n
    BY <1>11
  <2>2. /\ Complete(d) /\ d.index = e.index /\ e \in encryptors
        /\ Joined(d.fdKey) = K[m] /\ K[m] # Blank
        /\ part[m] = getFunctionalDecryptionKey(e)
        /\ l \in DOMAIN d.encData
        /\ d.encData[l] = C[m] /\ C[m] # Blank
    BY <1>4, <1>6, <1>12
  <2>3. Part(d) = part[m]
    BY <1>5, <2>2 DEF Part
  <2>4. d.index = m - 1 /\ part[m].key = e.key
    BY <2>1, <2>2 DEF getFunctionalDecryptionKey
  <2>5. d.encData[l][1].key = e.key
    <3>1. MadeBy(e, d)
      BY <1>1, <1>2 DEF MadeIn
    <3> HIDE DEF d, e
    <3>2. d.encData[l] = G1(encrypt(e, l, d.encData[l][1].value))
      BY <2>2, <3>1 DEF MadeBy
    <3> QED
      BY <3>2 DEF G1, encrypt
  <2>6. ASSUME NEW j \in 1 .. n, j # m
        PROVE  Part(d).peers[j] = Part(ds[g[j]]).key
    <3>1. part[m].peers[j] = part[j].key
      BY <1>11, <2>6
    <3>2. Part(ds[g[j]]) = part[j]
      BY <1>5, <1>6 DEF Part
    <3> HIDE DEF d, g
    <3> QED
      BY <2>3, <3>1, <3>2 DEF g
  <2> HIDE DEF e
  <2> QED
    BY <1>9, <2>1, <2>2, <2>3, <2>4, <2>5, <2>6 DEF IsMember
<1>14. sum = SumOver(ds, g, l)
  <2>1. ASSUME NEW m \in 1 .. n
        PROVE  ciphers[m].value = ds[g[m]].encData[l][1].value
    BY <1>5, <1>12
  <2>2. DOMAIN ciphers = 1 .. n /\ DOMAIN g = 1 .. n
    BY <1>5
  <2> HIDE DEF g
  <2> QED
    BY <2>1, <2>2, SameSum
<1>15. g \in [1 .. n -> 1 .. N]
  BY <1>1, <1>2
<1>16. o.value = sum % ULongRange
  <2> HIDE DEF sum
  <2> QED
    BY <1>8 DEF Found
<1> HIDE DEF g, sum
<1>17. IsGroup(ds, n, l, g)
  BY <1>13 DEF IsGroup
<1> QED
  BY <1>14, <1>15, <1>16, <1>17

----------------------------------------------------------------------------
(***************************************************************************)
(* The analysis as a whole.                                                *)
(***************************************************************************)
LEMMA FdKeysCounted ==
  ASSUME NEW n \in Nat, NEW ds, IsBatch(ds, n), TakenIn(ds, n)
  PROVE  Len(FdKeys(ds)) = n
<1> DEFINE S == 1 .. n
           e == KeyEntries(ds)
<1>1. S \in SUBSET (1 .. n) /\ DOMAIN e = S /\ Cardinality(S) = n
  BY FS_Interval DEF IsBatch, KeyEntries
<1>2. ASSUME NEW k \in S
      PROVE  e[k].index \in Nat /\ e[k].index <= Count(S, k - 1)
  <2>1. e[k].index = ds[k].index
    BY <1>1 DEF KeyEntries
  <2>2. ds[k].index \in Nat /\ ds[k].index <= k - 1
    BY DEF IsBatch, TakenIn
  <2>3. Upto(S, k - 1) = 1 .. (k - 1)
    BY DEF Upto
  <2>4. Count(S, k - 1) = k - 1
    <3>1. Cardinality(1 .. (k - 1)) = k - 1
      BY FS_Interval
    <3> QED
      BY <2>3, <3>1 DEF Count
  <2> QED
    BY <2>1, <2>2, <2>4
<1>3. FdKeys(ds) = InsertedAt(e)
  BY DEF FdKeys, KeyEntries
<1> HIDE DEF S, e
<1>4. PICK p : InsertedAt(e) = Arranged(e, n, p)
  <2>1. \E p : ArrangedBy(p, S, e, e)
    BY <1>1, <1>2, ArrangedAlike
  <2> QED
    BY <1>1, <2>1 DEF ArrangedBy
<1>5. Len(Arranged(e, n, p)) = n
  BY DEF Arranged
<1> QED
  BY <1>3, <1>4, <1>5

\* The cipher list is long enough only if every document carries the label.
LEMMA AllCarry ==
  ASSUME NEW N \in Nat, NEW ds, IsBatch(ds, N), TakenIn(ds, N), NEW l, NEW n \in Nat,
         LengthsAgree(Ciphers(ds, l), FdKeys(ds), n)
  PROVE  Carrying(ds, l) = 1 .. N /\ n \in 0 .. N
<1>1. /\ Carrying(ds, l) \in SUBSET (1 .. N)
      /\ Len(Ciphers(ds, l)) = Cardinality(Carrying(ds, l))
  BY CiphersCounted
<1>2. Len(FdKeys(ds)) = N
  BY FdKeysCounted
<1>3. IsFiniteSet(1 .. N) /\ Cardinality(1 .. N) = N
  BY FS_Interval
<1> DEFINE S == Carrying(ds, l)
           T == 1 .. N
<1> HIDE DEF S
<1>4. /\ IsFiniteSet(S) /\ Cardinality(S) <= N
      /\ Cardinality(S) = N => S = T
  <2> HIDE DEF T
  <2> QED
    BY <1>1, <1>3, FS_Subset DEF S, T
<1>5. Cardinality(S) \in Nat
  BY <1>4, FS_CardinalityType
<1>6. Cardinality(S) >= N /\ N >= n
  BY <1>1, <1>2 DEF LengthsAgree, S
<1> QED
  BY <1>4, <1>5, <1>6 DEF S

\* What is in the result was decrypted.
LEMMA ResultsDecrypted ==
  ASSUME NEW s, NEW n, NEW bound, NEW a \in DecryptAll(s, n, bound),
         NEW l \in DOMAIN a.result
  PROVE  \E o \in decrypt(Ciphers(s, l), FdKeys(s), n, l, bound) :
           o.status = "kOk" /\ a.result[l] = o.value
<1> DEFINE labels == Labels(s)
           outcomes(m) == decrypt(Ciphers(s, m), FdKeys(s), n, m, bound)
<1>1. PICK f \in [labels -> UNION {outcomes(m) : m \in labels}] :
        /\ \A m \in labels : f[m] \in outcomes(m)
        /\ a \in IF {m \in labels : f[m].status = "kOk"} = labels
                   THEN {Analysis("kOk", [m \in labels |-> f[m].value])}
                   ELSE {Analysis("kCryptoOperationError",
                                  [m \in done |-> f[m].value]) :
                           done \in SUBSET {m \in labels : f[m].status = "kOk"}}
  <2> HIDE DEF outcomes
  <2> QED
    BY DEF DecryptAll, outcomes
<1> HIDE DEF outcomes
<1>2. PICK done \in SUBSET {m \in labels : f[m].status = "kOk"} :
        a.result = [m \in done |-> f[m].value]
  <2>1. CASE {m \in labels : f[m].status = "kOk"} = labels
    <3>1. a = Analysis("kOk", [m \in labels |-> f[m].value])
      BY <1>1, <2>1
    <3> QED
      BY <2>1, <3>1 DEF Analysis
  <2>2. CASE {m \in labels : f[m].status = "kOk"} # labels
    <3>1. PICK done \in SUBSET {m \in labels : f[m].status = "kOk"} :
            a = Analysis("kCryptoOperationError", [m \in done |-> f[m].value])
      BY <1>1, <2>2
    <3> QED
      BY <3>1 DEF Analysis
  <2> QED
    BY <2>1, <2>2
<1>3. l \in labels /\ f[l].status = "kOk" /\ a.result[l] = f[l].value
  BY <1>2
<1> QED
  BY <1>1, <1>3 DEF outcomes

\* The result for a label has not been read from memory that nobody wrote.
Sound(ds, n, l, a) ==
  \/ a.result[l] # Unpredictable
  \/ /\ Gathering(ds) = "kOk" /\ LengthsAgree(Ciphers(ds, l), FdKeys(ds), n)
     /\ NothingMissing(ds, Len(ds), l)

MadeByThese(ds, N, encryptors) ==
  \A k \in 1 .. N : \E e \in encryptors : MadeBy(e, ds[k])

\* A sum is not what an insertion past the end has left.
LEMMA DefinedWhenSound ==
  ASSUME NEW ds, NEW n, NEW bound,
         NEW a \in getInnerProductAnalysis(ds, n, bound),
         NEW l \in DOMAIN a.result, Sound(ds, n, l, a)
  PROVE  /\ Gathering(ds) = "kOk"
         /\ \E s \in Decodings(ds) : a \in DecryptAll(s, n, bound)
<1>1. \/ \E status : a = Analysis(status, NoResult)
      \/ /\ Gathering(ds) = "undefined"
         /\ a = Analysis("kOk", [m \in Labels(ds) |-> Unpredictable])
      \/ /\ Gathering(ds) \notin {"kBadParams", "exception", "undefined"}
         /\ a \in UNION {DecryptAll(s, n, bound) : s \in Decodings(ds)}
  BY DEF getInnerProductAnalysis, Undefined
<1>2. Gathering(ds) \in {"kOk", "exception", "kBadParams", "undefined"}
  BY DEF Gathering
<1>3. ASSUME NEW status PROVE a # Analysis(status, NoResult)
  <2>1. DOMAIN NoResult = {}
    BY DEF NoResult
  <2> QED
    BY <2>1 DEF Analysis
<1>4. CASE /\ Gathering(ds) = "undefined"
           /\ a = Analysis("kOk", [m \in Labels(ds) |-> Unpredictable])
  <2>1. a.result[l] = Unpredictable
    BY <1>4 DEF Analysis
  <2> QED
    BY <1>4, <2>1 DEF Sound
<1> QED
  BY <1>1, <1>2, <1>3, <1>4

(***************************************************************************)
(* Whatever documents are analysed, in whatever order, and whoever made    *)
(* them: a sum is the sum over one whole group of clients, one document    *)
(* each, that encrypted with the encryptor their key part comes from and   *)
(* computed it from each other's keys (getInnerProductAnalysis, core.cpp). *)
(***************************************************************************)
THEOREM SumsAreOfGroups ==
  ASSUME NEW N \in Nat, NEW ds, IsBatch(ds, N),
         NEW encryptors, NoKeyEarly(encryptors), MadeByThese(ds, N, encryptors),
         NEW n \in Nat, NEW bound,
         NEW a \in getInnerProductAnalysis(ds, n, bound),
         NEW l \in DOMAIN a.result, Sound(ds, n, l, a)
  PROVE  \E g \in [1 .. n -> 1 .. N] :
           /\ IsGroup(ds, n, l, g)
           /\ a.result[l] = SumOver(ds, g, l) % ULongRange
<1> DEFINE maker == [k \in 1 .. N |->
                       CHOOSE e \in encryptors : MadeBy(e, ds[k])]
<1>1. maker \in [1 .. N -> encryptors] /\ MadeIn(ds, N, maker)
  <2>1. \A k \in 1 .. N : maker[k] \in encryptors /\ MadeBy(maker[k], ds[k])
    BY DEF MadeByThese
  <2> QED
    BY <2>1 DEF MadeIn
<1> HIDE DEF maker
<1>2. Gathering(ds) = "kOk" /\ \E s \in Decodings(ds) : a \in DecryptAll(s, n, bound)
  BY DefinedWhenSound
<1>3. PICK s \in Decodings(ds) : a \in DecryptAll(s, n, bound)
  BY <1>2
<1>4. TakenIn(ds, N)
  BY <1>2, Gathered
<1>5. DecodedList(s, ds, N, maker)
  BY <1>1, <1>4, DecodedDocuments
<1>6. /\ IsBatch(s, N) /\ TakenIn(s, N)
      /\ Carrying(s, l) = Carrying(ds, l)
  BY <1>4, <1>5, SameAfterDecoding
<1>7. PICK o \in decrypt(Ciphers(s, l), FdKeys(s), n, l, bound) :
        o.status = "kOk" /\ a.result[l] = o.value
  BY <1>3, ResultsDecrypted
<1>8. LengthsAgree(Ciphers(s, l), FdKeys(s), n)
  <2>1. CASE LengthsAgree(Ciphers(ds, l), FdKeys(ds), n)
    <3>1. /\ Len(Ciphers(ds, l)) = Cardinality(Carrying(ds, l))
          /\ Len(Ciphers(s, l)) = Cardinality(Carrying(s, l))
      BY <1>4, <1>6, CiphersCounted
    <3>2. Len(FdKeys(ds)) = N /\ Len(FdKeys(s)) = N
      BY <1>4, <1>6, FdKeysCounted
    <3> QED
      BY <1>6, <2>1, <3>1, <3>2 DEF LengthsAgree
  <2>2. CASE a.result[l] # Unpredictable
    <3> SUFFICES ASSUME ~LengthsAgree(Ciphers(s, l), FdKeys(s), n) PROVE FALSE
      OBVIOUS
    <3>1. o \in {NotFound, Stray}
      BY <1>7 DEF decrypt, Written
    <3> QED
      BY <1>7, <2>2, <3>1 DEF NotFound, Stray
  <2> QED
    BY <2>1, <2>2 DEF Sound
<1>9. Carrying(s, l) = 1 .. N /\ n \in 0 .. N
  BY <1>6, <1>8, AllCarry
<1>10. PICK p : Vectors(s, N, l, p)
  BY <1>6, <1>9, VectorsAlike
<1>11. \E g \in [1 .. n -> 1 .. N] :
         IsGroup(ds, n, l, g) /\ o.value = SumOver(ds, g, l) % ULongRange
  <2>1. Carrying(ds, l) = 1 .. N /\ n \in 0 .. N
    BY <1>6, <1>9
  <2>2. o \in decrypt(Ciphers(s, l), FdKeys(s), n, l, bound) /\ o.status = "kOk"
    BY <1>7
  <2>3. o.value # Unpredictable \/ NothingMissing(ds, N, l)
    BY <1>7 DEF Sound, IsBatch
  <2> QED
    BY ONLY <1>1, <1>4, <1>5, <1>10, <2>1, <2>2, <2>3, N \in Nat,
            NoKeyEarly(encryptors), DecryptedGroup
<1> QED
  BY <1>7, <1>11

(***************************************************************************)
(* Positions that reach every place, none of them before its own, are the  *)
(* places.                                                                 *)
(***************************************************************************)
LEMMA NothingLeftOver ==
  ASSUME NEW n \in Nat, NEW f, \A m \in 1 .. n : f[m] \in Nat /\ f[m] <= m,
         \A j \in 1 .. n : \E i \in 1 .. n : f[i] = j
  PROVE  \A m \in 1 .. n : f[m] = m
<1> DEFINE T == {c \in Nat : c < n /\ f[n - c] # n - c}
<1>1. T = {}
  <2> SUFFICES ASSUME T # {} PROVE FALSE
    OBVIOUS
  <2>1. PICK c \in T : \A b \in T : c <= b
    <3>1. T \subseteq Nat
      OBVIOUS
    <3> HIDE DEF T
    <3> QED
      BY <3>1, LeastNumber
  <2>2. n - c \in 1 .. n /\ f[n - c] # n - c
    OBVIOUS
  <2>3. PICK i \in 1 .. n : f[i] = n - c
    BY <2>2
  <2>4. i >= n - c /\ i # n - c
    BY <2>2, <2>3
  <2>5. n - i \in Nat /\ n - i < n /\ n - i < c /\ n - (n - i) = i
    BY <2>4
  <2>6. n - i \notin T
    BY <2>1, <2>5
  <2>7. f[i] = i
    BY <2>5, <2>6
  <2> QED
    BY <2>3, <2>4, <2>7
<1>2. ASSUME NEW m \in 1 .. n PROVE f[m] = m
  <2>1. n - m \in Nat /\ n - m < n /\ n - (n - m) = m
    OBVIOUS
  <2> QED
    BY <1>1, <2>1
<1> QED
  BY <1>2

\* A sum over one document of every index, none before its place, is one over
\* the whole of a list in index order.
AllOf(n) == [k \in 1 .. n |-> k]

LEMMA SummedInOrder ==
  ASSUME NEW n \in Nat, NEW ds, IsBatch(ds, n),
         NEW encryptors, NoKeyEarly(encryptors), MadeByThese(ds, n, encryptors),
         NEW bound,
         NEW a \in getInnerProductAnalysis(ds, n, bound),
         NEW l \in DOMAIN a.result, a.result[l] # Unpredictable
  PROVE  /\ \A k \in 1 .. n : ds[k].index = k - 1
         /\ IsGroup(ds, n, l, AllOf(n))
         /\ a.result[l] = SumOver(ds, AllOf(n), l) % ULongRange
<1>1. Sound(ds, n, l, a)
  BY DEF Sound
<1>2. TakenIn(ds, n)
  BY <1>1, DefinedWhenSound, Gathered
<1>3. PICK g \in [1 .. n -> 1 .. n] :
        /\ IsGroup(ds, n, l, g)
        /\ a.result[l] = SumOver(ds, g, l) % ULongRange
  BY <1>1, SumsAreOfGroups
<1> DEFINE f == [k \in 1 .. n |-> ds[k].index + 1]
<1>4. ASSUME NEW k \in 1 .. n
      PROVE  f[k] \in Nat /\ f[k] <= k /\ f[k] = ds[k].index + 1
  <2> DEFINE x == ds[k].index
  <2>1. x \in Nat /\ x <= k - 1
    BY <1>2 DEF IsBatch, TakenIn
  <2>2. f[k] = x + 1
    OBVIOUS
  <2> HIDE DEF f, x
  <2>3. k \in Nat
    OBVIOUS
  <2>4. f[k] \in Nat /\ f[k] <= k
    BY ONLY <2>1, <2>2, <2>3
  <2> QED
    BY <2>2, <2>4 DEF x
<1>5. ASSUME NEW j \in 1 .. n PROVE \E i \in 1 .. n : f[i] = j
  <2>1. ds[g[j]].index = j - 1 /\ g[j] \in 1 .. n
    BY <1>3 DEF IsGroup, IsMember
  <2>2. f[g[j]] = j
    BY <2>1
  <2> QED
    BY <2>1, <2>2
<1> HIDE DEF f
<1>6. \A k \in 1 .. n : f[k] = k
  BY <1>4, <1>5, NothingLeftOver
<1>7. ASSUME NEW k \in 1 .. n PROVE ds[k].index = k - 1
  <2> DEFINE x == ds[k].index
  <2>1. f[k] = k /\ f[k] = x + 1 /\ x \in Nat
    BY <1>4, <1>6 DEF IsBatch
  <2> HIDE DEF x
  <2>2. x = k - 1
    BY <2>1
  <2> QED
    BY <2>2 DEF x
<1>8. g = AllOf(n)
  <2>1. ASSUME NEW k \in 1 .. n PROVE g[k] = k
    <3>1. ds[g[k]].index = k - 1 /\ g[k] \in 1 .. n
      BY <1>3 DEF IsGroup, IsMember
    <3>2. k - 1 = g[k] - 1
      BY <1>7, <3>1
    <3> QED
      BY <3>1, <3>2
  <2> QED
    BY <2>1 DEF AllOf
<1> QED
  BY <1>3, <1>7, <1>8

----------------------------------------------------------------------------
(***************************************************************************)
(* The converse: what makes masks cancel, and a sum a natural number.      *)
(***************************************************************************)
\* Key parts in the order of their indexes, each from the keys of the others.
Mutually(part, n) ==
  /\ part = [m \in 1 .. n |-> part[m]]
  /\ \A m \in 1 .. n :
       /\ part[m].index = m - 1
       /\ DOMAIN part[m].peers = 1 .. n
       /\ \A j \in 1 .. n : j # m => part[m].peers[j] = part[j].key

(***************************************************************************)
(* The share of client m has the mask of m and j with one sign, that of j  *)
(* has it with the other: nothing is left of them in the sum, which is     *)
(* what decryption needs (dmcfe_encryptor.cpp, dmcfe_decryptor.cpp).       *)
(***************************************************************************)
THEOREM MutualMasksCancel ==
  ASSUME NEW n \in Nat, NEW part, Mutually(part, n)
  PROVE  MasksCancel(part)
<1> DEFINE added == {t \in Terms(part) : t[2] - 1 < part[t[1]].index}
           subtracted == {t \in Terms(part) : t[2] - 1 > part[t[1]].index}
           A(p) == {t \in added : Pair(part, t) = p}
           S(p) == {t \in subtracted : Pair(part, t) = p}
<1>1. /\ DOMAIN part = 1 .. n
      /\ \A m \in 1 .. n : part[m].index = m - 1 /\ DOMAIN part[m].peers = 1 .. n
  BY DEF Mutually
<1>2. Terms(part) = (1 .. n) \X (1 .. n)
  <2>1. ASSUME NEW t PROVE t \in Terms(part) <=> t \in (1 .. n) \X (1 .. n)
    BY <1>1 DEF Terms
  <2> QED
    BY <2>1
<1>3. ASSUME NEW m \in 1 .. n, NEW j \in 1 .. n, j # m
      PROVE  Pair(part, <<m, j>>) = {part[m].key, part[j].key}
  BY <1>3 DEF Pair, Mutually
<1>4. ASSUME NEW m \in 1 .. n, NEW j \in 1 .. n
      PROVE  /\ <<m, j>> \in added <=> j < m
             /\ <<m, j>> \in subtracted <=> j > m
  BY <1>1, <1>2
<1>5. ASSUME NEW p PROVE Cardinality(A(p)) = Cardinality(S(p))
  <2> DEFINE f == [t \in A(p) |-> <<t[2], t[1]>>]
  <2>1. ASSUME NEW m \in 1 .. n, NEW j \in 1 .. n
        PROVE  <<m, j>> \in A(p) <=> <<j, m>> \in S(p)
    <3>1. j # m => Pair(part, <<m, j>>) = Pair(part, <<j, m>>)
      <4>1. j # m => /\ Pair(part, <<m, j>>) = {part[m].key, part[j].key}
                     /\ Pair(part, <<j, m>>) = {part[j].key, part[m].key}
        BY <1>3
      <4> QED
        BY <4>1
    <3>2. /\ <<m, j>> \in A(p) <=> j < m /\ Pair(part, <<m, j>>) = p
          /\ <<j, m>> \in S(p) <=> j < m /\ Pair(part, <<j, m>>) = p
      <4> HIDE DEF added, subtracted
      <4> QED
        BY <1>4
    <3> QED
      BY <3>1, <3>2
  <2>2. A(p) \in SUBSET ((1 .. n) \X (1 .. n)) /\ S(p) \in SUBSET ((1 .. n) \X (1 .. n))
    BY <1>2
  <2> HIDE DEF A, S
  <2>3. f \in [A(p) -> S(p)]
    <3>1. ASSUME NEW t \in A(p) PROVE <<t[2], t[1]>> \in S(p)
      <4>1. PICK m \in 1 .. n, j \in 1 .. n : t = <<m, j>>
        BY <2>2
      <4> QED
        BY <2>1, <4>1
    <3> QED
      BY <3>1
  <2>4. ASSUME NEW t \in A(p), NEW u \in A(p), f[t] = f[u] PROVE t = u
    <3>1. PICK m \in 1 .. n, j \in 1 .. n : t = <<m, j>>
      BY <2>2
    <3>2. PICK i \in 1 .. n, k \in 1 .. n : u = <<i, k>>
      BY <2>2
    <3>3. f[t] = <<j, m>> /\ f[u] = <<k, i>>
      BY <3>1, <3>2
    <3> HIDE DEF f
    <3> QED
      BY <2>4, <3>1, <3>2, <3>3
  <2>5. ASSUME NEW u \in S(p) PROVE \E t \in A(p) : f[t] = u
    <3>1. PICK m \in 1 .. n, j \in 1 .. n : u = <<j, m>>
      BY <2>2
    <3>2. <<m, j>> \in A(p)
      BY <2>1, <3>1
    <3> QED
      BY <3>1, <3>2
  <2> HIDE DEF f
  <2>6. f \in Bijection(A(p), S(p))
    BY <2>3, <2>4, <2>5 DEF Bijection, Injection, Surjection, IsInjective
  <2>7. IsFiniteSet(A(p))
    <3>1. IsFiniteSet((1 .. n) \X (1 .. n))
      <4>1. IsFiniteSet(1 .. n)
        BY FS_Interval
      <4> QED
        BY <4>1, FS_Product
    <3> QED
      BY <2>2, <3>1, FS_Subset
  <2> QED
    BY <2>6, <2>7, FS_Bijection DEF ExistsBijection
<1> QED
  BY <1>5 DEF MasksCancel, Terms, Pair

LEMMA NaturalFold ==
  ASSUME NEW S, IsFiniteSet(S), NEW g, NEW ciphers,
         \A x \in S : ciphers[x].value \in Nat,
         IsSum(g, ciphers, S)
  PROVE  \A s \in SUBSET S : g[s] \in Nat
<1> DEFINE T == {n \in Nat : \A s \in SUBSET S : Cardinality(s) = n => g[s] \in Nat}
<1>1. ASSUME NEW s \in SUBSET S
      PROVE  /\ IsFiniteSet(s) /\ Cardinality(s) \in Nat
             /\ Cardinality(s) = 0 <=> s = {}
  BY FS_Subset, FS_CardinalityType, FS_EmptySet
<1>2. 0 \in T
  <2>1. g[{}] = 0
    BY DEF IsSum
  <2> QED
    BY <1>1, <2>1
<1>3. ASSUME NEW n \in Nat, n \in T PROVE n + 1 \in T
  <2> SUFFICES ASSUME NEW s \in SUBSET S, Cardinality(s) = n + 1
               PROVE  g[s] \in Nat
    OBVIOUS
  <2> DEFINE x == CHOOSE y \in s : TRUE
  <2>1. s # {}
    BY <1>1
  <2>2. x \in s /\ s \ {x} \in SUBSET S
    BY <2>1
  <2>3. g[s] = ciphers[x].value + g[s \ {x}]
    BY <2>1 DEF IsSum
  <2> HIDE DEF x
  <2>4. Cardinality(s \ {x}) = n
    <3>1. Cardinality(s \ {x}) = Cardinality(s) - 1
      BY <1>1, <2>2, FS_RemoveElement
    <3> QED
      BY <3>1
  <2>5. g[s \ {x}] \in Nat
    BY <1>3, <2>2, <2>4
  <2>6. ciphers[x].value \in Nat
    BY <2>2
  <2> QED
    BY <2>3, <2>5, <2>6
<1>4. Nat \subseteq T
  <2> HIDE DEF T
  <2> QED
    BY <1>2, <1>3, Induction
<1> QED
  BY <1>1, <1>4

LEMMA SumExists ==
  ASSUME NEW S, IsFiniteSet(S), NEW ciphers
  PROVE  \E g : IsSum(g, ciphers, S)
<1> DEFINE Step(g, s) == IF s = {} THEN 0
                           ELSE ciphers[CHOOSE x \in s : TRUE].value
                                  + g[s \ {CHOOSE x \in s : TRUE}]
           Good(g, n) == \A s \in SUBSET S :
                           Cardinality(s) <= n => g[s] = Step(g, s)
           T == {n \in Nat : \E g : Good(g, n)}
<1>1. ASSUME NEW s \in SUBSET S
      PROVE  /\ IsFiniteSet(s) /\ Cardinality(s) \in Nat
             /\ Cardinality(s) <= Cardinality(S)
             /\ Cardinality(s) = 0 <=> s = {}
  BY FS_Subset, FS_CardinalityType, FS_EmptySet
<1>2. ASSUME NEW s \in SUBSET S, s # {}
      PROVE  LET t == s \ {CHOOSE x \in s : TRUE}
             IN  t \in SUBSET S /\ Cardinality(t) = Cardinality(s) - 1
  <2> DEFINE x == CHOOSE y \in s : TRUE
  <2>1. x \in s
    BY <1>2
  <2> HIDE DEF x
  <2>2. Cardinality(s \ {x}) = Cardinality(s) - 1
    BY <1>1, <2>1, FS_RemoveElement
  <2> QED
    BY <2>2 DEF x
<1>3. 0 \in T
  <2> DEFINE g == [s \in SUBSET S |-> 0]
  <2>1. Good(g, 0)
    <3> SUFFICES ASSUME NEW s \in SUBSET S, Cardinality(s) <= 0
                 PROVE  g[s] = Step(g, s)
      OBVIOUS
    <3>1. Cardinality(s) = 0
      BY <1>1
    <3>2. s = {}
      BY <1>1, <3>1
    <3> QED
      BY <3>2
  <2> HIDE DEF g, Good
  <2> QED
    BY <2>1
<1>4. ASSUME NEW n \in Nat, n \in T PROVE n + 1 \in T
  <2>1. PICK g : Good(g, n)
    BY <1>4
  <2> DEFINE h == [s \in SUBSET S |-> IF Cardinality(s) <= n THEN g[s] ELSE Step(g, s)]
  <2>2. Good(h, n + 1)
    <3> SUFFICES ASSUME NEW s \in SUBSET S, Cardinality(s) <= n + 1
                 PROVE  h[s] = Step(h, s)
      OBVIOUS
    <3> DEFINE t == s \ {CHOOSE x \in s : TRUE}
    <3>1. g[s] = Step(g, s) \/ ~(Cardinality(s) <= n)
      BY <2>1
    <3>2. h[s] = Step(g, s)
      <4> HIDE DEF Step
      <4> QED
        BY <3>1
    <3>3. CASE s = {}
      BY <3>2, <3>3
    <3>4. CASE s # {}
      <4>1. t \in SUBSET S /\ Cardinality(t) <= n
        <5>1. t \in SUBSET S /\ Cardinality(t) = Cardinality(s) - 1
          BY <1>2, <3>4
        <5>2. Cardinality(s) \in Nat
          BY <1>1
        <5> HIDE DEF t
        <5> QED
          BY <5>1, <5>2
      <4> HIDE DEF t
      <4>2. h[t] = g[t]
        BY <4>1
      <4> HIDE DEF h
      <4> QED
        BY <3>2, <3>4, <4>2 DEF t
    <3> QED
      BY <3>3, <3>4
  <2> HIDE DEF h, Good
  <2> QED
    BY <2>2
<1>5. Nat \subseteq T
  <2> HIDE DEF T
  <2> QED
    BY <1>3, <1>4, Induction
<1>6. PICK g : Good(g, Cardinality(S))
  <2>1. Cardinality(S) \in Nat
    BY FS_CardinalityType
  <2> HIDE DEF Good
  <2> QED
    BY <1>5, <2>1
<1> DEFINE h == [s \in SUBSET S |-> g[s]]
<1>7. ASSUME NEW s \in SUBSET S PROVE h[s] = Step(h, s)
  <2>1. g[s] = Step(g, s)
    BY <1>1, <1>6
  <2>2. s # {} => s \ {CHOOSE x \in s : TRUE} \in SUBSET S
    OBVIOUS
  <2> QED
    BY <2>1, <2>2
<1>8. h = [s \in SUBSET S |-> Step(h, s)]
  <2> DEFINE F(s) == Step(h, s)
  <2>1. \A s \in SUBSET S : h[s] = F(s)
    BY <1>7
  <2>2. h = [s \in SUBSET S |-> h[s]]
    OBVIOUS
  <2> HIDE DEF F, h
  <2>3. h = [s \in SUBSET S |-> F(s)]
    BY <2>1, <2>2
  <2> QED
    BY <2>3 DEF F
<1> HIDE DEF h
<1>9. IsSum(h, ciphers, S)
  BY <1>8 DEF IsSum
<1> QED
  BY <1>9

LEMMA NaturalSum ==
  ASSUME NEW ciphers, IsFiniteSet(DOMAIN ciphers),
         \A x \in DOMAIN ciphers : ciphers[x].value \in Nat
  PROVE  MapThenSumSet(LAMBDA m : ciphers[m].value, DOMAIN ciphers) \in Nat
<1> DEFINE S == DOMAIN ciphers
<1>1. PICK f : f = (CHOOSE g : IsSum(g, ciphers, S))
  OBVIOUS
<1>2. IsSum(f, ciphers, S)
  BY <1>1, SumExists
<1>3. MapThenSumSet(LAMBDA m : ciphers[m].value, S) = f[S]
  BY <1>1 DEF MapThenSumSet, MapThenFoldSet, IsSum
<1> HIDE DEF S
<1>4. f[S] \in Nat
  <2>1. IsFiniteSet(S) /\ \A x \in S : ciphers[x].value \in Nat
    BY DEF S
  <2> QED
    BY <1>2, <2>1, NaturalFold
<1> QED
  BY <1>3, <1>4 DEF S
================================================================================
