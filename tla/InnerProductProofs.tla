-------------------------- MODULE InnerProductProofs --------------------------
(***************************************************************************)
(* What the operators of Dmcfe, InnerProduct and Core compute, for lists   *)
(* of every length: the insertions at an index of core.cpp:100 and         *)
(* core.cpp:204-213, the loop around them, and the decryption of what they *)
(* have gathered.                                                          *)
(*                                                                         *)
(* The folds these operators are made of recurse over the subsets of a     *)
(* domain.  Induction is had from the well-foundedness of < on Nat, as a   *)
(* fact about sets of numbers.                                             *)
(***************************************************************************)
EXTENDS InnerProduct, FiniteSetTheorems, WellFoundedInduction, TLAPS

\* Every set of numbers has a least one.
LEMMA LeastNumber ==
  ASSUME NEW T, T \subseteq Nat, T # {}
  PROVE  \E x \in T : \A y \in T : x <= y
<1>1. IsWellFoundedOn(OpToRel(<, Nat), Nat)
  BY NatLessThanWellFounded
<1>2. PICK x \in T : \A y \in T : ~(<<y, x>> \in OpToRel(<, Nat))
  <2> HIDE DEF IsWellFoundedOn
  <2> QED
    BY <1>1, WFMin
<1>3. ASSUME NEW y \in T PROVE x <= y
  <2>1. ~(y < x)
    BY <1>2 DEF OpToRel
  <2> QED
    BY <2>1
<1> QED
  BY <1>3

LEMMA Induction ==
  ASSUME NEW T, 0 \in T, \A n \in Nat : n \in T => n + 1 \in T
  PROVE  Nat \subseteq T
<1> SUFFICES ASSUME Nat \ T # {} PROVE FALSE
  OBVIOUS
<1>1. PICK x \in Nat \ T : \A y \in Nat \ T : x <= y
  BY LeastNumber
<1>2. x - 1 \in Nat /\ x - 1 \notin T
  BY <1>1
<1> QED
  BY <1>1, <1>2

\* The choice that goes through a list from its end.
LEMMA MaxIs ==
  ASSUME NEW m \in Nat, NEW s \in SUBSET (1 .. m), m \in s
  PROVE  Max(s) = m
<1>1. \A y \in s : m >= y
  OBVIOUS
<1>2. ASSUME NEW x \in s, \A y \in s : x >= y PROVE x = m
  BY <1>2
<1> QED
  BY <1>1, <1>2 DEF Max

----------------------------------------------------------------------------
(***************************************************************************)
(* Insertion at the own index.                                             *)
(***************************************************************************)
\* One step of a fold: what becomes of the items inserted so far.
Inserted(v, e) == InsertAt(v, e.index + 1, e.item)

\* The recursive function inside InsertedAt.
IsFold(g, entries, S) ==
  g = [s \in SUBSET S |->
         IF s = {} THEN <<>>
                   ELSE Inserted(g[s \ {Max(s)}], entries[Max(s)])]

LEMMA FoldExists ==
  ASSUME NEW entries, NEW n \in Nat
  PROVE  \E g : IsFold(g, entries, 1 .. n)
<1> DEFINE T == {m \in Nat : \E g : IsFold(g, entries, 1 .. m)}
<1>1. 0 \in T
  <2>1. SUBSET (1 .. 0) = {{}}
    OBVIOUS
  <2>2. IsFold([s \in SUBSET (1 .. 0) |-> <<>>], entries, 1 .. 0)
    BY <2>1 DEF IsFold
  <2> QED
    BY <2>2
<1>2. ASSUME NEW m \in Nat, m \in T PROVE m + 1 \in T
  <2>1. PICK g : IsFold(g, entries, 1 .. m)
    BY <1>2
  <2> DEFINE h == [s \in SUBSET (1 .. (m + 1)) |->
                     IF m + 1 \in s
                       THEN Inserted(g[s \ {m + 1}], entries[m + 1])
                       ELSE g[s]]
             Step(s) == IF s = {} THEN <<>>
                          ELSE Inserted(h[s \ {Max(s)}], entries[Max(s)])
  <2>2. ASSUME NEW s \in SUBSET (1 .. (m + 1)) PROVE h[s] = Step(s)
    <3>1. CASE m + 1 \in s
      <4>1. Max(s) = m + 1
        BY <3>1, MaxIs
      <4>2. /\ s \ {m + 1} \in SUBSET (1 .. (m + 1))
            /\ m + 1 \notin s \ {m + 1}
        OBVIOUS
      <4> QED
        BY <3>1, <4>1, <4>2
    <3>2. CASE m + 1 \notin s
      <4>1. s \in SUBSET (1 .. m)
        BY <3>2
      <4>2. /\ s \ {Max(s)} \in SUBSET (1 .. (m + 1))
            /\ m + 1 \notin s \ {Max(s)}
        BY <3>2
      <4>3. h[s \ {Max(s)}] = g[s \ {Max(s)}] /\ h[s] = g[s]
        BY <3>2, <4>2
      <4> QED
        BY <2>1, <4>1, <4>3 DEF IsFold
    <3> QED
      BY <3>1, <3>2
  <2>3. h = [s \in SUBSET (1 .. (m + 1)) |-> Step(s)]
    <3> HIDE DEF Step
    <3> QED
      BY <2>2
  <2>4. \E e : IsFold(e, entries, 1 .. (m + 1))
    <3>1. IsFold(h, entries, 1 .. (m + 1))
      <4> HIDE DEF h
      <4> QED
        BY <2>3 DEF IsFold
    <3> HIDE DEF h
    <3> QED
      BY <3>1
  <2> QED
    BY <2>4
<1>3. Nat \subseteq T
  <2> HIDE DEF T
  <2> QED
    BY <1>1, <1>2, Induction
<1> QED
  BY <1>3

\* An insertion at the end appends.
LEMMA InsertedAtEnd ==
  ASSUME NEW k \in Nat, NEW item
  PROVE  InsertAt([j \in 1 .. k |-> item[j]], k + 1, item[k + 1])
           = [j \in 1 .. (k + 1) |-> item[j]]
<1> DEFINE p == [j \in 1 .. k |-> item[j]]
           q == SubSeq(p, 1, k)
           r == SubSeq(p, k + 1, k)
<1>1. Len(p) = k /\ q = p /\ r = <<>> /\ k + 1 - 1 = k
  OBVIOUS
<1>2. InsertAt(p, k + 1, item[k + 1]) = q \o <<item[k + 1]>> \o r
  BY <1>1 DEF InsertAt
<1>3. @ = p \o <<item[k + 1]>>
  BY <1>1
<1>4. @ = [j \in 1 .. (k + 1) |-> item[j]]
  OBVIOUS
<1> QED
  BY <1>2, <1>3, <1>4

(***************************************************************************)
(* Entries that come in the order of their indexes end up in this order:   *)
(* every one is inserted at the end of the vector, none is lost and none   *)
(* moves another (core.cpp:100, 204, 213).                                 *)
(***************************************************************************)
THEOREM InsertedInOrder ==
  ASSUME NEW n \in Nat, NEW entries, DOMAIN entries = 1 .. n,
         \A k \in 1 .. n : entries[k].index = k - 1
  PROVE  InsertedAt(entries) = [k \in 1 .. n |-> entries[k].item]
<1> DEFINE item == [k \in 1 .. n |-> entries[k].item]
<1> HIDE DEF item
<1>1. PICK f : f = (CHOOSE g : IsFold(g, entries, 1 .. n))
  OBVIOUS
<1>2. IsFold(f, entries, 1 .. n)
  BY <1>1, FoldExists
<1>3. InsertedAt(entries) = f[1 .. n]
  BY <1>1 DEF InsertedAt, MapThenFoldSet, IsFold, Inserted
<1> DEFINE T == {k \in Nat : k <= n => f[1 .. k] = [j \in 1 .. k |-> item[j]]}
<1>4. 0 \in T
  <2>1. 1 .. 0 = {}
    OBVIOUS
  <2>2. f[{}] = <<>>
    BY <1>2 DEF IsFold
  <2> QED
    BY <2>1, <2>2
<1>5. ASSUME NEW k \in Nat, k \in T PROVE k + 1 \in T
  <2> SUFFICES ASSUME k + 1 <= n
               PROVE  f[1 .. (k + 1)] = [j \in 1 .. (k + 1) |-> item[j]]
    BY <1>5
  <2>1. /\ 1 .. (k + 1) \in SUBSET (1 .. n)
        /\ 1 .. (k + 1) # {}
        /\ (1 .. (k + 1)) \ {k + 1} = 1 .. k
    OBVIOUS
  <2>2. Max(1 .. (k + 1)) = k + 1
    BY MaxIs
  <2>3. f[1 .. (k + 1)] = Inserted(f[1 .. k], entries[k + 1])
    BY <1>2, <2>1, <2>2 DEF IsFold
  <2>4. f[1 .. k] = [j \in 1 .. k |-> item[j]]
    BY <1>5
  <2>5. entries[k + 1].index + 1 = k + 1 /\ entries[k + 1].item = item[k + 1]
    BY DEF item
  <2>6. InsertAt([j \in 1 .. k |-> item[j]], k + 1, item[k + 1])
          = [j \in 1 .. (k + 1) |-> item[j]]
    BY InsertedAtEnd
  <2> QED
    BY <2>3, <2>4, <2>5, <2>6 DEF Inserted
<1>6. Nat \subseteq T
  <2> HIDE DEF T
  <2> QED
    BY <1>4, <1>5, Induction
<1>7. f[1 .. n] = [j \in 1 .. n |-> item[j]]
  BY <1>6
<1> QED
  BY <1>3, <1>7 DEF item
----------------------------------------------------------------------------
(***************************************************************************)
(* The masks.                                                              *)
(***************************************************************************)
\* The terms of a sum of masks, as MasksCancel has them.
Terms(fdKeys) == UNION {{m} \X DOMAIN fdKeys[m].peers : m \in DOMAIN fdKeys}
Pair(fdKeys, t) == {fdKeys[t[1]].key, fdKeys[t[1]].peers[t[2]]}
Added(fdKeys) == {t \in Terms(fdKeys) : t[2] - 1 < fdKeys[t[1]].index}
Subtracted(fdKeys) == {t \in Terms(fdKeys) : t[2] - 1 > fdKeys[t[1]].index}

\* A term with one sign needs one with the other.
LEMMA Counterpart ==
  ASSUME NEW fdKeys, IsFiniteSet(DOMAIN fdKeys),
         \A m \in DOMAIN fdKeys : IsFiniteSet(DOMAIN fdKeys[m].peers),
         MasksCancel(fdKeys)
  PROVE  /\ \A t \in Added(fdKeys) : \E u \in Subtracted(fdKeys) :
              Pair(fdKeys, u) = Pair(fdKeys, t)
         /\ \A t \in Subtracted(fdKeys) : \E u \in Added(fdKeys) :
              Pair(fdKeys, u) = Pair(fdKeys, t)
<1> DEFINE Row(m) == {m} \X DOMAIN fdKeys[m].peers
           Of(S, p) == {t \in S : Pair(fdKeys, t) = p}
<1>1. IsFiniteSet(Terms(fdKeys))
  <2>1. IsFiniteSet({Row(m) : m \in DOMAIN fdKeys})
    <3> DEFINE rows == {Row(m) : m \in DOMAIN fdKeys}
               row == [m \in DOMAIN fdKeys |-> Row(m)]
    <3> HIDE DEF Row
    <3>1. row \in Surjection(DOMAIN fdKeys, rows)
      BY DEF Surjection
    <3> HIDE DEF row, rows
    <3> QED
      BY <3>1, FS_Surjection DEF rows
  <2>2. ASSUME NEW m \in DOMAIN fdKeys PROVE IsFiniteSet(Row(m))
    <3>1. IsFiniteSet({m})
      BY FS_Singleton
    <3> QED
      BY <3>1, FS_Product
  <2>3. IsFiniteSet(UNION {Row(m) : m \in DOMAIN fdKeys})
    <3> HIDE DEF Row
    <3> QED
      BY <2>1, <2>2, FS_UNION
  <2> QED
    BY <2>3 DEF Terms
<1>2. ASSUME NEW S \in SUBSET Terms(fdKeys), NEW p
      PROVE  /\ Cardinality(Of(S, p)) \in Nat
             /\ Cardinality(Of(S, p)) = 0 <=> Of(S, p) = {}
  <2>1. Of(S, p) \in SUBSET Terms(fdKeys)
    OBVIOUS
  <2> HIDE DEF Of
  <2>2. IsFiniteSet(Of(S, p))
    BY <1>1, <2>1, FS_Subset
  <2> QED
    BY <2>2, FS_CardinalityType, FS_EmptySet
<1>3. /\ Added(fdKeys) \in SUBSET Terms(fdKeys)
      /\ Subtracted(fdKeys) \in SUBSET Terms(fdKeys)
  BY DEF Added, Subtracted
<1>4. ASSUME NEW t \in Terms(fdKeys)
      PROVE  LET p == Pair(fdKeys, t)
             IN  Cardinality(Of(Added(fdKeys), p))
                   = Cardinality(Of(Subtracted(fdKeys), p))
  BY DEF MasksCancel, Terms, Pair, Added, Subtracted
<1>5. ASSUME NEW t \in Terms(fdKeys)
      PROVE  LET p == Pair(fdKeys, t)
             IN  Of(Added(fdKeys), p) = {} <=> Of(Subtracted(fdKeys), p) = {}
  <2> HIDE DEF Of
  <2> QED
    BY <1>2, <1>3, <1>4
<1> QED
  BY <1>3, <1>5

(***************************************************************************)
(* Every key has its place: the one it stands at in every list of n public *)
(* keys and that its own key part names.                                   *)
(***************************************************************************)
Placed(fdKeys, n, place) ==
  /\ IsFiniteSet(DOMAIN fdKeys)
  /\ \A m \in DOMAIN fdKeys :
       /\ fdKeys[m].index \in Nat
       /\ place[fdKeys[m].key] = fdKeys[m].index
       /\ DOMAIN fdKeys[m].peers = 1 .. n
       /\ \A j \in 1 .. n : place[fdKeys[m].peers[j]] = j - 1

(***************************************************************************)
(* What the masks of CiFEr are for (dmcfe_encryptor.cpp).  When they       *)
(* cancel, every key in the list of a key part, but the own one, has a key *)
(* part here too, and the list of that one names the first.                *)
(***************************************************************************)
THEOREM CancellingIsMutual ==
  ASSUME NEW fdKeys, NEW n \in Nat, NEW place, Placed(fdKeys, n, place),
         MasksCancel(fdKeys),
         NEW m \in DOMAIN fdKeys, NEW j \in 1 .. n, j - 1 # fdKeys[m].index
  PROVE  \E i \in DOMAIN fdKeys :
           /\ fdKeys[i].key = fdKeys[m].peers[j]
           /\ fdKeys[i].index = j - 1
           /\ fdKeys[m].index + 1 \in 1 .. n
           /\ fdKeys[i].peers[fdKeys[m].index + 1] = fdKeys[m].key
<1> DEFINE t == <<m, j>>
<1>1. t \in Terms(fdKeys) /\ t[1] = m /\ t[2] = j
  BY DEF Terms, Placed
<1>2. /\ IsFiniteSet(DOMAIN fdKeys)
      /\ \A i \in DOMAIN fdKeys : IsFiniteSet(DOMAIN fdKeys[i].peers)
  BY FS_Interval DEF Placed
<1>3. PICK u \in Terms(fdKeys) :
        /\ Pair(fdKeys, u) = Pair(fdKeys, t)
        /\ \/ t \in Added(fdKeys) /\ u \in Subtracted(fdKeys)
           \/ t \in Subtracted(fdKeys) /\ u \in Added(fdKeys)
  <2>1. t \in Added(fdKeys) \/ t \in Subtracted(fdKeys)
    <3>1. fdKeys[m].index \in Nat
      BY DEF Placed
    <3> QED
      BY <1>1, <3>1 DEF Added, Subtracted
  <2>2. /\ Added(fdKeys) \subseteq Terms(fdKeys)
        /\ Subtracted(fdKeys) \subseteq Terms(fdKeys)
    BY DEF Added, Subtracted
  <2> HIDE DEF t
  <2> QED
    BY <1>2, <2>1, <2>2, Counterpart
<1>4. PICK i \in DOMAIN fdKeys, k \in 1 .. n : u = <<i, k>>
  BY DEF Terms, Placed
<1>5. {fdKeys[i].key, fdKeys[i].peers[k]} = {fdKeys[m].key, fdKeys[m].peers[j]}
  BY <1>1, <1>3, <1>4 DEF Pair
<1>6. \/ j - 1 < fdKeys[m].index /\ k - 1 > fdKeys[i].index
      \/ j - 1 > fdKeys[m].index /\ k - 1 < fdKeys[i].index
  BY <1>1, <1>3, <1>4 DEF Added, Subtracted
<1>7. /\ place[fdKeys[i].key] = fdKeys[i].index
      /\ place[fdKeys[m].key] = fdKeys[m].index
      /\ place[fdKeys[i].peers[k]] = k - 1
      /\ place[fdKeys[m].peers[j]] = j - 1
      /\ fdKeys[i].index \in Nat /\ fdKeys[m].index \in Nat
  BY DEF Placed
<1>8. fdKeys[i].key # fdKeys[m].key
  <2> SUFFICES ASSUME fdKeys[i].key = fdKeys[m].key PROVE FALSE
    OBVIOUS
  <2>1. fdKeys[i].index = fdKeys[m].index
    BY <1>7
  <2>2. fdKeys[i].peers[k] = fdKeys[m].peers[j]
    BY <1>5
  <2>3. k - 1 = j - 1
    BY <1>7, <2>2
  <2> QED
    BY <1>6, <1>7, <2>1, <2>3
<1>9. /\ fdKeys[i].key = fdKeys[m].peers[j]
      /\ fdKeys[i].peers[k] = fdKeys[m].key
  BY <1>5, <1>8
<1>10. fdKeys[i].index = j - 1 /\ k = fdKeys[m].index + 1
  BY <1>7, <1>9
<1> QED
  BY <1>9, <1>10

(***************************************************************************)
(* The masks of fewer than n key parts never cancel, whoever derived them  *)
(* and whichever were chosen: what is to keep the data of one client from  *)
(* whoever holds some of the documents (README.md:44).                     *)
(***************************************************************************)
THEOREM FewerNeverCancel ==
  ASSUME NEW fdKeys, NEW n \in Nat, NEW place, Placed(fdKeys, n, place),
         DOMAIN fdKeys # {}, Cardinality(DOMAIN fdKeys) < n
  PROVE  ~MasksCancel(fdKeys)
<1> SUFFICES ASSUME MasksCancel(fdKeys) PROVE FALSE
  OBVIOUS
<1> DEFINE S == {i \in DOMAIN fdKeys : fdKeys[i].index + 1 \in 1 .. n}
           f == [i \in S |-> fdKeys[i].index + 1]
<1>1. PICK m : m \in DOMAIN fdKeys
  OBVIOUS
<1>2. ASSUME NEW j \in 1 .. n
      PROVE  \E i \in S : f[i] = j
  <2>1. CASE fdKeys[m].index = j - 1
    BY <1>1, <2>1
  <2>2. CASE fdKeys[m].index # j - 1
    <3>1. \E i \in DOMAIN fdKeys : fdKeys[i].index = j - 1
      BY <1>1, <2>2, CancellingIsMutual
    <3> QED
      BY <3>1
  <2> QED
    BY <2>1, <2>2
<1>3. f \in Surjection(S, 1 .. n)
  <2>1. f \in [S -> 1 .. n]
    OBVIOUS
  <2> HIDE DEF f, S
  <2> QED
    BY <1>2, <2>1 DEF Surjection
<1>4. IsFiniteSet(DOMAIN fdKeys) /\ S \in SUBSET DOMAIN fdKeys
  BY DEF Placed
<1> HIDE DEF f, S
<1>5. IsFiniteSet(S) /\ Cardinality(S) <= Cardinality(DOMAIN fdKeys)
  BY <1>4, FS_Subset
<1>6. Cardinality(1 .. n) <= Cardinality(S)
  BY <1>3, <1>5, FS_Surjection
<1>7. Cardinality(1 .. n) = n
  BY FS_Interval
<1>8. Cardinality(S) \in Nat /\ Cardinality(DOMAIN fdKeys) \in Nat
  BY <1>4, <1>5, FS_CardinalityType
<1> QED
  BY <1>5, <1>6, <1>7, <1>8
----------------------------------------------------------------------------
(***************************************************************************)
(* The sum of n equal values.  The fold takes the elements in an order of  *)
(* its own choice, so the induction is on the number of those left.        *)
(***************************************************************************)
IsSum(g, ciphers, S) ==
  g = [s \in SUBSET S |->
         IF s = {} THEN 0
                   ELSE ciphers[CHOOSE x \in s : TRUE].value
                          + g[s \ {CHOOSE x \in s : TRUE}]]

LEMMA EqualSum ==
  ASSUME NEW S, IsFiniteSet(S), NEW v \in Nat, NEW g, NEW ciphers,
         \A x \in S : ciphers[x].value = v,
         IsSum(g, ciphers, S)
  PROVE  \A s \in SUBSET S : g[s] = Cardinality(s) * v
<1> DEFINE T == {n \in Nat : \A s \in SUBSET S :
                   Cardinality(s) = n => g[s] = n * v}
<1>1. ASSUME NEW s \in SUBSET S
      PROVE  /\ IsFiniteSet(s) /\ Cardinality(s) \in Nat
             /\ Cardinality(s) = 0 <=> s = {}
  BY FS_Subset, FS_CardinalityType, FS_EmptySet
<1>2. 0 \in T
  <2>1. g[{}] = 0
    BY DEF IsSum
  <2> QED
    BY <1>1, <2>1
<1>3. ASSUME NEW n \in Nat, n \in T PROVE n + 1 \in T
  <2> SUFFICES ASSUME NEW s \in SUBSET S, Cardinality(s) = n + 1
               PROVE  g[s] = (n + 1) * v
    OBVIOUS
  <2> DEFINE x == CHOOSE y \in s : TRUE
  <2>1. s # {}
    BY <1>1
  <2>2. x \in s /\ s \ {x} \in SUBSET S
    BY <2>1
  <2>3. g[s] = ciphers[x].value + g[s \ {x}]
    BY <2>1 DEF IsSum
  <2> HIDE DEF x
  <2>4. Cardinality(s \ {x}) = n
    BY <1>1, <2>2, FS_RemoveElement
  <2>5. g[s \ {x}] = n * v
    BY <1>3, <2>2, <2>4
  <2>6. ciphers[x].value = v
    BY <2>2
  <2> QED
    BY <2>3, <2>5, <2>6
<1>4. Nat \subseteq T
  <2> HIDE DEF T
  <2> QED
    BY <1>2, <1>3, Induction
<1> QED
  BY <1>1, <1>4

LEMMA SumOfEqualValues ==
  ASSUME NEW n \in Nat, NEW v \in Nat, NEW ciphers,
         \A m \in 1 .. n : ciphers[m].value = v,
         DOMAIN ciphers = 1 .. n
  PROVE  MapThenSumSet(LAMBDA m : ciphers[m].value, DOMAIN ciphers) = n * v
<1> DEFINE S == 1 .. n
           h == [s \in SUBSET S |-> Cardinality(s) * v]
<1>1. IsFiniteSet(S) /\ Cardinality(S) = n
  BY FS_Interval
<1>2. IsSum(h, ciphers, S)
  <2>1. ASSUME NEW s \in SUBSET S
        PROVE  h[s] = IF s = {} THEN 0
                      ELSE ciphers[CHOOSE x \in s : TRUE].value
                             + h[s \ {CHOOSE x \in s : TRUE}]
    <3>1. CASE s = {}
      <4>1. Cardinality(s) = 0
        BY <3>1, FS_EmptySet
      <4> QED
        BY <3>1, <4>1
    <3>2. CASE s # {}
      <4> DEFINE x == CHOOSE y \in s : TRUE
      <4>1. x \in s /\ s \ {x} \in SUBSET S
        BY <3>2
      <4> HIDE DEF x
      <4>2. IsFiniteSet(s)
        BY <1>1, FS_Subset
      <4>3. /\ Cardinality(s \ {x}) = Cardinality(s) - 1
            /\ Cardinality(s) \in Nat /\ Cardinality(s \ {x}) \in Nat
        BY <4>1, <4>2, FS_RemoveElement, FS_CardinalityType
      <4>4. \A a \in Nat : v + (a - 1) * v = a * v
        OBVIOUS
      <4>5. ciphers[x].value + h[s \ {x}] = h[s]
        BY <4>1, <4>3, <4>4
      <4> QED
        BY <3>2, <4>5 DEF x
    <3> QED
      BY <3>1, <3>2
  <2> QED
    BY <2>1 DEF IsSum
<1>3. PICK f : f = (CHOOSE g : IsSum(g, ciphers, S))
  OBVIOUS
<1>4. IsSum(f, ciphers, S)
  BY <1>2, <1>3
<1>5. f[S] = n * v
  <2>1. \A x \in S : ciphers[x].value = v
    OBVIOUS
  <2> HIDE DEF S
  <2> QED
    BY <1>1, <1>4, <2>1, EqualSum
<1>6. MapThenSumSet(LAMBDA m : ciphers[m].value, DOMAIN ciphers) = f[S]
  BY <1>3 DEF MapThenSumSet, MapThenFoldSet, IsSum
<1> QED
  BY <1>5, <1>6
----------------------------------------------------------------------------
(***************************************************************************)
(* Documents that are whole, all about the same labels and in the order of *)
(* their indexes: document k holds the ciphers cipher[k] and the key part  *)
(* fdKey[k].                                                               *)
(***************************************************************************)
Orderly(ds, n, labels, cipher, fdKey) ==
  /\ ds = [k \in 1 .. n |-> ds[k]]
  /\ fdKey = [k \in 1 .. n |-> fdKey[k]]
  /\ Len(ds) = n
  /\ \A k \in 1 .. n :
       /\ Complete(ds[k])
       /\ ds[k] = AnalyticsData(ds[k].index, ds[k].encData, ds[k].fdKey)
       /\ ds[k].index = k - 1
       /\ ds[k].encData = [l \in labels |-> G1(cipher[k][l])]
       /\ ds[k].fdKey = Halves(fdKey[k])

LEMMA OrderlyCarrying ==
  ASSUME NEW n \in Nat, NEW labels, NEW cipher, NEW fdKey, NEW ds,
         Orderly(ds, n, labels, cipher, fdKey), NEW label \in labels
  PROVE  Carrying(ds, label) = 1 .. n
<1>1. DOMAIN ds = 1 .. n
  BY DEF Orderly
<1>2. \A k \in 1 .. n : Complete(ds[k]) /\ label \in DOMAIN ds[k].encData
  BY DEF Orderly
<1> QED
  BY <1>1, <1>2 DEF Carrying

\* The loop takes all of them in.
LEMMA OrderlyGathering ==
  ASSUME NEW n \in Nat, NEW labels, NEW cipher, NEW fdKey, NEW ds,
         Orderly(ds, n, labels, cipher, fdKey)
  PROVE  Gathering(ds) = "kOk"
<1>1. ASSUME NEW k \in 1 .. n
      PROVE  ~Throws(ds, k) /\ ~Rejected(ds, k) /\ ~PastEnd(ds, k)
  <2>1. /\ Complete(ds[k]) /\ ds[k].index = k - 1 /\ Len(ds) = n
        /\ DOMAIN ds[k].encData = labels
        /\ ds[k].fdKey = Halves(fdKey[k])
    BY DEF Orderly
  <2>3. Len(Halves(fdKey[k])) = 2
    BY DEF Halves
  <2>2. ~CipherPastEnd(ds, k)
    <3> SUFFICES ASSUME NEW label \in labels,
                        ds[k].index
                          > Cardinality(Carrying(ds, label) \cap 1 .. (k - 1))
                 PROVE  FALSE
      BY <2>1 DEF CipherPastEnd
    <3>1. Carrying(ds, label) \cap 1 .. (k - 1) = 1 .. (k - 1)
      <4>1. Carrying(ds, label) = 1 .. n
        BY OrderlyCarrying
      <4> QED
        BY <4>1
    <3>2. Cardinality(1 .. (k - 1)) = k - 1
      BY FS_Interval
    <3>3. ds[k].index = k - 1 /\ k - 1 \in Int /\ ~(k - 1 > k - 1)
      BY <2>1
    <3> QED
      BY ONLY <3>1, <3>2, <3>3,
              ds[k].index > Cardinality(Carrying(ds, label) \cap 1 .. (k - 1))
  <2> QED
    BY <2>1, <2>2, <2>3 DEF Throws, Rejected, PastEnd, IndexRejected, KeyRejected,
                      KeyPastEnd
<1>2. DOMAIN ds = 1 .. n
  BY DEF Orderly
<1>3. {k \in DOMAIN ds : Throws(ds, k) \/ Rejected(ds, k) \/ PastEnd(ds, k)} = {}
  BY <1>1, <1>2
<1> QED
  BY <1>3 DEF Gathering

LEMMA OrderlyCiphers ==
  ASSUME NEW n \in Nat, NEW labels, NEW cipher, NEW fdKey, NEW ds,
         Orderly(ds, n, labels, cipher, fdKey), NEW label \in labels
  PROVE  Ciphers(ds, label) = [k \in 1 .. n |-> G1(cipher[k][label])]
<1> DEFINE entries == [k \in Carrying(ds, label) |->
                         [index |-> ds[k].index, item |-> ds[k].encData[label]]]
<1>1. DOMAIN entries = 1 .. n
  BY OrderlyCarrying
<1>2. ASSUME NEW k \in 1 .. n
      PROVE  entries[k].index = k - 1 /\ entries[k].item = G1(cipher[k][label])
  <2>1. entries[k] = [index |-> ds[k].index, item |-> ds[k].encData[label]]
    BY <1>1
  <2> HIDE DEF entries
  <2>2. /\ ds[k].index = k - 1
        /\ ds[k].encData = [l \in labels |-> G1(cipher[k][l])]
    BY DEF Orderly
  <2> QED
    BY <2>1, <2>2
<1>3. Ciphers(ds, label) = InsertedAt(entries)
  BY DEF Ciphers
<1> HIDE DEF entries
<1>4. InsertedAt(entries) = [k \in 1 .. n |-> entries[k].item]
  BY <1>1, <1>2, InsertedInOrder
<1> QED
  BY <1>2, <1>3, <1>4

LEMMA OrderlyFdKeys ==
  ASSUME NEW n \in Nat, NEW labels, NEW cipher, NEW fdKey, NEW ds,
         Orderly(ds, n, labels, cipher, fdKey)
  PROVE  FdKeys(ds) = [k \in 1 .. n |-> G1(fdKey[k])]
<1> DEFINE entries == [k \in DOMAIN ds |->
                         [index |-> ds[k].index, item |-> Joined(ds[k].fdKey)]]
<1>1. DOMAIN entries = 1 .. n
  BY DEF Orderly
<1>2. ASSUME NEW k \in 1 .. n
      PROVE  entries[k].index = k - 1 /\ entries[k].item = G1(fdKey[k])
  <2>1. entries[k] = [index |-> ds[k].index, item |-> Joined(ds[k].fdKey)]
    BY <1>1
  <2> HIDE DEF entries
  <2>2. ds[k].index = k - 1 /\ ds[k].fdKey = Halves(fdKey[k])
    BY DEF Orderly
  <2>3. Joined(Halves(fdKey[k])) = G1(fdKey[k])
    BY DEF Joined, Halves
  <2> QED
    BY <2>1, <2>2, <2>3
<1>3. FdKeys(ds) = InsertedAt(entries)
  BY DEF FdKeys
<1> HIDE DEF entries
<1>4. InsertedAt(entries) = [k \in 1 .. n |-> entries[k].item]
  BY <1>1, <1>2, InsertedInOrder
<1> QED
  BY <1>2, <1>3, <1>4

\* No text is damaged, so each is decoded to what it was.
LEMMA OrderlyDecodings ==
  ASSUME NEW n \in Nat, NEW labels, NEW cipher, NEW fdKey, NEW ds,
         Orderly(ds, n, labels, cipher, fdKey)
  PROVE  Decodings(ds) \subseteq {ds}
<1>1. ASSUME NEW k \in 1 .. n, NEW d \in Decoded(ds[k]) PROVE d = ds[k]
  <2> DEFINE buffers == {Blank} \cup {ds[k].encData[l] : l \in DOMAIN ds[k].encData}
  <2>1. PICK f \in [DOMAIN ds[k].encData -> buffers] :
          /\ d = [ds[k] EXCEPT !.encData = f]
          /\ \A l \in DOMAIN f :
               \E b \in buffers : f[l] \in fromBase64(b, ds[k].encData[l])
    BY <1>1 DEF Decoded
  <2>2. ds[k].encData = [l \in labels |-> G1(cipher[k][l])]
    BY DEF Orderly
  <2>3. ASSUME NEW l \in labels PROVE f[l] = ds[k].encData[l]
    <3>1. ds[k].encData[l] # Blank
      BY <2>2 DEF G1, Blank
    <3> QED
      BY <2>1, <2>2, <3>1 DEF fromBase64
  <2>4. f = ds[k].encData
    BY <2>1, <2>2, <2>3
  <2> HIDE DEF buffers
  <2>5. ds[k] = AnalyticsData(ds[k].index, ds[k].encData, ds[k].fdKey)
    BY DEF Orderly
  <2> QED
    BY <2>1, <2>4, <2>5 DEF AnalyticsData
<1>2. ASSUME NEW s \in Decodings(ds) PROVE s = ds
  <2>1. ds = [k \in 1 .. n |-> ds[k]] /\ DOMAIN ds = 1 .. n
    BY DEF Orderly
  <2>2. s = [k \in 1 .. n |-> s[k]]
    BY <1>2, <2>1 DEF Decodings
  <2>3. ASSUME NEW k \in 1 .. n PROVE s[k] \in Decoded(ds[k])
    BY <1>2, <2>1 DEF Decodings
  <2>4. \A k \in 1 .. n : s[k] = ds[k]
    BY <1>1, <2>3
  <2> QED
    BY <2>1, <2>2, <2>4
<1> QED
  BY <1>2

\* The ciphers of one label.
Column(cipher, n, l) == [k \in 1 .. n |-> cipher[k][l]]

\* The arrays that CiFEr gets.
LEMMA OrderlyDecryption ==
  ASSUME NEW n \in Nat, NEW labels, NEW cipher, NEW fdKey, NEW ds,
         Orderly(ds, n, labels, cipher, fdKey), NEW l \in labels, NEW bound
  PROVE  decrypt(Ciphers(ds, l), FdKeys(ds), n, l, bound)
           = cfe_dmcfe_decrypt(Column(cipher, n, l), fdKey, n, l, AsLong(bound))
<1> DEFINE c == [k \in 1 .. n |-> G1(cipher[k][l])]
           d == [k \in 1 .. n |-> G1(fdKey[k])]
<1>1. Ciphers(ds, l) = c
  BY OrderlyCiphers
<1>2. FdKeys(ds) = d
  BY OrderlyFdKeys
<1>3. LengthsAgree(c, d, n)
  BY DEF LengthsAgree
<1>4. \A k \in 1 .. n : Blank \notin {c[k], d[k]}
  BY DEF Blank, G1
<1>5. Elements(c, n) = Column(cipher, n, l) /\ Elements(d, n) = fdKey
  BY DEF Elements, G1, Column, Orderly
<1> HIDE DEF c, d
<1> QED
  BY <1>1, <1>2, <1>3, <1>4, <1>5 DEF decrypt, Written

\* A result that is there for all labels, and whose numbers come out of CiFEr.
Decrypted(result, n, labels, cipher, fdKey, bound) ==
  /\ result = [l \in labels |-> result[l]]
  /\ \A l \in labels :
       \E o \in cfe_dmcfe_decrypt(Column(cipher, n, l), fdKey, n, l,
                                  AsLong(bound)) :
         o.status = "kOk" /\ result[l] = o.value

(***************************************************************************)
(* The analysis of such documents decrypts, label by label, the ciphers    *)
(* and key parts as they are, and if it succeeds then for every label      *)
(* (getInnerProductAnalysis, core.cpp).                                    *)
(***************************************************************************)
THEOREM OrderlyAnalysis ==
  ASSUME NEW n \in Nat \ {0}, NEW labels, NEW cipher, NEW fdKey, NEW ds,
         Orderly(ds, n, labels, cipher, fdKey), NEW bound,
         NEW a \in getInnerProductAnalysis(ds, n, bound), a.status = "kOk"
  PROVE  Decrypted(a.result, n, labels, cipher, fdKey, bound)
<1>1. Len(ds) = n /\ DOMAIN ds = 1 .. n
  BY DEF Orderly
<1>2. Gathering(ds) = "kOk"
  BY OrderlyGathering
<1>3. a \in UNION {DecryptAll(s, n, bound) : s \in Decodings(ds)}
  BY <1>1, <1>2 DEF getInnerProductAnalysis
<1>4. a \in DecryptAll(ds, n, bound)
  BY <1>3, OrderlyDecodings
<1>5. Labels(ds) = labels
  <2>1. \A k \in 1 .. n : Complete(ds[k]) /\ DOMAIN ds[k].encData = labels
    BY DEF Orderly
  <2>2. \A d \in Range(ds) : Complete(d) /\ DOMAIN d.encData = labels
    BY <1>1, <2>1 DEF Range
  <2>3. ds[1] \in Range(ds)
    BY <1>1 DEF Range
  <2> QED
    BY <2>2, <2>3 DEF Labels
<1> DEFINE outcomes(l) == decrypt(Ciphers(ds, l), FdKeys(ds), n, l, bound)
<1>6. PICK f \in [labels -> UNION {outcomes(l) : l \in labels}] :
        /\ \A l \in labels : f[l] \in outcomes(l) /\ f[l].status = "kOk"
        /\ a.result = [l \in labels |-> f[l].value]
  <2> HIDE DEF outcomes
  <2>1. PICK f \in [labels -> UNION {outcomes(l) : l \in labels}] :
          /\ \A l \in labels : f[l] \in outcomes(l)
          /\ a \in IF {l \in labels : f[l].status = "kOk"} = labels
                     THEN {Analysis("kOk", [l \in labels |-> f[l].value])}
                     ELSE {Analysis("kCryptoOperationError",
                                    [l \in done |-> f[l].value]) :
                             done \in SUBSET {l \in labels : f[l].status = "kOk"}}
    BY <1>4, <1>5 DEF DecryptAll, outcomes
  <2>2. CASE {l \in labels : f[l].status = "kOk"} = labels
    <3>1. a = Analysis("kOk", [l \in labels |-> f[l].value])
      BY <2>1, <2>2
    <3> QED
      BY <2>1, <2>2, <3>1 DEF Analysis
  <2>3. CASE {l \in labels : f[l].status = "kOk"} # labels
    <3>1. \E r : a = Analysis("kCryptoOperationError", r)
      BY <2>1, <2>3
    <3> QED
      BY <3>1 DEF Analysis
  <2> QED
    BY <2>2, <2>3
<1>7. ASSUME NEW l \in labels
      PROVE  outcomes(l)
               = cfe_dmcfe_decrypt(Column(cipher, n, l), fdKey, n, l,
                                   AsLong(bound))
  BY OrderlyDecryption
<1> HIDE DEF outcomes
<1> QED
  BY <1>6, <1>7 DEF Decrypted
----------------------------------------------------------------------------
(***************************************************************************)
(* Key parts in the order of their indexes, for lists of n public keys in  *)
(* which every key stands at its own place.                                *)
(***************************************************************************)
InPlace(part, n, place) ==
  /\ part = [k \in 1 .. n |-> part[k]]
  /\ \A k \in 1 .. n :
       /\ part[k].index = k - 1
       /\ place[part[k].key] = k - 1
       /\ DOMAIN part[k].peers = 1 .. n
       /\ \A j \in 1 .. n : place[part[k].peers[j]] = j - 1

\* Decryption of n equal values under such key parts.
LEMMA DecryptedSum ==
  ASSUME NEW n \in Nat \ {0}, NEW part, NEW place, InPlace(part, n, place),
         NEW c, DOMAIN c = 1 .. n,
         NEW v \in Nat, \A k \in 1 .. n : c[k].value = v,
         NEW label, NEW bound,
         NEW o \in cfe_dmcfe_decrypt(c, part, n, label, bound),
         o.status = "kOk"
  PROVE  MasksCancel(part) /\ o.value = (n * v) % ULongRange
<1>1. ASSUME NEW k \in DOMAIN part PROVE part[k].peers # NoPeers
  <2>1. DOMAIN part[k].peers = 1 .. n /\ 1 \in 1 .. n
    BY DEF InPlace
  <2>2. DOMAIN NoPeers = {}
    BY DEF NoPeers
  <2> QED
    BY <2>1, <2>2
<1> DEFINE sum == MapThenSumSet(LAMBDA m : c[m].value, DOMAIN c)
<1>2. o # NotFound
  BY DEF NotFound
<1>3. MasksCancel(part) /\ o = Found(sum)
  <2> HIDE DEF sum
  <2> QED
    BY <1>1, <1>2 DEF cfe_dmcfe_decrypt, sum
<1>4. sum = n * v
  BY SumOfEqualValues
<1> HIDE DEF sum
<1> QED
  BY <1>3, <1>4 DEF Found

\* The owner of the key part k knows that of j, another one, at its place.
Knows(part, j, k) ==
  /\ part[j].key = part[k].key => j = k
  /\ j # k => part[k].peers[j] = part[j].key

\* Cancelling masks make a group of their owners.
LEMMA MutualGroup ==
  ASSUME NEW n \in Nat \ {0}, NEW part, NEW place, InPlace(part, n, place),
         MasksCancel(part), NEW j \in 1 .. n, NEW k \in 1 .. n
  PROVE  Knows(part, j, k)
<1>1. DOMAIN part = 1 .. n
  BY DEF InPlace
<1>2. part[j].key = part[k].key => j = k
  BY DEF InPlace
<1>3. ASSUME j # k PROVE part[k].peers[j] = part[j].key
  <2>1. IsFiniteSet(1 .. n)
    BY FS_Interval
  <2>2. Placed(part, n, place)
    BY <1>1, <2>1 DEF InPlace, Placed
  <2>3. j - 1 # part[k].index
    BY <1>3 DEF InPlace
  <2>4. PICK i \in DOMAIN part :
          /\ part[i].key = part[k].peers[j]
          /\ part[i].index = j - 1
          /\ part[k].index + 1 \in 1 .. n
          /\ part[i].peers[part[k].index + 1] = part[k].key
    <3>1. k \in DOMAIN part /\ n \in Nat
      BY <1>1
    <3> QED
      BY ONLY <2>2, <2>3, <3>1, j \in 1 .. n, MasksCancel(part),
              CancellingIsMutual
  <2>5. i = j
    BY <1>1, <2>4 DEF InPlace
  <2> QED
    BY <2>4, <2>5
<1> QED
  BY <1>2, <1>3 DEF Knows

\* Ciphers of the values v.
AllContain(cipher, n, labels, v) ==
  /\ v \in [labels -> Nat]
  /\ \A k \in 1 .. n : \A l \in labels : cipher[k][l].value = v[l]

\* n times the values v, as far as an unsigned long goes.
Sums(result, n, labels, v) ==
  result = [l \in labels |-> (n * v[l]) % ULongRange]

(***************************************************************************)
(* What a successful analysis says of such documents: the result is n      *)
(* times what each contains, and the owners of the documents are n         *)
(* different clients who know each other at their places.                  *)
(***************************************************************************)
THEOREM OrderlySum ==
  ASSUME NEW n \in Nat \ {0}, NEW labels, labels # {}, NEW cipher, NEW part,
         NEW place, NEW ds, Orderly(ds, n, labels, cipher, part),
         InPlace(part, n, place),
         NEW v, AllContain(cipher, n, labels, v),
         NEW bound, NEW a \in getInnerProductAnalysis(ds, n, bound),
         a.status = "kOk"
  PROVE  /\ Sums(a.result, n, labels, v)
         /\ \A j, k \in 1 .. n : Knows(part, j, k)
<1>1. Decrypted(a.result, n, labels, cipher, part, bound)
  BY OrderlyAnalysis
<1>3. ASSUME NEW l \in labels
      PROVE  MasksCancel(part) /\ a.result[l] = (n * v[l]) % ULongRange
  <2> DEFINE c == Column(cipher, n, l)
  <2>1. PICK o \in cfe_dmcfe_decrypt(c, part, n, l, AsLong(bound)) :
          o.status = "kOk" /\ a.result[l] = o.value
    BY <1>1 DEF Decrypted
  <2>2. /\ DOMAIN c = 1 .. n
        /\ \A k \in 1 .. n : c[k].value = v[l]
        /\ v[l] \in Nat
    BY DEF Column, AllContain
  <2> HIDE DEF c
  <2>3. MasksCancel(part) /\ o.value = (n * v[l]) % ULongRange
    BY <2>1, <2>2, DecryptedSum
  <2> QED
    BY <2>1, <2>3
<1>4. \A j, k \in 1 .. n : Knows(part, j, k)
  <2>1. MasksCancel(part)
    BY <1>3
  <2> QED
    BY <2>1, MutualGroup
<1> QED
  BY <1>1, <1>3, <1>4 DEF Decrypted, Sums
================================================================================
