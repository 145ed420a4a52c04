------------------------- MODULE AnalysisBatchesProofs -------------------------
(***************************************************************************)
(* The properties of the analysis, for every list of documents that        *)
(* clients may have made, every policy and every bound.                    *)
(***************************************************************************)
EXTENDS AnalysisBatches, GroupProofs

Collected == ds \in Seq(Documents)

\* Documents are collected, nothing else.
LEMMA OnlyCollected == Spec => []Collected
<1>1. Init => Collected
  BY DEF Init, Collected
<1>2. Collected /\ [Collect]_ds => Collected'
  BY DEF Collected, Collect
<1> QED
  BY <1>1, <1>2, PTL DEF Spec

LEMMA Batch ==
  ASSUME Collected
  PROVE  /\ Len(ds) \in Nat /\ DOMAIN ds = 1 .. Len(ds)
         /\ IsBatch(ds, Len(ds)) /\ MadeByThese(ds, Len(ds), Encryptors)
         /\ NoKeyEarly(Encryptors)
<1>1. Len(ds) \in Nat /\ DOMAIN ds = 1 .. Len(ds) /\ ds = [k \in 1 .. Len(ds) |-> ds[k]]
  BY DEF Collected
<1>2. ASSUME NEW k \in 1 .. Len(ds)
      PROVE  \E e \in Encryptors : MadeBy(e, ds[k]) /\ ds[k].index \in Nat
  <2>1. ds[k] \in Documents
    BY DEF Collected
  <2>2. PICK e \in Encryptors : MadeBy(e, ds[k])
    BY <2>1, BatchesAssumption DEF BatchesAssumption
  <2>3. ds[k].index \in Nat
    BY <2>2, BatchesAssumption DEF BatchesAssumption, NoKeyEarly, MadeBy
  <2> QED
    BY <2>2, <2>3
<1> QED
  BY <1>1, <1>2, BatchesAssumption
     DEF IsBatch, MadeByThese, BatchesAssumption

----------------------------------------------------------------------------
\* A list of whole documents in index order is taken in.
LEMMA OrderTakenIn ==
  ASSUME Collected, Whole, SameLabels, InIndexOrder
  PROVE  TakenIn(ds, Len(ds))
<1> DEFINE N == Len(ds)
<1>1. N \in Nat /\ DOMAIN ds = 1 .. N
  BY Batch
<1>2. ASSUME NEW k \in 1 .. N
      PROVE  /\ Complete(ds[k]) /\ Len(ds[k].fdKey) = 2 /\ ds[k].index = k - 1
             /\ DOMAIN ds[k].encData = Labels(ds)
  BY <1>1 DEF Whole, SameLabels, InIndexOrder
<1>3. ASSUME NEW l \in Labels(ds), NEW k \in 1 .. N
      PROVE  Count(Carrying(ds, l), k - 1) = k - 1
  <2>1. Carrying(ds, l) = 1 .. N
    BY <1>1, <1>2 DEF Carrying
  <2>2. (1 .. N) \cap 1 .. (k - 1) = 1 .. (k - 1)
    OBVIOUS
  <2>3. Cardinality(1 .. (k - 1)) = k - 1
    BY FS_Interval
  <2> HIDE DEF N
  <2> QED
    BY <2>1, <2>2, <2>3 DEF Count, Upto
<1> HIDE DEF N
<1>4. ASSUME NEW k \in 1 .. N
      PROVE  /\ ds[k].index <= k - 1
             /\ \A l \in DOMAIN ds[k].encData :
                  ds[k].index <= Count(Carrying(ds, l), k - 1)
  <2>1. ds[k].index = k - 1 /\ k - 1 <= k - 1
    BY <1>2
  <2> QED
    BY <1>2, <1>3, <2>1
<1>5. TakenIn(ds, N)
  BY <1>2, <1>4 DEF TakenIn
<1> QED
  BY <1>5 DEF N

(***************************************************************************)
(* With one document per participant the loop inserts inside its vectors   *)
(* exactly when the documents are in index order (core.cpp:199-213): an    *)
(* item is never before its own index, so that any disorder leaves some    *)
(* index unreached.                                                        *)
(***************************************************************************)
THEOREM DefinedWhenSorted == Spec => []DefinedIffInIndexOrder
<1>1. Collected => DefinedIffInIndexOrder
  <2> SUFFICES ASSUME Collected, Whole, SameLabels,
                      {ds[k].index : k \in DOMAIN ds} = 0 .. (Len(ds) - 1)
               PROVE  (Gathering(ds) = "kOk") <=> InIndexOrder
    BY DEF DefinedIffInIndexOrder
  <2> DEFINE N == Len(ds)
             f == [k \in 1 .. N |-> ds[k].index + 1]
  <2>1. N \in Nat /\ DOMAIN ds = 1 .. N /\ IsBatch(ds, N)
    BY Batch
  <2>2. ASSUME InIndexOrder PROVE Gathering(ds) = "kOk"
    BY <2>1, <2>2, OrderTakenIn, TakenInGathers
  <2>3. ASSUME Gathering(ds) = "kOk" PROVE InIndexOrder
    <3>1. TakenIn(ds, N)
      BY <2>1, <2>3, Gathered
    <3>2. ASSUME NEW k \in 1 .. N
          PROVE  f[k] \in Nat /\ f[k] <= k /\ f[k] = ds[k].index + 1
      <4>1. ds[k].index \in Nat /\ ds[k].index <= k - 1
        BY <2>1, <3>1 DEF IsBatch, TakenIn
      <4> HIDE DEF N
      <4> QED
        BY <4>1
    <3>3. ASSUME NEW j \in 1 .. N PROVE \E i \in 1 .. N : f[i] = j
      <4>1. j - 1 \in {ds[k].index : k \in DOMAIN ds}
        <5>1. j - 1 \in 0 .. (N - 1)
          <6> HIDE DEF N
          <6> QED
            BY <2>1
        <5> QED
          BY <5>1
      <4>2. PICK i \in 1 .. N : ds[i].index = j - 1
        BY <2>1, <4>1
      <4>3. f[i] = j
        BY <4>2
      <4> QED
        BY <4>3
    <3> HIDE DEF f, N
    <3>4. \A k \in 1 .. N : f[k] = k
      BY <2>1, <3>2, <3>3, NothingLeftOver
    <3>5. ASSUME NEW k \in 1 .. N PROVE ds[k].index = k - 1
      <4>1. f[k] = k /\ f[k] = ds[k].index + 1 /\ ds[k].index \in Nat
        BY <2>1, <3>2, <3>4 DEF IsBatch
      <4> QED
        BY <4>1
    <3> QED
      BY <2>1, <3>5 DEF InIndexOrder
  <2> QED
    BY <2>2, <2>3
<1> QED
  BY <1>1, OnlyCollected, PTL

----------------------------------------------------------------------------
(***************************************************************************)
(* Whatever was collected and however the analysis ends, a number is about *)
(* one whole group of participants who knew each other's keys, or it was   *)
(* read where something is missing (getInnerProductAnalysis, core.cpp).    *)
(***************************************************************************)
THEOREM NumbersOfGroupsOnly == Spec => []NumberOnlyForCoherentGroup
<1>1. Collected => NumberOnlyForCoherentGroup
  <2> SUFFICES ASSUME Collected, NEW policy \in Policies, NEW bound \in Bounds,
                      NEW o \in getInnerProductAnalysis(ds, policy, bound),
                      NEW l \in DOMAIN o.result,
                      o.result[l] # Unpredictable \/ Readable(policy, l)
               PROVE  \E g \in Groups(policy) :
                        Coherent(g, l) /\ o.result[l] = SumOf(g, l) % ULongRange
    BY DEF NumberOnlyForCoherentGroup
  <2> DEFINE N == Len(ds)
  <2>1. /\ N \in Nat /\ DOMAIN ds = 1 .. N
        /\ IsBatch(ds, N) /\ MadeByThese(ds, N, Encryptors)
        /\ NoKeyEarly(Encryptors) /\ policy \in Nat
    BY Batch, BatchesAssumption DEF BatchesAssumption
  <2>2. Sound(ds, policy, l, o)
    <3>1. CASE Readable(policy, l)
      <4>1. NothingMissing(ds, N, l)
        BY <2>1, <3>1 DEF Readable, Undamaged, KeyPart, Part, NothingMissing
      <4> QED
        BY <3>1, <4>1 DEF Sound, Readable
    <3> QED
      BY <3>1 DEF Sound
  <2> HIDE DEF N
  <2>3. PICK g \in [1 .. policy -> 1 .. N] :
          /\ IsGroup(ds, policy, l, g)
          /\ o.result[l] = SumOver(ds, g, l) % ULongRange
    BY <2>1, <2>2, SumsAreOfGroups
  <2>4. DOMAIN g = 1 .. policy /\ Len(g) = policy
    BY <2>1
  <2>5. ASSUME NEW m \in 1 .. policy
        PROVE  /\ ds[g[m]].index = m - 1 /\ Undamaged(ds[g[m]], l)
               /\ ds[g[m]].encData[l][1].key = KeyPart(ds[g[m]]).key
               /\ DOMAIN KeyPart(ds[g[m]]).peers = 1 .. policy
               /\ KeyPart(ds[g[m]]).policy = policy
               /\ \A j \in 1 .. policy : j # m =>
                    KeyPart(ds[g[m]]).peers[j] = KeyPart(ds[g[j]]).key
    <3>1. IsMember(ds, policy, l, g, m)
      BY <2>3 DEF IsGroup
    <3> QED
      BY <3>1 DEF IsMember, Undamaged, KeyPart, Part
  <2>6. g \in Groups(policy)
    BY <2>1, <2>3, <2>5 DEF Groups
  <2>7. Coherent(g, l)
    BY <2>4, <2>5 DEF Coherent
  <2>8. SumOf(g, l) = SumOver(ds, g, l)
    BY DEF SumOf, SumOver
  <2> QED
    BY <2>3, <2>6, <2>7, <2>8
<1> QED
  BY <1>1, OnlyCollected, PTL
----------------------------------------------------------------------------
\* Decoding may find every text as it was.
LEMMA DecodedAsItWas ==
  ASSUME NEW n \in Nat, NEW docs, IsBatch(docs, n), NEW maker,
         MadeIn(docs, n, maker), \A k \in 1 .. n : Complete(docs[k])
  PROVE  docs \in Decodings(docs)
<1>1. ASSUME NEW k \in 1 .. n PROVE docs[k] \in Decoded(docs[k])
  <2> DEFINE d == docs[k]
             buffers == {Blank} \cup {d.encData[l] : l \in DOMAIN d.encData}
             f == [l \in DOMAIN d.encData |-> d.encData[l]]
  <2>1. d = AnalyticsData(d.index, f, d.fdKey)
    BY DEF MadeIn, MadeBy
  <2>2. f = d.encData
    <3> HIDE DEF d
    <3>1. d.encData = [l \in DOMAIN d.encData |-> d.encData[l]]
      BY <2>1 DEF AnalyticsData
    <3> QED
      BY <3>1
  <2> HIDE DEF d
  <2>3. f \in [DOMAIN d.encData -> buffers]
    OBVIOUS
  <2>4. ASSUME NEW l \in DOMAIN f
        PROVE  \E b \in buffers : f[l] \in fromBase64(b, d.encData[l])
    <3>1. Blank \in buffers /\ f[l] = d.encData[l]
      OBVIOUS
    <3>2. d.encData[l] \in fromBase64(Blank, d.encData[l])
      BY DEF fromBase64
    <3> QED
      BY <3>1, <3>2
  <2>5. d = [d EXCEPT !.encData = f]
    <3> HIDE DEF f
    <3> QED
      BY <2>1 DEF AnalyticsData
  <2> HIDE DEF f
  <2>6. d \in Decoded(d)
    BY <2>3, <2>4, <2>5 DEF Decoded
  <2> QED
    BY <2>6 DEF d
<1>2. docs = [k \in 1 .. n |-> docs[k]] /\ DOMAIN docs = 1 .. n
  BY DEF IsBatch
<1> DEFINE decoded == [k \in DOMAIN docs |-> Decoded(docs[k])]
<1>3. \A k \in 1 .. n : docs[k] \in decoded[k] /\ decoded[k] \in Range(decoded)
  BY <1>1, <1>2 DEF Range
<1> HIDE DEF decoded
<1>4. docs \in [1 .. n -> UNION Range(decoded)]
  BY <1>2, <1>3
<1> QED
  BY <1>2, <1>3, <1>4 DEF Decodings, decoded

\* Where every label is decrypted in one way, there is one analysis.
LEMMA OneAnalysis ==
  ASSUME NEW docs, NEW n, NEW bound,
         NEW r, r = [l \in Labels(docs) |-> r[l]],
         \A l \in Labels(docs) :
           /\ decrypt(Ciphers(docs, l), FdKeys(docs), n, l, bound) = {r[l]}
           /\ r[l].status = "kOk"
  PROVE  DecryptAll(docs, n, bound)
           = {Analysis("kOk", [l \in Labels(docs) |-> r[l].value])}
<1> DEFINE labels == Labels(docs)
           outcomes(l) == decrypt(Ciphers(docs, l), FdKeys(docs), n, l, bound)
           choices == {f \in [labels -> UNION {outcomes(l) : l \in labels}] :
                         \A l \in labels : f[l] \in outcomes(l)}
           Good(f) == {l \in labels : f[l].status = "kOk"}
           A(f) == IF Good(f) = labels
                     THEN {Analysis("kOk", [l \in labels |-> f[l].value])}
                     ELSE {Analysis("kCryptoOperationError",
                                    [l \in done |-> f[l].value]) :
                             done \in SUBSET Good(f)}
<1>1. \A l \in labels : outcomes(l) = {r[l]}
  OBVIOUS
<1>2. choices = {r}
  <2> HIDE DEF outcomes, labels
  <2>1. r = [l \in labels |-> r[l]]
    BY DEF labels
  <2>2. r \in choices
    <3>1. \A l \in labels : r[l] \in UNION {outcomes(m) : m \in labels}
      BY <1>1
    <3> QED
      BY <1>1, <2>1, <3>1
  <2>3. ASSUME NEW f \in choices PROVE f = r
    <3>1. \A l \in labels : f[l] = r[l]
      BY <1>1
    <3> QED
      BY <2>1, <3>1
  <2> HIDE DEF choices
  <2> QED
    BY <2>2, <2>3
<1>3. Good(r) = labels
  OBVIOUS
<1>4. DecryptAll(docs, n, bound) = UNION {A(f) : f \in choices}
  BY DEF DecryptAll
<1> HIDE DEF choices, Good, labels
<1>5. A(r) = {Analysis("kOk", [l \in labels |-> r[l].value])}
  BY <1>3
<1> HIDE DEF A
<1>6. UNION {A(f) : f \in choices} = A(r)
  BY <1>2
<1> QED
  BY <1>4, <1>5, <1>6 DEF labels

\* Where some label may fail, the analysis may.
LEMMA FailedAnalysis ==
  ASSUME NEW docs, NEW n, NEW bound,
         NEW r, r = [l \in Labels(docs) |-> r[l]],
         \A l \in Labels(docs) :
           r[l] \in decrypt(Ciphers(docs, l), FdKeys(docs), n, l, bound),
         NEW failed \in Labels(docs), r[failed].status # "kOk"
  PROVE  \E o \in DecryptAll(docs, n, bound) : o.status = "kCryptoOperationError"
<1> DEFINE labels == Labels(docs)
           outcomes(l) == decrypt(Ciphers(docs, l), FdKeys(docs), n, l, bound)
           choices == {f \in [labels -> UNION {outcomes(l) : l \in labels}] :
                         \A l \in labels : f[l] \in outcomes(l)}
           Good(f) == {l \in labels : f[l].status = "kOk"}
           Failure(f, done) ==
             Analysis("kCryptoOperationError", [l \in done |-> f[l].value])
           A(f) == IF Good(f) = labels
                     THEN {Analysis("kOk", [l \in labels |-> f[l].value])}
                     ELSE {Failure(f, done) : done \in SUBSET Good(f)}
<1>1. r \in choices
  <2> HIDE DEF outcomes
  <2>1. \A l \in labels : r[l] \in outcomes(l)
    BY DEF outcomes
  <2>2. \A l \in labels : r[l] \in UNION {outcomes(m) : m \in labels}
    BY <2>1
  <2> QED
    BY <2>1, <2>2
<1>2. Good(r) # labels /\ {} \in SUBSET Good(r)
  OBVIOUS
<1>3. DecryptAll(docs, n, bound) = UNION {A(f) : f \in choices}
  BY DEF DecryptAll
<1>4. Failure(r, {}).status = "kCryptoOperationError"
  BY DEF Analysis
<1> HIDE DEF choices, Good, labels, Failure
<1>5. Failure(r, {}) \in A(r)
  BY <1>2
<1> HIDE DEF A
<1> QED
  BY <1>1, <1>3, <1>4, <1>5

\* The conditions of CoherentBatchIsSummed, but for the bound, and what it says
\* of the bound.
Summable ==
  /\ Len(ds) > 0 /\ InIndexOrder /\ Whole /\ SameLabels
  /\ \A l \in Labels(ds) : Coherent(Everyone, l)

Within(l, bound) == SumOf(Everyone, l) <= bound /\ 2 * bound < ULongRange

CiphersIn(docs) ==
  [k \in DOMAIN docs |-> [l \in Labels(docs) |-> docs[k].encData[l][1]]]

PartsIn(docs) == [k \in DOMAIN docs |-> KeyPart(docs[k])]

\* Document k, when some label is measured.
CoherentAt(k) ==
  /\ ds[k] = AnalyticsData(k - 1, ds[k].encData, ds[k].fdKey)
  /\ ds[k].encData = [l \in Labels(ds) |-> G1(CiphersIn(ds)[k][l])]
  /\ ds[k].fdKey = Halves(PartsIn(ds)[k])
  /\ PartsIn(ds)[k].index = k - 1
  /\ DOMAIN PartsIn(ds)[k].peers = 1 .. Len(ds)
  /\ PartsIn(ds)[k].policy = Len(ds)
  /\ \A j \in 1 .. Len(ds) :
       j # k => PartsIn(ds)[k].peers[j] = PartsIn(ds)[j].key
  /\ \A l \in Labels(ds) :
       /\ CiphersIn(ds)[k][l].key = PartsIn(ds)[k].key
       /\ CiphersIn(ds)[k][l].label = l
       /\ CiphersIn(ds)[k][l].value \in Nat

LEMMA CoherentDocuments ==
  ASSUME Collected, Summable, Labels(ds) # {},
         NEW k \in 1 .. Len(ds)
  PROVE  CoherentAt(k)
<1> DEFINE N == Len(ds)
           d == ds[k]
<1>1. N \in Nat /\ DOMAIN ds = 1 .. N /\ MadeByThese(ds, N, Encryptors)
  BY Batch
<1>2. PICK e \in Encryptors : MadeBy(e, d)
  BY <1>1 DEF MadeByThese
<1>3. Complete(d) /\ Len(d.fdKey) = 2 /\ d.index = k - 1 /\ DOMAIN d.encData = Labels(ds)
  BY <1>1 DEF Summable, Whole, SameLabels, InIndexOrder
<1>4. DOMAIN Everyone = 1 .. N /\ Len(Everyone) = N
      /\ \A m \in 1 .. N : Everyone[m] = m
  BY <1>1 DEF Everyone
<1>5. ASSUME NEW l \in Labels(ds), NEW m \in 1 .. N
      PROVE  /\ Undamaged(ds[m], l)
             /\ ds[m].encData[l][1].key = KeyPart(ds[m]).key
             /\ DOMAIN KeyPart(ds[m]).peers = 1 .. N
             /\ KeyPart(ds[m]).policy = N
             /\ \A j \in 1 .. N : (j # m /\ Undamaged(ds[j], l)) =>
                  KeyPart(ds[m]).peers[j] = KeyPart(ds[j]).key
  <2>1. Coherent(Everyone, l)
    BY DEF Summable
  <2> DEFINE g == Everyone
  <2>2. DOMAIN g = 1 .. N /\ Len(g) = N /\ g[m] = m
        /\ \A j \in 1 .. N : g[j] = j
    BY <1>4
  <2> HIDE DEF g
  <2>3. /\ Undamaged(ds[g[m]], l)
        /\ ds[g[m]].encData[l][1].key = KeyPart(ds[g[m]]).key
        /\ DOMAIN KeyPart(ds[g[m]]).peers = DOMAIN g
        /\ KeyPart(ds[g[m]]).policy = Len(g)
        /\ \A j \in DOMAIN g \ {m} :
             Undamaged(ds[g[j]], l) => KeyPart(ds[g[m]]).peers[j] = KeyPart(ds[g[j]]).key
    <3>1. m \in DOMAIN g
      BY <2>2
    <3> HIDE DEF N
    <3> QED
      BY <2>1, <3>1 DEF Coherent, g
  <2> HIDE DEF N
  <2>4. \A j \in 1 .. N : (j # m /\ Undamaged(ds[j], l)) =>
          KeyPart(ds[m]).peers[j] = KeyPart(ds[j]).key
    BY <2>2, <2>3
  <2> QED
    BY <2>2, <2>3, <2>4
<1>6. /\ CiphersIn(ds)[k] = [l \in Labels(ds) |-> d.encData[l][1]]
      /\ \A m \in 1 .. N : PartsIn(ds)[m] = KeyPart(ds[m])
  BY <1>1 DEF CiphersIn, PartsIn
<1> HIDE DEF N
<1>7. /\ DOMAIN KeyPart(d).peers = 1 .. N
      /\ KeyPart(d).policy = N
      /\ \A j \in 1 .. N : j # k => KeyPart(d).peers[j] = KeyPart(ds[j]).key
  <2>1. PICK l \in Labels(ds) : TRUE
    OBVIOUS
  <2>2. k \in 1 .. N
    BY DEF N
  <2> QED
    BY <1>5, <2>1, <2>2
<1>8. Joined(d.fdKey) # Blank
  <2>1. PICK l \in Labels(ds) : TRUE
    OBVIOUS
  <2>2. Undamaged(d, l)
    BY <1>5, <2>1 DEF N
  <2> QED
    BY <2>2 DEF Undamaged
<1>9. d.fdKey = Halves(KeyPart(d)) /\ KeyPart(d).index = k - 1
  <2>1. Joined(d.fdKey) = G1(getFunctionalDecryptionKey(e))
    BY <1>2, <1>3, <1>8, JoinedPart
  <2>2. KeyPart(d) = getFunctionalDecryptionKey(e)
    BY <2>1 DEF KeyPart, G1
  <2>3. d.fdKey[1] = d.fdKey[2] /\ d.fdKey[1] = G1(KeyPart(d))
    BY <1>8, <2>1, <2>2 DEF Joined
  <2>4. d.fdKey = <<d.fdKey[1], d.fdKey[2]>>
    <3>1. d.fdKey \in Seq({Blank, G1(getFunctionalDecryptionKey(e))})
      BY <1>2, <1>3 DEF MadeBy
    <3> DEFINE S == {Blank, G1(getFunctionalDecryptionKey(e))}
               q == d.fdKey
    <3>2. q \in Seq(S) /\ Len(q) = 2
      BY <1>3, <3>1
    <3> HIDE DEF S, q
    <3>3. q = <<q[1], q[2]>>
      BY <3>2
    <3> QED
      BY <3>3 DEF q
  <2>5. e.index = k - 1
    BY <1>2, <1>3 DEF MadeBy
  <2> QED
    BY <2>2, <2>3, <2>4, <2>5 DEF Halves, getFunctionalDecryptionKey
<1>10. ASSUME NEW l \in Labels(ds)
       PROVE  /\ d.encData[l] = G1(d.encData[l][1])
              /\ d.encData[l][1].key = KeyPart(d).key
              /\ d.encData[l][1].label = l
              /\ d.encData[l][1].value \in Nat
  <2>1. Undamaged(d, l) /\ d.encData[l][1].key = KeyPart(d).key
    BY <1>5 DEF N
  <2>2. d.encData[l][1].value \in Nat
        /\ d.encData[l] = G1(encrypt(e, l, d.encData[l][1].value))
    BY <1>2, <1>3, <2>1 DEF MadeBy, Undamaged
  <2> QED
    BY <2>1, <2>2 DEF G1, encrypt
<1>11. d = AnalyticsData(k - 1, d.encData, d.fdKey)
       /\ d.encData = [l \in Labels(ds) |-> d.encData[l]]
  <2>1. d = AnalyticsData(d.index, [l \in DOMAIN d.encData |-> d.encData[l]], d.fdKey)
    BY <1>2, <1>3 DEF MadeBy
  <2> HIDE DEF d
  <2>2. d.encData = [l \in DOMAIN d.encData |-> d.encData[l]]
    BY <2>1 DEF AnalyticsData
  <2> QED
    BY <1>3, <2>1, <2>2
<1>12. d.encData = [l \in Labels(ds) |-> G1(CiphersIn(ds)[k][l])]
  <2>1. \A l \in Labels(ds) : d.encData[l] = G1(CiphersIn(ds)[k][l])
    BY <1>6, <1>10
  <2> HIDE DEF d
  <2> QED
    BY <1>11, <2>1
<1>13. PartsIn(ds)[k] = KeyPart(d)
  BY <1>6 DEF N
<1>14. \A l \in Labels(ds) : CiphersIn(ds)[k][l] = d.encData[l][1]
  BY <1>6
<1> QED
  BY <1>6, <1>7, <1>9, <1>10, <1>11, <1>12, <1>13, <1>14 DEF CoherentAt, N

\* What CiFEr finds for each label.
SumsFound == [l \in Labels(ds) |-> Found(SumOf(Everyone, l))]

LEMMA OrderlyWhenCoherent ==
  ASSUME Collected, Summable, Labels(ds) # {}
  PROVE  /\ Orderly(ds, Len(ds), Labels(ds), CiphersIn(ds), PartsIn(ds))
         /\ Mutually(PartsIn(ds), Len(ds))
<1> DEFINE N == Len(ds)
<1>1. DOMAIN ds = 1 .. N /\ ds = [k \in 1 .. N |-> ds[k]]
  BY Batch DEF IsBatch
<1>2. PartsIn(ds) = [k \in 1 .. N |-> PartsIn(ds)[k]]
  BY <1>1 DEF PartsIn
<1>3. \A k \in 1 .. N : CoherentAt(k)
  BY CoherentDocuments
<1>4. \A k \in 1 .. N : Complete(ds[k])
  BY <1>1 DEF Summable, Whole
<1>5. Mutually(PartsIn(ds), N)
  BY <1>2, <1>3 DEF CoherentAt, Mutually
<1>6. ASSUME NEW k \in 1 .. N
      PROVE  /\ ds[k] = AnalyticsData(ds[k].index, ds[k].encData, ds[k].fdKey)
             /\ ds[k].index = k - 1
             /\ ds[k].encData = [l \in Labels(ds) |-> G1(CiphersIn(ds)[k][l])]
             /\ ds[k].fdKey = Halves(PartsIn(ds)[k])
  <2>1. /\ ds[k] = AnalyticsData(k - 1, ds[k].encData, ds[k].fdKey)
        /\ ds[k].encData = [l \in Labels(ds) |-> G1(CiphersIn(ds)[k][l])]
        /\ ds[k].fdKey = Halves(PartsIn(ds)[k])
    BY <1>3 DEF CoherentAt
  <2>2. ds[k].index = k - 1
    BY ONLY <2>1 DEF AnalyticsData
  <2> HIDE DEF N
  <2> QED
    BY <2>1, <2>2
<1> QED
  BY <1>1, <1>2, <1>4, <1>5, <1>6 DEF Orderly

\* The masks cancel and the secrets match.
LEMMA LabelDecrypted ==
  ASSUME Collected, NEW bound, Summable, NEW l \in Labels(ds)
  PROVE  /\ decrypt(Ciphers(ds, l), FdKeys(ds), Len(ds), l, bound)
              = {Found(SumOf(Everyone, l))}
                  \cup {o \in {NotFound} : SumOf(Everyone, l) > AsLong(bound)}
         /\ SumOf(Everyone, l) \in Nat
<1> DEFINE N == Len(ds)
           part == PartsIn(ds)
           c == Column(CiphersIn(ds), N, l)
           sum == MapThenSumSet(LAMBDA m : c[m].value, DOMAIN c)
<1>1. N \in Nat /\ N > 0
  BY Batch DEF Summable
<1>2. Orderly(ds, N, Labels(ds), CiphersIn(ds), part) /\ Mutually(part, N)
  BY OrderlyWhenCoherent
<1>3. \A k \in 1 .. N : CoherentAt(k)
  BY CoherentDocuments
<1>4. decrypt(Ciphers(ds, l), FdKeys(ds), N, l, bound)
        = cfe_dmcfe_decrypt(c, part, N, l, AsLong(bound))
  <2> HIDE DEF N, part
  <2> QED
    BY <1>1, <1>2, OrderlyDecryption
<1>5. /\ DOMAIN c = 1 .. N /\ \A m \in 1 .. N : c[m] = CiphersIn(ds)[m][l]
      /\ DOMAIN part = 1 .. N
  <2> HIDE DEF N, part
  <2> QED
    BY <1>2 DEF Column, Mutually
<1>6. \A m \in DOMAIN part : part[m].peers # NoPeers
  <2>1. \A m \in DOMAIN part : DOMAIN part[m].peers = 1 .. N
    BY <1>2, <1>5 DEF Mutually
  <2>2. 1 \in 1 .. N
    BY <1>1
  <2>3. DOMAIN NoPeers = {}
    BY DEF NoPeers
  <2> HIDE DEF N, part
  <2> QED
    BY <2>1, <2>2, <2>3
<1>7. MasksCancel(part)
  <2> HIDE DEF N, part
  <2> QED
    BY <1>1, <1>2, MutualMasksCancel
<1>8. ASSUME NEW m \in 1 .. N
      PROVE  /\ c[m].key = part[m].key /\ c[m].label = l /\ c[m].value \in Nat
             /\ part[m].policy = N
             /\ c[m].value = ds[Everyone[m]].encData[l][1].value
  <2>1. CoherentAt(m)
    BY <1>3
  <2>2. Everyone[m] = m /\ DOMAIN ds = 1 .. N
    BY Batch DEF Everyone
  <2>3. CiphersIn(ds)[m][l] = ds[m].encData[l][1]
    BY <2>2 DEF CiphersIn
  <2> HIDE DEF c, N
  <2> QED
    BY <1>5, <2>1, <2>2, <2>3 DEF CoherentAt, N
<1>9. SecretsMatch(c, part, N, l)
  <2> HIDE DEF c, N, part
  <2>1. [m \in DOMAIN c |-> c[m].key] = [m \in DOMAIN part |-> part[m].key]
    BY <1>5, <1>8
  <2> QED
    BY <1>5, <1>8, <2>1 DEF SecretsMatch
<1>10. sum = SumOf(Everyone, l)
  <2>1. DOMAIN Everyone = 1 .. N
    BY Batch DEF Everyone
  <2> HIDE DEF c, N
  <2>2. sum = SumOver(ds, Everyone, l)
    <3> DEFINE g == Everyone
    <3>1. DOMAIN c = DOMAIN g
      BY <1>5, <2>1
    <3>2. \A m \in DOMAIN g : c[m].value = ds[g[m]].encData[l][1].value
      BY <1>8, <2>1
    <3> HIDE DEF g
    <3>3. MapThenSumSet(LAMBDA m : c[m].value, DOMAIN c) = SumOver(ds, g, l)
      BY ONLY <3>1, <3>2, SameSum
    <3> QED
      BY <3>3 DEF g
  <2> HIDE DEF sum
  <2> QED
    BY <2>2 DEF SumOver, SumOf
<1>11. sum \in Nat
  <2>1. IsFiniteSet(1 .. N)
    BY <1>1, FS_Interval
  <2> HIDE DEF c, N
  <2> QED
    BY <1>5, <1>8, <2>1, NaturalSum
<1>12. cfe_dmcfe_decrypt(c, part, N, l, AsLong(bound))
         = {Found(sum)} \cup {o \in {NotFound} : sum > AsLong(bound)}
  <2> HIDE DEF c, N, part
  <2> QED
    BY <1>6, <1>7, <1>9 DEF cfe_dmcfe_decrypt
<1> HIDE DEF sum, c
<1> QED
  BY <1>4, <1>10, <1>11, <1>12

\* A sum within the bound is found, any other may be found or not.
LEMMA LabelFound ==
  ASSUME Collected, NEW bound \in Nat, bound < ULongRange, Summable,
         NEW l \in Labels(ds)
  PROVE  LET outcomes == decrypt(Ciphers(ds, l), FdKeys(ds), Len(ds), l, bound)
         IN  /\ Found(SumOf(Everyone, l)) \in outcomes
             /\ Within(l, bound) => outcomes = {Found(SumOf(Everyone, l))}
             /\ ~Within(l, bound) => NotFound \in outcomes
             /\ SumOf(Everyone, l) \in Nat
<1> DEFINE sum == SumOf(Everyone, l)
<1>1. sum \in Nat
  BY LabelDecrypted
<1> HIDE DEF sum
<1>2. ULongRange \in Nat \ {0} /\ bound % ULongRange = bound
  BY ULongAssumption DEF ULongAssumption
<1>3. CASE 2 * bound < ULongRange
  <2>1. AsLong(bound) = bound
    BY <1>2, <1>3 DEF AsLong
  <2> QED
    BY <1>1, <1>3, <2>1, LabelDecrypted DEF Within, sum
<1>4. CASE ~(2 * bound < ULongRange)
  <2>1. AsLong(bound) = bound - ULongRange
    BY <1>2, <1>4 DEF AsLong
  <2>2. sum > AsLong(bound)
    BY <1>1, <1>2, <2>1
  <2> QED
    BY <1>1, <1>4, <2>2, LabelDecrypted DEF Within, sum
<1> QED
  BY <1>3, <1>4

(***************************************************************************)
(* The documents of clients who knew each other's keys, in index order and *)
(* with the same labels, are summed: no mask is left over, no cipher or    *)
(* key is lost in the vectors built by insertion.  The sums are found for  *)
(* certain when they are within a bound that stays positive, and only then *)
(* (getInnerProductAnalysis, core.cpp; decrypt, dmcfe_decryptor.cpp).      *)
(***************************************************************************)
THEOREM CoherentSummed == Spec => []CoherentBatchIsSummed
<1>1. Collected => CoherentBatchIsSummed
  <2> SUFFICES ASSUME Collected, NEW bound \in Bounds, Summable, bound < ULongRange
               PROVE  getInnerProductAnalysis(ds, Len(ds), bound)
                        = {Analysis("kOk", [l \in Labels(ds) |-> SumOf(Everyone, l)])}
                      <=> \A l \in Labels(ds) : Within(l, bound)
    BY DEF CoherentBatchIsSummed, Summable, Within
  <2> DEFINE N == Len(ds)
             labels == Labels(ds)
  <2>1. /\ N \in Nat /\ DOMAIN ds = 1 .. N
        /\ IsBatch(ds, N) /\ MadeByThese(ds, N, Encryptors)
        /\ N > 0 /\ bound \in Nat
    BY Batch, BatchesAssumption DEF Summable, BatchesAssumption
  <2>2. TakenIn(ds, N)
    BY OrderTakenIn DEF Summable
  <2> DEFINE maker == [k \in 1 .. N |->
                         CHOOSE e \in Encryptors : MadeBy(e, ds[k])]
  <2>3. MadeIn(ds, N, maker)
    <3>1. \A k \in 1 .. N : MadeBy(maker[k], ds[k])
      BY <2>1 DEF MadeByThese
    <3> HIDE DEF maker, N
    <3> QED
      BY <3>1 DEF MadeIn
  <2> HIDE DEF maker
  <2>4. Gathering(ds) = "kOk"
    BY <2>1, <2>2, TakenInGathers
  <2>5. ds \in Decodings(ds)
    BY <2>1, <2>2, <2>3, DecodedAsItWas DEF TakenIn
  <2>6. ASSUME NEW s \in Decodings(ds) PROVE s = ds
    <3>1. CASE labels # {}
      BY <2>1, <2>6, <3>1, OrderlyWhenCoherent, OrderlyDecodings
    <3>2. CASE labels = {}
      <4>1. DecodedList(s, ds, N, maker)
        BY <2>1, <2>2, <2>3, <2>6, DecodedDocuments
      <4>2. ASSUME NEW k \in 1 .. N PROVE s[k] = ds[k]
        <5>1. s[k] \in Decoded(ds[k])
          BY <2>1, <2>6 DEF Decodings
        <5>2. PICK f : DOMAIN f = DOMAIN ds[k].encData
                       /\ s[k] = [ds[k] EXCEPT !.encData = f]
                       /\ f = [l \in DOMAIN ds[k].encData |-> f[l]]
          BY <5>1 DEF Decoded
        <5>3. DOMAIN ds[k].encData = {}
          BY <2>1, <3>2 DEF Summable, SameLabels
        <5>4. ds[k] = AnalyticsData(ds[k].index,
                         [l \in DOMAIN ds[k].encData |-> ds[k].encData[l]], ds[k].fdKey)
          BY <2>2, <2>3 DEF MadeIn, MadeBy, TakenIn
        <5>5. f = ds[k].encData
          <6>1. ds[k].encData = [l \in DOMAIN ds[k].encData |-> ds[k].encData[l]]
            BY <5>4 DEF AnalyticsData
          <6> QED
            BY <5>2, <5>3, <6>1
        <5> QED
          BY <5>2, <5>4, <5>5 DEF AnalyticsData
      <4> HIDE DEF N
      <4> QED
        BY <2>1, <4>1, <4>2 DEF DecodedList, IsBatch
    <3> QED
      BY <3>1, <3>2
  <2>7. ASSUME \A l \in labels : Within(l, bound)
        PROVE  DecryptAll(ds, N, bound)
                 = {Analysis("kOk", [l \in labels |-> SumOf(Everyone, l)])}
    <3> DEFINE r == SumsFound
    <3>1. r = [l \in labels |-> r[l]] /\ \A l \in labels : r[l] = Found(SumOf(Everyone, l))
      BY DEF SumsFound
    <3>2. ASSUME NEW l \in labels
          PROVE  /\ decrypt(Ciphers(ds, l), FdKeys(ds), N, l, bound) = {r[l]}
                 /\ r[l].status = "kOk" /\ r[l].value = SumOf(Everyone, l)
      <4>1. /\ decrypt(Ciphers(ds, l), FdKeys(ds), N, l, bound)
                 = {Found(SumOf(Everyone, l))}
            /\ SumOf(Everyone, l) \in Nat
        BY <2>1, <2>7, LabelFound
      <4>2. SumOf(Everyone, l) % ULongRange = SumOf(Everyone, l)
        <5>1. SumOf(Everyone, l) <= bound
          BY <2>7 DEF Within
        <5> QED
          BY <2>1, <4>1, <5>1, ULongAssumption DEF ULongAssumption
      <4> HIDE DEF r
      <4> QED
        BY <3>1, <4>1, <4>2 DEF Found
    <3> HIDE DEF r
    <3>3. DecryptAll(ds, N, bound) = {Analysis("kOk", [l \in labels |-> r[l].value])}
      BY <3>1, <3>2, OneAnalysis
    <3>4. [l \in labels |-> r[l].value] = [l \in labels |-> SumOf(Everyone, l)]
      BY <3>2
    <3> QED
      BY <3>3, <3>4
  <2>8. ASSUME NEW failed \in labels, ~Within(failed, bound)
        PROVE  \E o \in DecryptAll(ds, N, bound) : o.status = "kCryptoOperationError"
    <3> DEFINE r == [l \in labels |-> IF l = failed THEN NotFound
                                                    ELSE Found(SumOf(Everyone, l))]
    <3>1. \A l \in labels : r[l] \in decrypt(Ciphers(ds, l), FdKeys(ds), N, l, bound)
      BY <2>1, <2>8, LabelFound
    <3>2. r[failed].status # "kOk"
      BY DEF NotFound
    <3>3. r = [l \in labels |-> r[l]]
      OBVIOUS
    <3> HIDE DEF r
    <3> QED
      BY <3>1, <3>2, <3>3, FailedAnalysis
  <2>9. getInnerProductAnalysis(ds, N, bound)
          = UNION {DecryptAll(s, N, bound) : s \in Decodings(ds)}
    <3>1. Len(ds) # 0
      BY <2>1
    <3> QED
      BY <2>4, <3>1 DEF getInnerProductAnalysis
  <2>10. Decodings(ds) = {ds}
    BY <2>5, <2>6
  <2>11. getInnerProductAnalysis(ds, N, bound) = DecryptAll(ds, N, bound)
    BY <2>9, <2>10
  <2>12. ASSUME NEW r PROVE Analysis("kOk", r).status # "kCryptoOperationError"
    BY DEF Analysis
  <2> QED
    BY <2>7, <2>8, <2>11, <2>12
<1> QED
  BY <1>1, OnlyCollected, PTL
================================================================================
