--------------------------- MODULE CoreSessionProofs ---------------------------
(***************************************************************************)
(* What the SDK guarantees to an application, for any number of Core       *)
(* objects, key pairs, lists and documents.                                *)
(*                                                                         *)
(* IInv ties everything that the application can get out of its objects to *)
(* the encryptors: a key is of one index for ever, a share was computed    *)
(* from keys that were published, none of them before its place, and a     *)
(* document was made by one encryptor, which may be gone or have another   *)
(* share since.                                                            *)
(***************************************************************************)
EXTENDS CoreSessionProperties, GroupProofs

----------------------------------------------------------------------------
(***************************************************************************)
(* The inductive invariant, by its parts: of the objects cs, the           *)
(* encryptors es, the public data ps and the documents rs.                 *)
(***************************************************************************)
ObjectsOK(cs, es) ==
  /\ DOMAIN cs \subseteq Handle
  /\ \A h \in DOMAIN cs :
       /\ cs[h] = [encryptor |-> cs[h].encryptor, data |-> cs[h].data]
       /\ cs[h].encryptor \in DOMAIN es \cup {nullptr}
       /\ \A l \in DOMAIN cs[h].data : cs[h].data[l] \in Nat

\* An encryptor whose share, if it has one, is from public data in ps.
SharedFrom(e, ps) ==
  /\ e \in Encryptor(Key)
  /\ e.peers # NoPeers =>
       /\ DOMAIN e.peers = 1 .. e.length
       /\ \A j \in DOMAIN e.peers :
            \E c \in ps : c.pubKey = e.peers[j] /\ c.index < j

EncryptorsOK(es, ps) ==
  /\ es = [key \in DOMAIN es |-> es[key]] /\ DOMAIN es \subseteq Key
  /\ \A key \in DOMAIN es : es[key].key = key /\ SharedFrom(es[key], ps)

PublishedOK(ps) == \A c \in ps : c.index \in Nat /\ c.pubKey \in Key

\* The encryptor of a document, as it was.
Maker(d) ==
  [key |-> Part(d).key, index |-> Part(d).index,
   length |-> Part(d).policy, peers |-> Part(d).peers]

MadeWhole(d) ==
  /\ d = AnalyticsData(Maker(d).index, [l \in DOMAIN d.encData |-> d.encData[l]],
                       Halves(getFunctionalDecryptionKey(Maker(d))))
  /\ \A l \in DOMAIN d.encData : \E value \in Nat :
       d.encData[l] = G1(encrypt(Maker(d), l, value))

ReleasedOK(rs, ps) == \A d \in rs : SharedFrom(Maker(d), ps) /\ MadeWhole(d)

\* Every key in sight, with the index of its owner.
Owners(es, ps, rs) ==
  {PublicData(c.index, c.pubKey) : c \in ps}
  \cup {PublicData(es[key].index, es[key].key) : key \in DOMAIN es}
  \cup {PublicData(Maker(d).index, Maker(d).key) : d \in rs}

Identify(owners) ==
  \A c, d \in owners : c.pubKey = d.pubKey => c.index = d.index

IInv ==
  /\ ObjectsOK(cores, encryptors)
  /\ EncryptorsOK(encryptors, published)
  /\ PublishedOK(published)
  /\ ReleasedOK(released, published)
  /\ Identify(Owners(encryptors, published, released))

----------------------------------------------------------------------------
LEMMA TypeFollows == IInv => TypeOK
<1> SUFFICES ASSUME IInv PROVE TypeOK
  OBVIOUS
<1>1. /\ Live \subseteq Handle
      /\ \A h \in Live : cores[h].encryptor \in DOMAIN encryptors \cup {nullptr}
  BY DEF IInv, ObjectsOK, Live
<1>2. /\ DOMAIN encryptors \subseteq Key
      /\ \A key \in DOMAIN encryptors :
           encryptors[key] \in Encryptor(Key) /\ encryptors[key].key = key
  BY DEF IInv, EncryptorsOK, SharedFrom
<1>3. \A c \in published : c.index \in Nat /\ c.pubKey \in Key
  BY DEF IInv, PublishedOK
<1> QED
  BY <1>1, <1>2, <1>3 DEF TypeOK

\* More public data do no harm to what a share was computed from.
LEMMA MorePublished ==
  ASSUME NEW ps, NEW qs, ps \subseteq qs
  PROVE  /\ \A e : SharedFrom(e, ps) => SharedFrom(e, qs)
         /\ \A es : EncryptorsOK(es, ps) => EncryptorsOK(es, qs)
         /\ \A rs : ReleasedOK(rs, ps) => ReleasedOK(rs, qs)
<1>1. ASSUME NEW e, SharedFrom(e, ps) PROVE SharedFrom(e, qs)
  BY <1>1 DEF SharedFrom
<1> QED
  BY <1>1 DEF EncryptorsOK, ReleasedOK

\* What nobody points to may go.
LEMMA Forgotten ==
  ASSUME NEW cs, NEW es, NEW ps, NEW rs,
         ObjectsOK(cs, es), EncryptorsOK(es, ps), Identify(Owners(es, ps, rs)),
         NEW fs,
         fs = Restrict(es, {cs[h].encryptor : h \in DOMAIN cs} \cap DOMAIN es)
  PROVE  /\ ObjectsOK(cs, fs) /\ EncryptorsOK(fs, ps)
         /\ Identify(Owners(fs, ps, rs))
<1>1. /\ DOMAIN fs = {cs[h].encryptor : h \in DOMAIN cs} \cap DOMAIN es
      /\ \A key \in DOMAIN fs : key \in DOMAIN es /\ fs[key] = es[key]
  BY DEF Restrict
<1>2. ObjectsOK(cs, fs)
  BY <1>1 DEF ObjectsOK
<1>3. EncryptorsOK(fs, ps)
  BY <1>1 DEF EncryptorsOK, Restrict
<1>4. Owners(fs, ps, rs) \subseteq Owners(es, ps, rs)
  BY <1>1 DEF Owners
<1> QED
  BY <1>2, <1>3, <1>4 DEF Identify

\* The steps that set objects and memory and release nothing.
LEMMA MemoryKeepsInv ==
  ASSUME NEW objects, NEW allocated, Memory(objects, allocated),
         UNCHANGED <<published, released>>,
         ObjectsOK(objects, allocated), EncryptorsOK(allocated, published),
         PublishedOK(published), ReleasedOK(released, published),
         Identify(Owners(allocated, published, released))
  PROVE  IInv'
<1>1. /\ cores' = objects
      /\ encryptors' = Restrict(allocated, {objects[h].encryptor : h \in DOMAIN objects}
                                             \cap DOMAIN allocated)
  BY DEF Memory
<1>2. /\ ObjectsOK(cores', encryptors') /\ EncryptorsOK(encryptors', published)
      /\ Identify(Owners(encryptors', published, released))
  BY <1>1, Forgotten
<1> QED
  BY <1>2 DEF IInv

\* The members of an object, its encryptor looked up.
LEMMA ObjectMembers ==
  ASSUME IInv, NEW h \in Live
  PROVE  /\ Object(h).data = cores[h].data
         /\ Object(h) = [encryptor |-> Object(h).encryptor, data |-> cores[h].data]
         /\ ~Uninitialized(Object(h)) =>
              /\ cores[h].encryptor \in DOMAIN encryptors
              /\ Object(h).encryptor = encryptors[cores[h].encryptor]
<1>1. /\ cores[h] = [encryptor |-> cores[h].encryptor, data |-> cores[h].data]
      /\ cores[h].encryptor \in DOMAIN encryptors \cup {nullptr}
  BY DEF IInv, ObjectsOK, Live
<1> DEFINE p == cores[h].encryptor
           x == cores[h].data
<1>2. Object(h) = [encryptor |-> IF p = nullptr THEN nullptr ELSE encryptors[p],
                   data |-> x]
  <2>1. Object(h) = [cores[h] EXCEPT
                       !.encryptor = IF @ = nullptr THEN nullptr ELSE encryptors[@]]
    BY DEF Object
  <2>2. cores[h] = [encryptor |-> p, data |-> x]
    BY <1>1
  <2> HIDE DEF p, x
  <2>3. Object(h) = [[encryptor |-> p, data |-> x] EXCEPT
                       !.encryptor = IF @ = nullptr THEN nullptr ELSE encryptors[@]]
    BY <2>1, <2>2
  <2> QED
    BY <2>3
<1>3. p \in DOMAIN encryptors \cup {nullptr}
  BY <1>1
<1> HIDE DEF p
<1> QED
  BY <1>2, <1>3 DEF Uninitialized, p

LEMMA ConstructKeepsInv == ASSUME IInv, NEW h \in Handle, Construct(h) PROVE IInv'
<1>1. /\ cores' = Assigned(cores, h, NewCore)
      /\ UNCHANGED <<encryptors, published, released>>
  BY DEF Construct
<1>2. ObjectsOK(cores', encryptors)
  BY <1>1 DEF IInv, ObjectsOK, Assigned, NewCore
<1> QED
  BY <1>1, <1>2 DEF IInv

LEMMA CopyKeepsInv ==
  ASSUME IInv, NEW h \in Handle, NEW from \in Handle, Copy(h, from) PROVE IInv'
<1> DEFINE objects == Assigned(cores, h, cores[from])
<1>1. /\ Memory(objects, encryptors) /\ UNCHANGED <<published, released>>
      /\ from \in DOMAIN cores
  BY DEF Copy, Live
<1>2. ObjectsOK(objects, encryptors)
  BY <1>1 DEF IInv, ObjectsOK, Assigned
<1> HIDE DEF objects
<1> QED
  BY <1>1, <1>2, MemoryKeepsInv DEF IInv

LEMMA DestroyKeepsInv == ASSUME IInv, NEW h \in Handle, Destroy(h) PROVE IInv'
<1> DEFINE objects == Restrict(cores, Live \ {h})
           kept == Restrict(encryptors, DOMAIN encryptors \ Freed(cores[h]))
<1>1. Memory(objects, kept) /\ UNCHANGED <<published, released>>
  BY DEF Destroy
<1>2. kept = encryptors
  <2>1. encryptors = [key \in DOMAIN encryptors |-> encryptors[key]]
    BY DEF IInv, EncryptorsOK
  <2> QED
    BY <2>1 DEF Restrict, Freed
<1>3. ObjectsOK(objects, encryptors)
  BY DEF IInv, ObjectsOK, Restrict, Live
<1> HIDE DEF objects, kept
<1> QED
  BY <1>1, <1>2, <1>3, MemoryKeepsInv DEF IInv

\* A new key identifies its owner: nobody has it yet.
LEMMA FreshIdentifies ==
  ASSUME IInv, NEW key \in Fresh, NEW e, e.key = key, NEW index, e.index = index
  PROVE  Identify(Owners(Assigned(encryptors, key, e), published, released))
<1> DEFINE allocated == Assigned(encryptors, key, e)
           owners == Owners(encryptors, published, released)
<1>1. Owners(allocated, published, released) \subseteq owners \cup {PublicData(index, key)}
  <2>1. ASSUME NEW k \in DOMAIN allocated
        PROVE  \/ k \in DOMAIN encryptors /\ allocated[k] = encryptors[k]
               \/ allocated[k] = e
    BY DEF Assigned
  <2> HIDE DEF allocated
  <2> QED
    BY <2>1 DEF Owners
<1>2. ASSUME NEW c \in owners PROVE c.pubKey # key
  <2>1. ASSUME NEW i, NEW k PROVE PublicData(i, k).pubKey = k
    BY DEF PublicData
  <2>2. CASE \E d \in published : c = PublicData(d.index, d.pubKey)
    BY <2>1, <2>2 DEF Fresh
  <2>3. CASE \E k \in DOMAIN encryptors :
               c = PublicData(encryptors[k].index, encryptors[k].key)
    BY <2>1, <2>3 DEF Fresh, IInv, EncryptorsOK
  <2>4. CASE \E d \in released : c = PublicData(Maker(d).index, Maker(d).key)
    BY <2>1, <2>4 DEF Fresh, Maker, Part
  <2> QED
    BY <2>2, <2>3, <2>4 DEF Owners
<1>3. Identify(owners)
  BY DEF IInv
<1> HIDE DEF allocated, owners
<1>4. PublicData(index, key).pubKey = key
  BY DEF PublicData
<1>5. Identify(owners \cup {PublicData(index, key)})
  BY <1>2, <1>3, <1>4 DEF Identify
<1> QED
  BY <1>1, <1>5 DEF Identify, allocated

LEMMA InitializeKeepsInv ==
  ASSUME IInv, NEW h \in Handle, NEW params \in Params, Initialize(h, params)
  PROVE  IInv'
<1>1. PICK key \in Fresh :
        Memory([cores EXCEPT ![h].encryptor = key],
               Assigned(encryptors, key,
                        initializeAnalyticsScheme(Object(h), params, key).encryptor))
  BY DEF Initialize
<1> DEFINE e == DMCFEncryptor(key, params.index, params.participantsCount)
           objects == [cores EXCEPT ![h].encryptor = key]
           allocated == Assigned(encryptors, key, e)
<1>2. h \in Live /\ UNCHANGED <<published, released>>
  BY DEF Initialize
<1>3. initializeAnalyticsScheme(Object(h), params, key).encryptor = e
  <2>1. Object(h) = [encryptor |-> Object(h).encryptor, data |-> cores[h].data]
    BY <1>2, ObjectMembers
  <2> HIDE DEF e
  <2> QED
    BY <2>1 DEF initializeAnalyticsScheme, e
<1>4. Memory(objects, allocated)
  BY <1>1, <1>3
<1>5. key \in Key /\ key \notin DOMAIN encryptors
  BY DEF Fresh
<1>6. SharedFrom(e, published) /\ e.key = key /\ e.index = params.index
  <2>1. params.index \in Nat /\ params.participantsCount \in Nat
    BY SessionAssumption DEF SessionAssumption
  <2>2. NoPeers \in Seq(Key)
    BY DEF NoPeers
  <2> QED
    BY <1>5, <2>1, <2>2 DEF SharedFrom, Encryptor, DMCFEncryptor
<1> HIDE DEF e
<1>7. EncryptorsOK(allocated, published)
  BY <1>5, <1>6 DEF IInv, EncryptorsOK, Assigned
<1>8. Identify(Owners(allocated, published, released))
  BY <1>6, FreshIdentifies
<1>9. ObjectsOK(objects, allocated)
  <2>1. DOMAIN objects = DOMAIN cores /\ DOMAIN allocated = DOMAIN encryptors \cup {key}
    BY DEF Assigned
  <2>2. ASSUME NEW g \in DOMAIN cores
        PROVE  /\ objects[g] = [encryptor |-> objects[g].encryptor,
                                data |-> objects[g].data]
               /\ objects[g].data = cores[g].data
               /\ objects[g].encryptor \in DOMAIN encryptors \cup {nullptr, key}
    <3>1. /\ cores[g] = [encryptor |-> cores[g].encryptor, data |-> cores[g].data]
          /\ cores[g].encryptor \in DOMAIN encryptors \cup {nullptr}
      BY DEF IInv, ObjectsOK
    <3>2. CASE g # h
      BY <3>1, <3>2
    <3>3. CASE g = h
      <4>1. objects[g] = [cores[g] EXCEPT !.encryptor = key]
        BY <3>3
      <4> HIDE DEF objects
      <4>2. objects[g] = [encryptor |-> key, data |-> cores[g].data]
        BY <3>1, <4>1
      <4> QED
        BY <4>2
    <3> QED
      BY <3>2, <3>3
  <2> HIDE DEF objects, allocated
  <2> QED
    BY <2>1, <2>2 DEF IInv, ObjectsOK
<1> HIDE DEF objects, allocated
<1> QED
  BY <1>2, <1>4, <1>7, <1>8, <1>9, MemoryKeepsInv DEF IInv

LEMMA PublishKeepsInv == ASSUME IInv, NEW h \in Handle, Publish(h) PROVE IInv'
<1> DEFINE p == cores[h].encryptor
           c == PublicData(encryptors[p].index, encryptors[p].key)
<1>1. /\ h \in Live /\ ~Uninitialized(Object(h))
      /\ published' = published \cup {getPublicData(Object(h))}
      /\ UNCHANGED <<cores, encryptors, released>>
  BY DEF Publish
<1>2. p \in DOMAIN encryptors /\ getPublicData(Object(h)) = c
  BY <1>1, ObjectMembers DEF getPublicData
<1>3. /\ c.index \in Nat /\ c.pubKey \in Key
      /\ PublicData(c.index, c.pubKey) = c
      /\ c \in Owners(encryptors, published, released)
  <2>1. encryptors[p] \in Encryptor(Key)
    BY <1>2 DEF IInv, EncryptorsOK, SharedFrom
  <2>2. c.index = encryptors[p].index /\ c.pubKey = encryptors[p].key
    BY DEF PublicData
  <2>3. PublicData(c.index, c.pubKey) = c
    BY <2>2
  <2> QED
    BY <1>2, <2>1, <2>2, <2>3 DEF Encryptor, Owners
<1> HIDE DEF c
<1>4. Owners(encryptors, published', released) = Owners(encryptors, published, released)
  BY <1>1, <1>2, <1>3 DEF Owners
<1>5. PublishedOK(published')
  BY <1>1, <1>2, <1>3 DEF IInv, PublishedOK
<1>6. EncryptorsOK(encryptors, published') /\ ReleasedOK(released, published')
  BY <1>1, MorePublished DEF IInv
<1> QED
  BY <1>1, <1>4, <1>5, <1>6 DEF IInv

LEMMA SetClearKeepsInv ==
  ASSUME IInv, NEW h \in Handle, NEW label, NEW value \in Value,
         SetClear(h, label, value)
  PROVE  IInv'
<1> DEFINE data == Assigned(cores[h].data, label, value)
<1>1. h \in Live /\ UNCHANGED <<encryptors, published, released>>
  BY DEF SetClear
<1>2. cores' = [cores EXCEPT ![h].data = data]
  <2>1. Object(h) = [encryptor |-> Object(h).encryptor, data |-> cores[h].data]
    BY <1>1, ObjectMembers
  <2>2. setClearAnalyticsData(Object(h), label, value).data = data
    BY <2>1 DEF setClearAnalyticsData
  <2> QED
    BY <2>2 DEF SetClear
<1>3. ASSUME NEW l \in DOMAIN data PROVE data[l] \in Nat
  <2>1. value \in Nat
    BY SessionAssumption DEF SessionAssumption
  <2>2. \A m \in DOMAIN cores[h].data : cores[h].data[m] \in Nat
    BY <1>1 DEF IInv, ObjectsOK, Live
  <2> QED
    BY <2>1, <2>2 DEF Assigned
<1> HIDE DEF data
<1>4. ObjectsOK(cores', encryptors)
  <2>1. DOMAIN cores' = DOMAIN cores
    BY <1>2
  <2>2. ASSUME NEW g \in DOMAIN cores
        PROVE  /\ cores'[g] = [encryptor |-> cores'[g].encryptor,
                               data |-> cores'[g].data]
               /\ cores'[g].encryptor = cores[g].encryptor
               /\ cores'[g].data = IF g = h THEN data ELSE cores[g].data
    <3>1. cores[g] = [encryptor |-> cores[g].encryptor, data |-> cores[g].data]
      BY DEF IInv, ObjectsOK
    <3>2. CASE g # h
      <4>1. cores'[g] = cores[g]
        BY <1>2, <3>2
      <4> QED
        BY <3>1, <3>2, <4>1
    <3>3. CASE g = h
      <4>1. cores'[g] = [cores[g] EXCEPT !.data = data]
        BY <1>2, <3>3
      <4>2. cores'[g] = [encryptor |-> cores[g].encryptor, data |-> data]
        BY <3>1, <4>1
      <4> QED
        BY <3>3, <4>2
    <3> QED
      BY <3>2, <3>3
  <2> QED
    BY <1>3, <2>1, <2>2 DEF IInv, ObjectsOK
<1> QED
  BY <1>1, <1>4 DEF IInv

----------------------------------------------------------------------------
(***************************************************************************)
(* The loop of provideParticipantsPublicData.                              *)
(***************************************************************************)
\* The keys of an accepted list stand in the vector, none before its index.
LEMMA KeysListed ==
  ASSUME NEW n \in Nat, NEW list \in [1 .. n -> published],
         PublishedOK(published), NEW core, core.encryptor.length \in Nat,
         ProvideStatus(core, list) = "kOk"
  PROVE  /\ ~Uninitialized(core) /\ n = core.encryptor.length
         /\ PubKeyList(list) \in Seq(Key) /\ DOMAIN PubKeyList(list) = 1 .. n
         /\ \A j \in 1 .. n :
              \E c \in published : c.pubKey = PubKeyList(list)[j] /\ c.index < j
<1> DEFINE stops == {k \in DOMAIN list :
                       OutOfRange(list, core.encryptor.length, k) \/ BeyondEnd(list, k)}
           S == 1 .. n
           e == [k \in DOMAIN list |-> [index |-> list[k].index, item |-> list[k].pubKey]]
<1>1. Len(list) = n /\ DOMAIN list = 1 .. n
  OBVIOUS
<1>2. /\ ~Uninitialized(core) /\ n = core.encryptor.length
      /\ stops = {}
  <2> HIDE DEF stops
  <2> QED
    BY <1>1 DEF ProvideStatus, stops
<1>3. ASSUME NEW k \in 1 .. n
      PROVE  /\ list[k] \in published /\ list[k].index \in Nat
             /\ list[k].index <= k - 1
             /\ e[k].index = list[k].index /\ e[k].item = list[k].pubKey
  <2>1. list[k] \in published /\ list[k].index \in Nat
    BY DEF PublishedOK
  <2>2. ~(list[k].index > k - 1)
    BY <1>1, <1>2 DEF BeyondEnd
  <2>3. list[k].index <= k - 1
    BY <2>1, <2>2
  <2>4. e[k] = [index |-> list[k].index, item |-> list[k].pubKey]
    BY <1>1
  <2> HIDE DEF e
  <2> QED
    BY <2>1, <2>3, <2>4
<1>4. PICK p : ArrangedBy(p, S, e, e)
  <2>1. S \in SUBSET (1 .. n) /\ DOMAIN e = S
    BY <1>1
  <2>2. ASSUME NEW k \in S
        PROVE  e[k].index \in Nat /\ e[k].index <= Count(S, k - 1)
    <3>1. Count(S, k - 1) = k - 1
      <4>1. Upto(S, k - 1) = 1 .. (k - 1)
        BY DEF Upto
      <4>2. Cardinality(1 .. (k - 1)) = k - 1
        BY FS_Interval
      <4> QED
        BY <4>1, <4>2 DEF Count
    <3> HIDE DEF e
    <3> QED
      BY <1>3, <3>1
  <2> HIDE DEF S, e
  <2> QED
    BY <2>1, <2>2, ArrangedAlike
<1> DEFINE v == PubKeyList(list)
<1>5. Cardinality(S) = n
  BY FS_Interval
<1>6. /\ v = [m \in 1 .. n |-> e[p[m]].item]
      /\ \A m \in 1 .. n : p[m] \in 1 .. n /\ e[p[m]].index <= m - 1
  <2>1. v = InsertedAt(e)
    BY DEF PubKeyList
  <2> HIDE DEF v, e
  <2> QED
    BY <1>4, <1>5, <2>1 DEF ArrangedBy, Arranged, Arrangement, Count, Upto
<1> HIDE DEF v, e
<1>7. ASSUME NEW j \in 1 .. n
      PROVE  /\ v[j] \in Key
             /\ \E c \in published : c.pubKey = v[j] /\ c.index < j
  <2> DEFINE c == list[p[j]]
             x == c.index
  <2>1. p[j] \in 1 .. n /\ e[p[j]].index <= j - 1 /\ v[j] = e[p[j]].item
    BY <1>6
  <2>2. c \in published /\ x \in Nat /\ e[p[j]].index = x /\ e[p[j]].item = c.pubKey
    BY <1>3, <2>1
  <2>3. c.pubKey = v[j]
    BY <2>1, <2>2
  <2>4. x <= j - 1
    BY <2>1, <2>2
  <2> HIDE DEF c
  <2>5. x < j
    <3> HIDE DEF x
    <3> QED
      BY <2>2, <2>4
  <2> QED
    BY <2>2, <2>3, <2>5 DEF PublishedOK
<1>8. v \in Seq(Key) /\ DOMAIN v = 1 .. n
  <2>1. DOMAIN v = 1 .. n /\ v = [m \in 1 .. n |-> v[m]]
    BY <1>6
  <2>2. v \in [1 .. n -> Key]
    BY <1>7, <2>1
  <2> QED
    BY <2>1, <2>2
<1> QED
  BY <1>2, <1>7, <1>8 DEF v

\* A new share is written to the encryptor that the copies have in common.
LEMMA ShareKeepsInv ==
  ASSUME IInv, NEW p \in DOMAIN encryptors, NEW peers,
         SharedFrom([encryptors[p] EXCEPT !.peers = peers], published),
         encryptors' = [encryptors EXCEPT ![p] = [encryptors[p] EXCEPT !.peers = peers]],
         UNCHANGED <<cores, published, released>>
  PROVE  IInv'
<1>1. encryptors[p] \in Encryptor(Key) /\ encryptors[p].key = p
  BY DEF IInv, EncryptorsOK, SharedFrom
<1> DEFINE e == [encryptors[p] EXCEPT !.peers = peers]
<1>2. e.key = p /\ e.index = encryptors[p].index
  BY <1>1 DEF Encryptor
<1>3. SharedFrom(e, published) /\ encryptors' = [encryptors EXCEPT ![p] = e]
  OBVIOUS
<1> HIDE DEF e
<1>4. /\ DOMAIN encryptors' = DOMAIN encryptors
      /\ \A k \in DOMAIN encryptors : encryptors'[k] = IF k = p THEN e ELSE encryptors[k]
      /\ encryptors' = [k \in DOMAIN encryptors' |-> encryptors'[k]]
  BY <1>3
<1>5. EncryptorsOK(encryptors', published)
  BY <1>2, <1>3, <1>4 DEF IInv, EncryptorsOK
<1>6. Owners(encryptors', published, released) = Owners(encryptors, published, released)
  BY <1>1, <1>2, <1>4 DEF Owners
<1>7. ObjectsOK(cores, encryptors')
  BY <1>4 DEF IInv, ObjectsOK
<1> QED
  BY <1>5, <1>6, <1>7 DEF IInv

LEMMA CrashKeepsInv == ASSUME IInv, Crash PROVE IInv'
<1>1. /\ cores' = <<>> /\ encryptors' = <<>> /\ DOMAIN cores' = {}
      /\ DOMAIN encryptors' = {}
      /\ UNCHANGED <<published, released>>
  BY DEF Crash
<1>2. ObjectsOK(cores', encryptors')
  BY <1>1 DEF ObjectsOK
<1>3. EncryptorsOK(encryptors', published)
  BY <1>1 DEF EncryptorsOK
<1>4. Identify(Owners(encryptors', published, released))
  BY <1>1 DEF IInv, Owners, Identify
<1> QED
  BY <1>1, <1>2, <1>3, <1>4 DEF IInv

LEMMA ProvideKeepsInv ==
  ASSUME IInv, NEW h \in Handle, NEW list \in Lists, Provide(h, list) PROVE IInv'
<1> DEFINE core == Object(h)
           p == cores[h].encryptor
           status == ProvideStatus(core, list)
<1>1. PICK n \in 0 .. MaxList : list \in [1 .. n -> published]
  BY DEF Lists
<1>2. h \in Live
  BY DEF Provide
<1>3. status \in {"kOk", "undefined"} =>
        /\ p \in DOMAIN encryptors /\ core.encryptor = encryptors[p]
        /\ encryptors[p] \in Encryptor(Key)
  <2> SUFFICES ASSUME status \in {"kOk", "undefined"}
               PROVE  /\ p \in DOMAIN encryptors /\ core.encryptor = encryptors[p]
                      /\ encryptors[p] \in Encryptor(Key)
    OBVIOUS
  <2>1. ~Uninitialized(core)
    BY DEF ProvideStatus
  <2>2. p \in DOMAIN encryptors /\ core.encryptor = encryptors[p]
    BY <1>2, <2>1, ObjectMembers
  <2> QED
    BY <2>2 DEF IInv, EncryptorsOK, SharedFrom
<1>4. \/ /\ status = "kOk"
         /\ WriteBack(h, [core EXCEPT
              !.encryptor = provideParticipantsPublicData(core, list).encryptor])
         /\ UNCHANGED <<cores, published, released>>
      \/ status = "undefined" /\ Crash
      \/ /\ status = "undefined"
         /\ WriteBack(h, [core EXCEPT !.encryptor = [core.encryptor EXCEPT !.peers = NoPeers]])
         /\ UNCHANGED <<cores, published, released>>
      \/ UNCHANGED vars
  BY DEF Provide
<1>5. core = [encryptor |-> core.encryptor, data |-> cores[h].data]
  BY <1>2, ObjectMembers
<1> HIDE DEF core
<1>6. ASSUME NEW e, WriteBack(h, [core EXCEPT !.encryptor = e])
      PROVE  encryptors' = [encryptors EXCEPT ![p] = e]
  <2>1. [core EXCEPT !.encryptor = e].encryptor = e
    BY <1>5
  <2> QED
    BY <1>6, <2>1 DEF WriteBack
<1>7. CASE /\ status = "kOk"
           /\ WriteBack(h, [core EXCEPT
                !.encryptor = provideParticipantsPublicData(core, list).encryptor])
           /\ UNCHANGED <<cores, published, released>>
  <2> DEFINE peers == PubKeyList(list)
             e == [encryptors[p] EXCEPT !.peers = peers]
  <2>1. provideParticipantsPublicData(core, list).encryptor = e
    BY <1>3, <1>5, <1>7 DEF provideParticipantsPublicData, setParticipantsPublicKeys
  <2>2. encryptors' = [encryptors EXCEPT ![p] = e]
    BY <1>6, <1>7, <2>1
  <2>3. core.encryptor.length \in Nat /\ n \in Nat
    BY <1>3, <1>7 DEF Encryptor
  <2>4. /\ n = core.encryptor.length
        /\ peers \in Seq(Key) /\ DOMAIN peers = 1 .. n
        /\ \A j \in 1 .. n : \E c \in published : c.pubKey = peers[j] /\ c.index < j
    BY <1>1, <1>7, <2>3, KeysListed DEF IInv
  <2> HIDE DEF peers
  <2>5. SharedFrom(e, published)
    <3>1. /\ e.length = n /\ e.peers = peers
          /\ e \in Encryptor(Key)
      BY <1>3, <1>7, <2>4 DEF Encryptor
    <3> HIDE DEF e
    <3> QED
      BY <2>4, <3>1 DEF SharedFrom
  <2> QED
    BY <1>3, <1>7, <2>2, <2>5, ShareKeepsInv
<1>8. CASE /\ status = "undefined"
           /\ WriteBack(h, [core EXCEPT
                              !.encryptor = [core.encryptor EXCEPT !.peers = NoPeers]])
           /\ UNCHANGED <<cores, published, released>>
  <2> DEFINE e == [encryptors[p] EXCEPT !.peers = NoPeers]
  <2>1. encryptors' = [encryptors EXCEPT ![p] = e]
    BY <1>3, <1>6, <1>8
  <2>2. SharedFrom(e, published)
    <3>1. NoPeers \in Seq(Key)
      BY DEF NoPeers
    <3>2. e.peers = NoPeers /\ e \in Encryptor(Key)
      BY <1>3, <1>8, <3>1 DEF Encryptor
    <3> QED
      BY <3>2 DEF SharedFrom
  <2> QED
    BY <1>3, <1>8, <2>1, <2>2, ShareKeepsInv
<1>9. CASE UNCHANGED vars
  BY <1>9 DEF vars, IInv
<1> QED
  BY <1>4, <1>7, <1>8, <1>9, CrashKeepsInv

\* The document that an object gives away is made by its encryptor.
LEMMA DocumentMade ==
  ASSUME NEW core, NEW e \in Encryptor(Key), core.encryptor = e,
         \A l \in DOMAIN core.data : core.data[l] \in Nat,
         NEW d, d = getEncryptedAnalyticsData(core)
  PROVE  Maker(d) = e /\ MadeWhole(d)
<1>1. d = AnalyticsData(e.index, [l \in DOMAIN core.data |-> G1(encrypt(e, l, core.data[l]))],
                        Halves(getFunctionalDecryptionKey(e)))
  BY DEF getEncryptedAnalyticsData
<1>2. /\ d.fdKey = Halves(getFunctionalDecryptionKey(e))
      /\ d.encData = [l \in DOMAIN core.data |-> G1(encrypt(e, l, core.data[l]))]
      /\ d = AnalyticsData(e.index, d.encData, Halves(getFunctionalDecryptionKey(e)))
  BY ONLY <1>1 DEF AnalyticsData
<1>3. Maker(d) = e
  <2>1. Part(d) = getFunctionalDecryptionKey(e)
    BY <1>2 DEF Part, Joined, Halves, G1
  <2>2. Maker(d) = [key |-> e.key, index |-> e.index, length |-> e.length,
                    peers |-> e.peers]
    BY <2>1 DEF Maker, getFunctionalDecryptionKey
  <2> QED
    BY <2>2 DEF Encryptor
<1>4. d.encData = [l \in DOMAIN d.encData |-> d.encData[l]]
  BY <1>2
<1>5. ASSUME NEW l \in DOMAIN d.encData
      PROVE  \E value \in Nat : d.encData[l] = G1(encrypt(e, l, value))
  <2>1. l \in DOMAIN core.data /\ d.encData[l] = G1(encrypt(e, l, core.data[l]))
    BY <1>2
  <2> QED
    BY <2>1
<1> QED
  BY <1>2, <1>3, <1>4, <1>5 DEF MadeWhole

LEMMA ReleaseKeepsInv == ASSUME IInv, NEW h \in Handle, Release(h) PROVE IInv'
<1> DEFINE p == cores[h].encryptor
           d == getEncryptedAnalyticsData(Object(h))
<1>1. /\ h \in Live /\ ~Uninitialized(Object(h))
      /\ released' = released \cup {d}
      /\ UNCHANGED <<cores, encryptors, published>>
  BY DEF Release
<1>2. /\ p \in DOMAIN encryptors
      /\ Object(h).encryptor = encryptors[p] /\ Object(h).data = cores[h].data
  BY <1>1, ObjectMembers
<1>3. /\ encryptors[p] \in Encryptor(Key) /\ SharedFrom(encryptors[p], published)
      /\ \A l \in DOMAIN cores[h].data : cores[h].data[l] \in Nat
  BY <1>1, <1>2 DEF IInv, ObjectsOK, EncryptorsOK, SharedFrom, Live
<1>4. Maker(d) = encryptors[p] /\ MadeWhole(d)
  BY <1>2, <1>3, DocumentMade
<1> HIDE DEF d
<1>5. ReleasedOK(released', published)
  BY <1>1, <1>3, <1>4 DEF IInv, ReleasedOK
<1>6. Owners(encryptors, published, released') = Owners(encryptors, published, released)
  BY <1>1, <1>2, <1>4 DEF Owners
<1> QED
  BY <1>1, <1>5, <1>6 DEF IInv

LEMMA InvHolds == Spec => []IInv
<1>1. Init => IInv
  <2> SUFFICES ASSUME Init PROVE IInv
    OBVIOUS
  <2>1. DOMAIN cores = {} /\ DOMAIN encryptors = {} /\ encryptors = <<>>
    BY DEF Init
  <2>2. ObjectsOK(cores, encryptors) /\ EncryptorsOK(encryptors, published)
    BY <2>1 DEF ObjectsOK, EncryptorsOK
  <2>3. PublishedOK(published) /\ ReleasedOK(released, published)
    BY DEF Init, PublishedOK, ReleasedOK
  <2>4. Identify(Owners(encryptors, published, released))
    BY <2>1 DEF Init, Owners, Identify
  <2> QED
    BY <2>2, <2>3, <2>4 DEF IInv
<1>2. IInv /\ [Next]_vars => IInv'
  <2> SUFFICES ASSUME IInv, [Next]_vars PROVE IInv'
    OBVIOUS
  <2>1. CASE UNCHANGED vars
    BY <2>1 DEF vars, IInv
  <2>2. ASSUME NEW h \in Handle, Construct(h) PROVE IInv'
    BY <2>2, ConstructKeepsInv
  <2>3. ASSUME NEW h \in Handle, NEW from \in Handle, Copy(h, from) PROVE IInv'
    BY <2>3, CopyKeepsInv
  <2>4. ASSUME NEW h \in Handle, Destroy(h) PROVE IInv'
    BY <2>4, DestroyKeepsInv
  <2>5. ASSUME NEW h \in Handle, NEW params \in Params, Initialize(h, params)
        PROVE  IInv'
    BY <2>5, InitializeKeepsInv
  <2>6. ASSUME NEW h \in Handle, Publish(h) PROVE IInv'
    BY <2>6, PublishKeepsInv
  <2>7. ASSUME NEW h \in Handle, NEW list \in Lists, Provide(h, list) PROVE IInv'
    BY <2>7, ProvideKeepsInv
  <2>8. ASSUME NEW h \in Handle, NEW label \in Label, NEW value \in Value,
               SetClear(h, label, value)
        PROVE  IInv'
    BY <2>8, SetClearKeepsInv
  <2>9. ASSUME NEW h \in Handle, Release(h) PROVE IInv'
    BY <2>9, ReleaseKeepsInv
  <2> QED
    BY <2>1, <2>2, <2>3, <2>4, <2>5, <2>6, <2>7, <2>8, <2>9 DEF Next, Call
<1> QED
  BY <1>1, <1>2, PTL DEF Spec

(***************************************************************************)
(* Objects point to encryptors that live, and an encryptor to keys, after  *)
(* any calls (core.hpp, the members of Core).                              *)
(***************************************************************************)
THEOREM SessionTypeCorrect == Spec => []TypeOK
BY InvHolds, TypeFollows, PTL

----------------------------------------------------------------------------
(***************************************************************************)
(* What the documents add up to.                                           *)
(***************************************************************************)
\* The owner of a published key, whatever else it was.
OwnerOf(c) == [key |-> c.pubKey, index |-> c.index, length |-> 0, peers |-> NoPeers]

Made == {Maker(d) : d \in released} \cup {OwnerOf(c) : c \in published}

LEMMA MadeNotEarly == IInv => NoKeyEarly(Made)
<1> SUFFICES ASSUME IInv PROVE NoKeyEarly(Made)
  OBVIOUS
<1> DEFINE owners == Owners(encryptors, published, released)
<1>1. ASSUME NEW e \in Made
      PROVE  /\ e.index \in Nat
             /\ PublicData(e.index, e.key) \in owners
             /\ e.peers # NoPeers => SharedFrom(e, published)
  <2>1. CASE \E d \in released : e = Maker(d)
    <3>1. PICK d \in released : e = Maker(d)
      BY <2>1
    <3>2. SharedFrom(e, published)
      BY <3>1 DEF IInv, ReleasedOK
    <3>3. PublicData(e.index, e.key) \in owners
      BY <3>1 DEF Owners
    <3> QED
      BY <3>2, <3>3 DEF SharedFrom, Encryptor
  <2>2. CASE \E c \in published : e = OwnerOf(c)
    <3>1. PICK c \in published : e = OwnerOf(c)
      BY <2>2
    <3>2. e.index = c.index /\ e.key = c.pubKey /\ e.peers = NoPeers
      BY <3>1 DEF OwnerOf
    <3> QED
      BY <3>2 DEF IInv, PublishedOK, Owners
  <2> QED
    BY <2>1, <2>2 DEF Made
<1>2. ASSUME NEW e \in Made, NEW q \in Made, q.key = e.key
      PROVE  q.index = e.index
  <2>1. ASSUME NEW x PROVE /\ PublicData(x.index, x.key).index = x.index
                           /\ PublicData(x.index, x.key).pubKey = x.key
    BY DEF PublicData
  <2>2. Identify(owners)
    BY DEF IInv
  <2> HIDE DEF owners
  <2>3. /\ PublicData(e.index, e.key) \in owners /\ PublicData(q.index, q.key) \in owners
        /\ PublicData(e.index, e.key).pubKey = PublicData(q.index, q.key).pubKey
    BY <1>1, <1>2, <2>1
  <2>4. PublicData(q.index, q.key).index = PublicData(e.index, e.key).index
    BY <2>2, <2>3 DEF Identify
  <2> QED
    BY <2>1, <2>4
<1>3. ASSUME NEW e \in Made, e.peers # NoPeers
      PROVE  /\ DOMAIN e.peers = 1 .. e.length
             /\ \A j \in DOMAIN e.peers :
                  \E q \in Made : q.key = e.peers[j] /\ q.index < j
  <2>1. SharedFrom(e, published)
    BY <1>1, <1>3
  <2>2. ASSUME NEW c \in published
        PROVE  OwnerOf(c) \in Made /\ OwnerOf(c).key = c.pubKey
               /\ OwnerOf(c).index = c.index
    BY DEF Made, OwnerOf
  <2>3. ASSUME NEW j \in DOMAIN e.peers
        PROVE  \E q \in Made : q.key = e.peers[j] /\ q.index < j
    <3>1. PICK c \in published : c.pubKey = e.peers[j] /\ c.index < j
      BY <1>3, <2>1 DEF SharedFrom
    <3> QED
      BY <2>2, <3>1
  <2> QED
    BY <1>3, <2>1, <2>3 DEF SharedFrom
<1> QED
  BY <1>1, <1>2, <1>3 DEF NoKeyEarly

LEMMA WholeIsMadeBy ==
  ASSUME NEW d, MadeWhole(d), Maker(d).index \in Nat
  PROVE  MadeBy(Maker(d), d) /\ d.index \in Nat
<1> DEFINE e == Maker(d)
           f == getFunctionalDecryptionKey(e)
           data == [l \in DOMAIN d.encData |-> d.encData[l]]
<1>1. d = AnalyticsData(e.index, data, Halves(f))
  BY DEF MadeWhole
<1> HIDE DEF e, f, data
<1>2. d.index = e.index /\ d.fdKey = Halves(f)
  BY ONLY <1>1 DEF AnalyticsData
<1>3. d = AnalyticsData(d.index, data, d.fdKey)
  BY <1>1, <1>2
<1>4. d.fdKey \in Seq({Blank, G1(f)})
  <2>1. d.fdKey = <<G1(f), G1(f)>>
    BY <1>2 DEF Halves
  <2> DEFINE x == G1(f)
             S == {Blank, x}
  <2>2. x \in S /\ d.fdKey = <<x, x>>
    BY <2>1
  <2> HIDE DEF x, S
  <2>3. <<x, x>> \in Seq(S)
    BY <2>2
  <2> QED
    BY <2>2, <2>3 DEF x, S
<1>5. ASSUME NEW l \in DOMAIN d.encData
      PROVE  LET value == d.encData[l][1].value
             IN  value \in Nat /\ d.encData[l] = G1(encrypt(e, l, value))
  <2>1. PICK value \in Nat : d.encData[l] = G1(encrypt(e, l, value))
    BY DEF MadeWhole, e
  <2> DEFINE low == value % ULongRange
  <2>2. low \in Nat /\ low % ULongRange = low
    BY ULongAssumption
  <2>3. d.encData[l] = <<[key |-> e.key, label |-> l, value |-> low]>>
    BY <2>1 DEF G1, encrypt
  <2> HIDE DEF low
  <2>4. d.encData[l][1].value = low
    BY <2>3
  <2>5. encrypt(e, l, low) = [key |-> e.key, label |-> l, value |-> low]
    BY <2>2 DEF encrypt
  <2> QED
    BY <2>2, <2>3, <2>4, <2>5 DEF G1
<1> QED
  BY <1>2, <1>3, <1>4, <1>5 DEF MadeBy, e, f, data

(***************************************************************************)
(* A number that comes out of any of the documents obtained, after any     *)
(* calls, is the sum over a whole group of encryptors that were given each *)
(* other's keys (core.cpp:75-106, 111-152, 166-228): for any number of     *)
(* objects, re-initialisations, lists and documents.                       *)
(***************************************************************************)
THEOREM SumsOfMutualGroups == Spec => []SumOfMutualGroup
<1>1. IInv => SumOfMutualGroup
  <2> SUFFICES ASSUME IInv, NEW n \in 1 .. MaxReleased,
                      NEW ds \in [1 .. n -> released],
                      NEW o \in getInnerProductAnalysis(ds, n, Bound),
                      NEW l \in DOMAIN o.result, o.result[l] # Unpredictable
               PROVE  LET cipher == [k \in DOMAIN ds |-> ds[k].encData[l][1]]
                      IN  /\ o.result[l]
                               = MapThenSumSet(LAMBDA k : cipher[k].value, DOMAIN cipher)
                                   % ULongRange
                          /\ \A k \in DOMAIN ds :
                               /\ ds[k].index = k - 1
                               /\ Len(Part(ds[k]).peers) = n
                               /\ \A j \in DOMAIN ds \ {k} :
                                    /\ Part(ds[j]).key # Part(ds[k]).key
                                    /\ Part(ds[k]).peers[j] = Part(ds[j]).key
    BY DEF SumOfMutualGroup, Part
  <2>1. n \in Nat /\ DOMAIN ds = 1 .. n
    OBVIOUS
  <2>2. ASSUME NEW k \in 1 .. n
        PROVE  /\ ds[k] \in released /\ Maker(ds[k]) \in Made
               /\ MadeBy(Maker(ds[k]), ds[k]) /\ ds[k].index \in Nat
               /\ Part(ds[k]).peers \in Seq(Key)
               /\ Maker(ds[k]).index = ds[k].index
               /\ Maker(ds[k]).key = Part(ds[k]).key
    <3>1. ds[k] \in released /\ Maker(ds[k]) \in Made
      BY <2>1 DEF Made
    <3>2. Maker(ds[k]) \in Encryptor(Key) /\ MadeWhole(ds[k])
      BY <3>1 DEF IInv, ReleasedOK, SharedFrom
    <3>3. Maker(ds[k]).index \in Nat /\ Part(ds[k]).peers \in Seq(Key)
      BY <3>2 DEF Encryptor, Maker
    <3>4. MadeBy(Maker(ds[k]), ds[k]) /\ ds[k].index \in Nat
      BY <3>2, <3>3, WholeIsMadeBy
    <3>5. Maker(ds[k]).key = Part(ds[k]).key
      BY DEF Maker
    <3> QED
      BY <3>1, <3>3, <3>4, <3>5 DEF MadeBy
  <2>3. IsBatch(ds, n) /\ MadeByThese(ds, n, Made) /\ NoKeyEarly(Made)
    BY <2>1, <2>2, MadeNotEarly DEF IsBatch, MadeByThese
  <2>4. /\ \A k \in 1 .. n : ds[k].index = k - 1
        /\ IsGroup(ds, n, l, AllOf(n))
        /\ o.result[l] = SumOver(ds, AllOf(n), l) % ULongRange
    BY <2>1, <2>3, SummedInOrder
  <2> DEFINE cipher == [k \in DOMAIN ds |-> ds[k].encData[l][1]]
  <2>5. MapThenSumSet(LAMBDA k : cipher[k].value, DOMAIN cipher)
          = SumOver(ds, AllOf(n), l)
    <3>1. DOMAIN cipher = 1 .. n /\ DOMAIN AllOf(n) = 1 .. n
      BY <2>1 DEF AllOf
    <3>2. \A m \in 1 .. n : cipher[m].value = ds[AllOf(n)[m]].encData[l][1].value
      BY <2>1 DEF AllOf
    <3> HIDE DEF cipher
    <3> QED
      BY <3>1, <3>2, SameSum
  <2>6. ASSUME NEW k \in 1 .. n
        PROVE  /\ Len(Part(ds[k]).peers) = n
               /\ \A j \in (1 .. n) \ {k} :
                    /\ Part(ds[j]).key # Part(ds[k]).key
                    /\ Part(ds[k]).peers[j] = Part(ds[j]).key
    <3>1. \A j \in 1 .. n : AllOf(n)[j] = j
      BY DEF AllOf
    <3>2. IsMember(ds, n, l, AllOf(n), k)
      BY <2>4 DEF IsGroup
    <3>3. /\ DOMAIN Part(ds[k]).peers = 1 .. n
          /\ \A j \in 1 .. n : j # k => Part(ds[k]).peers[j] = Part(ds[j]).key
      BY <3>1, <3>2 DEF IsMember
    <3>4. Len(Part(ds[k]).peers) = n
      BY <2>1, <2>2, <3>3
    <3>5. ASSUME NEW j \in 1 .. n, j # k PROVE Part(ds[j]).key # Part(ds[k]).key
      <4>1. ds[j].index # ds[k].index
        <5>1. ds[j].index = j - 1 /\ ds[k].index = k - 1
          BY <2>4
        <5> QED
          BY <3>5, <5>1
      <4>2. Maker(ds[j]).key = Maker(ds[k]).key => Maker(ds[j]).index = Maker(ds[k]).index
        BY <2>2, <2>3 DEF NoKeyEarly
      <4> QED
        BY <2>2, <4>1, <4>2
    <3> QED
      BY <3>3, <3>4, <3>5
  <2> HIDE DEF cipher
  <2> QED
    BY <2>1, <2>4, <2>5, <2>6 DEF cipher
<1> QED
  BY <1>1, InvHolds, PTL

----------------------------------------------------------------------------
(***************************************************************************)
(* Copies.                                                                 *)
(***************************************************************************)
\* What an object is that keeps its members and what its encryptor is.
LEMMA KeptAsBefore ==
  ASSUME IInv, NEW g \in Live, g \in Live', cores'[g] = cores[g],
         cores[g].encryptor \in DOMAIN encryptors =>
           /\ cores[g].encryptor \in DOMAIN encryptors'
           /\ encryptors'[cores[g].encryptor] = encryptors[cores[g].encryptor]
  PROVE  Kept(g)
<1>1. /\ cores[g].encryptor \in DOMAIN encryptors \cup {nullptr}
      /\ cores[g] = [encryptor |-> cores[g].encryptor, data |-> cores[g].data]
  BY DEF IInv, ObjectsOK, Live
<1> DEFINE p == cores[g].encryptor
<1>2. /\ Object(g) = [encryptor |-> IF p = nullptr THEN nullptr ELSE encryptors[p],
                      data |-> cores[g].data]
      /\ Object(g)' = [encryptor |-> IF p = nullptr THEN nullptr ELSE encryptors'[p],
                       data |-> cores[g].data]
  BY <1>1 DEF Object
<1> QED
  BY <1>1, <1>2 DEF Kept

\* Objects and memory were set, and the objects but h, and their encryptors, are
\* as they were.
LEMMA MemoryLeavesOthers ==
  ASSUME IInv, NEW h, NEW objects, NEW allocated, Memory(objects, allocated),
         Live \ {h} \subseteq DOMAIN objects,
         \A g \in Live \ {h} : objects[g] = cores[g],
         DOMAIN encryptors \subseteq DOMAIN allocated,
         \A key \in DOMAIN encryptors : allocated[key] = encryptors[key]
  PROVE  \A g \in Live \ {h} : Kept(g)
<1>1. /\ cores' = objects
      /\ encryptors' = Restrict(allocated, {objects[g].encryptor : g \in DOMAIN objects}
                                             \cap DOMAIN allocated)
  BY DEF Memory
<1>2. /\ DOMAIN encryptors' = {objects[g].encryptor : g \in DOMAIN objects}
                                \cap DOMAIN allocated
      /\ \A key \in DOMAIN encryptors' : encryptors'[key] = allocated[key]
  BY <1>1 DEF Restrict
<1>3. ASSUME NEW g \in Live \ {h} PROVE Kept(g)
  <2> DEFINE p == cores[g].encryptor
  <2>1. g \in DOMAIN objects /\ objects[g] = cores[g] /\ g \in Live' /\ cores'[g] = cores[g]
    BY <1>1 DEF Live
  <2>2. p \in DOMAIN encryptors => /\ p \in DOMAIN encryptors'
                                   /\ encryptors'[p] = encryptors[p]
    BY <1>2, <2>1
  <2> QED
    BY <2>1, <2>2, KeptAsBefore
<1> QED
  BY <1>3

\* What a list that is provided does to the objects.
LEMMA ProvideSets ==
  ASSUME IInv, NEW h \in Handle, NEW list \in Lists, Provide(h, list)
  PROVE  \/ Crash
         \/ UNCHANGED vars
         \/ /\ h \in Live /\ cores' = cores
            /\ cores[h].encryptor \in DOMAIN encryptors
            /\ \E peers : encryptors' = [encryptors EXCEPT ![cores[h].encryptor] =
                 [encryptors[cores[h].encryptor] EXCEPT !.peers = peers]]
<1> SUFFICES ASSUME ~Crash, ~UNCHANGED vars
             PROVE  /\ h \in Live /\ cores' = cores
                    /\ cores[h].encryptor \in DOMAIN encryptors
                    /\ \E peers : encryptors' = [encryptors EXCEPT ![cores[h].encryptor] =
                         [encryptors[cores[h].encryptor] EXCEPT !.peers = peers]]
  OBVIOUS
<1> DEFINE core == Object(h)
           p == cores[h].encryptor
           status == ProvideStatus(core, list)
<1>1. h \in Live /\ cores' = cores
  BY DEF Provide
<1>2. /\ status \in {"kOk", "undefined"}
      /\ \E peers : WriteBack(h, [core EXCEPT
           !.encryptor = [core.encryptor EXCEPT !.peers = peers]])
  <2>1. core = [encryptor |-> core.encryptor, data |-> cores[h].data]
    BY <1>1, ObjectMembers
  <2> HIDE DEF core
  <2>2. provideParticipantsPublicData(core, list).encryptor
          = [core.encryptor EXCEPT !.peers = PubKeyList(list)]
    BY <2>1 DEF provideParticipantsPublicData, setParticipantsPublicKeys
  <2>3. \/ /\ status = "kOk"
           /\ WriteBack(h, [core EXCEPT
                !.encryptor = provideParticipantsPublicData(core, list).encryptor])
        \/ /\ status = "undefined"
           /\ WriteBack(h, [core EXCEPT
                !.encryptor = [core.encryptor EXCEPT !.peers = NoPeers]])
    BY DEF Provide, core
  <2> QED
    BY <2>2, <2>3
<1>3. PICK peers : WriteBack(h, [core EXCEPT
        !.encryptor = [core.encryptor EXCEPT !.peers = peers]])
  BY <1>2
<1>4. ~Uninitialized(core)
  BY <1>2 DEF ProvideStatus
<1>5. /\ p \in DOMAIN encryptors /\ core.encryptor = encryptors[p]
      /\ core = [encryptor |-> core.encryptor, data |-> cores[h].data]
  BY <1>1, <1>4, ObjectMembers
<1> DEFINE e == [encryptors[p] EXCEPT !.peers = peers]
<1>6. encryptors' = [encryptors EXCEPT ![p] = e]
  <2> HIDE DEF core, e
  <2>1. WriteBack(h, [core EXCEPT !.encryptor = e])
    BY <1>3, <1>5 DEF e
  <2>2. [core EXCEPT !.encryptor = e].encryptor = e
    BY <1>5
  <2> QED
    BY <2>1, <2>2 DEF WriteBack
<1> QED
  BY <1>1, <1>5, <1>6

LEMMA ProvideSharedByCopies ==
  ASSUME IInv, NEW h \in Handle, NEW list \in Lists, Provide(h, list), ~Crash,
         NEW g \in Live \ {h}, ~Kept(g)
  PROVE  SameNewShare(h, g)
<1> DEFINE p == cores[h].encryptor
<1>1. ~UNCHANGED vars
  BY KeptAsBefore DEF vars, Live
<1>2. PICK peers : encryptors' = [encryptors EXCEPT ![p] =
                     [encryptors[p] EXCEPT !.peers = peers]]
  BY <1>1, ProvideSets
<1>3. h \in Live /\ cores' = cores /\ p \in DOMAIN encryptors
  BY <1>1, ProvideSets
<1>4. cores[g].encryptor = p
  <2> SUFFICES ASSUME cores[g].encryptor # p PROVE FALSE
    OBVIOUS
  <2>1. cores[g].encryptor \in DOMAIN encryptors =>
          /\ cores[g].encryptor \in DOMAIN encryptors'
          /\ encryptors'[cores[g].encryptor] = encryptors[cores[g].encryptor]
    BY <1>2, <1>3
  <2> QED
    BY <1>3, <2>1, KeptAsBefore DEF Live
<1>5. p # nullptr
  BY <1>3, SessionAssumption DEF SessionAssumption, IInv, EncryptorsOK
<1>6. /\ encryptors[p] = [key |-> encryptors[p].key, index |-> encryptors[p].index,
                          length |-> encryptors[p].length,
                          peers |-> encryptors[p].peers]
      /\ encryptors'[p] = [encryptors[p] EXCEPT !.peers = peers]
  BY <1>2, <1>3 DEF IInv, EncryptorsOK, SharedFrom, Encryptor
<1>7. encryptors'[p].peers = peers
  BY <1>6
<1>8. ASSUME NEW k \in {g, h}
      PROVE  /\ Object(k) = [encryptor |-> encryptors[p], data |-> cores[k].data]
             /\ Object(k)' = [encryptor |-> encryptors'[p], data |-> cores[k].data]
  <2>1. cores[k] = [encryptor |-> cores[k].encryptor, data |-> cores[k].data]
    BY <1>3 DEF IInv, ObjectsOK, Live
  <2>2. cores[k].encryptor = p
    BY <1>4
  <2> HIDE DEF p
  <2> QED
    BY <1>3, <1>5, <2>1, <2>2 DEF Object
<1> HIDE DEF p
<1>9. Object(h)'.encryptor.peers = peers
  BY <1>7, <1>8
<1>10. Object(g)' = [Object(g) EXCEPT !.encryptor.peers = peers]
  BY <1>6, <1>8
<1> QED
  BY <1>3, <1>4, <1>9, <1>10 DEF SameNewShare, Live, p

(***************************************************************************)
(* A call made on one object changes no other, but that the copies of it   *)
(* get the share that it is given (core.cpp:24-29, 43, 103), for any       *)
(* number of objects and copies, any lists and any sequence of calls.      *)
(***************************************************************************)
THEOREM CopiesAreIndependent == Spec => CopiesStandAlone
<1> DEFINE A == \A h \in Handle : \A g \in Live \ {h} :
                  ~Kept(g) /\ Call(h)
                  => \E list \in Lists : Provide(h, list) /\ (Crash \/ SameNewShare(h, g))
<1>1. IInv => A
  <2> SUFFICES ASSUME IInv, NEW h \in Handle, NEW g \in Live \ {h}, ~Kept(g), Call(h)
               PROVE  \E list \in Lists : Provide(h, list) /\ (Crash \/ SameNewShare(h, g))
    OBVIOUS
  <2>1. ~(cores' = cores /\ encryptors' = encryptors)
    BY KeptAsBefore DEF Live
  <2>2. ~Construct(h)
    <3> SUFFICES ASSUME Construct(h) PROVE FALSE
      OBVIOUS
    <3>1. cores' = Assigned(cores, h, NewCore) /\ encryptors' = encryptors
      BY DEF Construct
    <3>2. g \in Live' /\ cores'[g] = cores[g]
      BY <3>1 DEF Assigned, Live
    <3> QED
      BY <3>1, <3>2, KeptAsBefore
  <2>3. ASSUME NEW from \in Handle, Copy(h, from) PROVE FALSE
    <3> DEFINE objects == Assigned(cores, h, cores[from])
    <3>1. Memory(objects, encryptors)
      BY <2>3 DEF Copy
    <3>2. /\ Live \ {h} \subseteq DOMAIN objects
          /\ \A k \in Live \ {h} : objects[k] = cores[k]
      BY DEF Assigned, Live
    <3> HIDE DEF objects
    <3> QED
      BY <3>1, <3>2, MemoryLeavesOthers
  <2>4. ~Destroy(h)
    <3> SUFFICES ASSUME Destroy(h) PROVE FALSE
      OBVIOUS
    <3> DEFINE objects == Restrict(cores, Live \ {h})
               kept == Restrict(encryptors, DOMAIN encryptors \ Freed(cores[h]))
    <3>1. Memory(objects, kept)
      BY DEF Destroy
    <3>2. /\ Live \ {h} \subseteq DOMAIN objects
          /\ \A k \in Live \ {h} : objects[k] = cores[k]
      BY DEF Restrict, Live
    <3>3. /\ DOMAIN encryptors \subseteq DOMAIN kept
          /\ \A key \in DOMAIN encryptors : kept[key] = encryptors[key]
      BY DEF Restrict, Freed
    <3> HIDE DEF objects, kept
    <3> QED
      BY <3>1, <3>2, <3>3, MemoryLeavesOthers
  <2>5. ASSUME NEW params \in Params, Initialize(h, params) PROVE FALSE
    <3>1. PICK key \in Fresh :
            Memory([cores EXCEPT ![h].encryptor = key],
                   Assigned(encryptors, key,
                            initializeAnalyticsScheme(Object(h), params, key).encryptor))
      BY <2>5 DEF Initialize
    <3> DEFINE objects == [cores EXCEPT ![h].encryptor = key]
               allocated == Assigned(encryptors, key,
                              initializeAnalyticsScheme(Object(h), params, key).encryptor)
    <3>2. /\ Live \ {h} \subseteq DOMAIN objects
          /\ \A k \in Live \ {h} : objects[k] = cores[k]
      BY DEF Live
    <3>3. /\ DOMAIN encryptors \subseteq DOMAIN allocated
          /\ \A k \in DOMAIN encryptors : allocated[k] = encryptors[k]
      BY DEF Assigned, Fresh
    <3>4. Memory(objects, allocated)
      BY <3>1
    <3> HIDE DEF objects, allocated
    <3> QED
      BY <3>2, <3>3, <3>4, MemoryLeavesOthers
  <2>6. ASSUME NEW label \in Label, NEW value \in Value, SetClear(h, label, value)
        PROVE  FALSE
    <3>1. /\ DOMAIN cores' = DOMAIN cores /\ encryptors' = encryptors
          /\ \A k \in DOMAIN cores : k # h => cores'[k] = cores[k]
      BY <2>6 DEF SetClear
    <3> QED
      BY <3>1, KeptAsBefore DEF Live
  <2>7. ~Publish(h) /\ ~Release(h)
    BY <2>1 DEF Publish, Release
  <2>8. PICK list \in Lists : Provide(h, list)
    BY <2>2, <2>3, <2>4, <2>5, <2>6, <2>7 DEF Call
  <2> QED
    BY <2>8, ProvideSharedByCopies
<1> HIDE DEF A
<1> QED
  BY <1>1, InvHolds, PTL DEF Spec, CopiesStandAlone, A
=============================================================================
