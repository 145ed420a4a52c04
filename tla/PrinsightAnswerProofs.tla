------------------------- MODULE PrinsightAnswerProofs -------------------------
(***************************************************************************)
(* What comes out of the documents that the server has stored, for every   *)
(* number of clients, every batch size and every loss, delay and death:    *)
(* the answer that the analyst is given, and what the server could decrypt *)
(* on its own.                                                             *)
(*                                                                         *)
(* Every stored document is the one that a client with a share submits     *)
(* (Inv), and that client stands where the document says.  All else        *)
(* follows from what InnerProductProofs shows of such documents.           *)
(***************************************************************************)
EXTENDS PrinsightProofs

----------------------------------------------------------------------------
(***************************************************************************)
(* The server's analysis is the one that InnerProductProofs is about.      *)
(***************************************************************************)
LEMMA SameGathering == \A ds : Server!Gathering(ds) = Gathering(ds)
<1> SUFFICES ASSUME NEW ds PROVE Server!Gathering(ds) = Gathering(ds)
  OBVIOUS
<1>1. ASSUME NEW k
      PROVE  /\ Server!Throws(ds, k) <=> Throws(ds, k)
             /\ Server!Rejected(ds, k) <=> Rejected(ds, k)
             /\ Server!PastEnd(ds, k) <=> PastEnd(ds, k)
  BY DEF Server!Throws, Throws, Server!Rejected, Rejected, Server!PastEnd,
         PastEnd, Server!IndexRejected, IndexRejected, Server!KeyRejected,
         KeyRejected, Server!CipherPastEnd, CipherPastEnd, Server!KeyPastEnd,
         KeyPastEnd, Server!Complete, Complete, Server!Carrying, Carrying,
         Server!Cardinality, Cardinality
<1>2. \A s : Server!Min(s) = Min(s)
  BY DEF Server!Min, Min
<1> QED
  BY <1>1, <1>2 DEF Server!Gathering, Gathering

LEMMA SameDecryption ==
  \A c, k, policy, label, bound :
    Server!decrypt(c, k, policy, label, bound)
      = decrypt(c, k, policy, label, bound)
<1> SUFFICES ASSUME NEW c, NEW k, NEW policy, NEW label, NEW bound
             PROVE  Server!decrypt(c, k, policy, label, bound)
                      = decrypt(c, k, policy, label, bound)
  OBVIOUS
<1>1. ASSUME NEW a, NEW b
      PROVE  Server!cfe_dmcfe_decrypt(a, b, policy, label, AsLong(bound))
               = cfe_dmcfe_decrypt(a, b, policy, label, AsLong(bound))
  <2>1. Server!MasksCancel(b) <=> MasksCancel(b)
    BY DEF Server!MasksCancel, MasksCancel, Server!Cardinality, Cardinality
  <2>2. Server!SecretsMatch(a, b, policy, label)
          <=> SecretsMatch(a, b, policy, label)
    BY DEF Server!SecretsMatch, SecretsMatch, Server!ToBag, ToBag,
           Server!Range, Range, Server!Cardinality, Cardinality
  <2>3. Server!MapThenSumSet(LAMBDA m : a[m].value, DOMAIN a)
          = MapThenSumSet(LAMBDA m : a[m].value, DOMAIN a)
    BY DEF Server!MapThenSumSet, MapThenSumSet, Server!MapThenFoldSet,
           MapThenFoldSet
  <2> QED
    BY <2>1, <2>2, <2>3
       DEF Server!cfe_dmcfe_decrypt, cfe_dmcfe_decrypt, Server!NotFound,
           NotFound, Server!Stray, Stray, Server!Found, Found,
           Server!Unpredictable, Unpredictable, Server!NoPeers, NoPeers
<1>2. Server!AsLong(bound) = AsLong(bound)
  BY DEF Server!AsLong, AsLong
<1>3. ASSUME NEW a PROVE Server!Elements(a, policy) = Elements(a, policy)
  BY DEF Server!Elements, Elements
<1>4. Server!LengthsAgree(c, k, policy) = LengthsAgree(c, k, policy)
  BY DEF Server!LengthsAgree, LengthsAgree
<1>5. Server!Written(c, k, policy) = Written(c, k, policy)
  BY <1>4 DEF Server!Written, Written, Server!Blank, Blank
<1> QED
  BY <1>1, <1>2, <1>3, <1>5
     DEF Server!decrypt, decrypt, Server!NotFound, NotFound, Server!Stray,
         Stray, Server!Unpredictable, Unpredictable

LEMMA SameAnalysis ==
  \A ds, policy, bound :
    Server!getInnerProductAnalysis(ds, policy, bound)
      = getInnerProductAnalysis(ds, policy, bound)
<1> SUFFICES ASSUME NEW ds, NEW policy, NEW bound
             PROVE  Server!getInnerProductAnalysis(ds, policy, bound)
                      = getInnerProductAnalysis(ds, policy, bound)
  OBVIOUS
<1>1. ASSUME NEW s PROVE Server!Labels(s) = Labels(s)
  BY DEF Server!Labels, Labels, Server!Complete, Complete, Server!Range, Range
<1>2. Server!Undefined(ds) = Undefined(ds)
  BY <1>1 DEF Server!Undefined, Undefined, Server!Analysis, Analysis,
         Server!NoResult, NoResult, Server!Unpredictable, Unpredictable
<1>3. Server!Decodings(ds) = Decodings(ds)
  BY DEF Server!Decodings, Decodings, Server!Decoded, Decoded, Server!Blank,
         Blank, Server!fromBase64, fromBase64, Server!Range, Range
<1>4. ASSUME NEW s, NEW l PROVE Server!Ciphers(s, l) = Ciphers(s, l)
  BY DEF Server!Ciphers, Ciphers, Server!InsertedAt, InsertedAt,
         Server!MapThenFoldSet, MapThenFoldSet, Server!Carrying, Carrying,
         Server!Complete, Complete, Server!InsertAt, InsertAt, Server!Max, Max
<1>5. ASSUME NEW s PROVE Server!FdKeys(s) = FdKeys(s)
  BY DEF Server!FdKeys, FdKeys, Server!InsertedAt, InsertedAt,
         Server!MapThenFoldSet, MapThenFoldSet, Server!Joined, Joined,
         Server!Blank, Blank, Server!InsertAt, InsertAt, Server!Max, Max
<1>6. ASSUME NEW s
      PROVE  Server!DecryptAll(s, policy, bound) = DecryptAll(s, policy, bound)
  <2>1. \A l : Server!decrypt(Server!Ciphers(s, l), Server!FdKeys(s), policy, l, bound)
                = decrypt(Ciphers(s, l), FdKeys(s), policy, l, bound)
    BY <1>4, <1>5, SameDecryption
  <2> QED
    BY <1>1, <2>1 DEF Server!DecryptAll, DecryptAll, Server!Analysis, Analysis
<1> QED
  BY <1>2, <1>3, <1>6, SameGathering
     DEF Server!getInnerProductAnalysis, getInnerProductAnalysis,
         Server!NoResult, NoResult, Server!Analysis, Analysis
----------------------------------------------------------------------------
(***************************************************************************)
(* The documents that the server has stored, and whose they are.           *)
(***************************************************************************)
Place == [q \in Client |-> core[q].encryptor.index]

\* Document d is the one that p submits.
SubmittedBy(d, p) ==
  /\ p \in Client /\ Shared(core, p)
  /\ d = getEncryptedAnalyticsData(core[p])

Measured(p) ==
  [l \in DOMAIN ClearData |-> encrypt(core[p].encryptor, l, ClearData[l])]

\* Its index, what it contains, and where everybody stands whom its key part
\* names.
LEMMA SubmittedDocument ==
  ASSUME Inv, NEW d, NEW p, SubmittedBy(d, p)
  PROVE  LET part == getFunctionalDecryptionKey(core[p].encryptor)
         IN  /\ d.index = Place[p]
             /\ d = AnalyticsData(d.index, d.encData, d.fdKey)
             /\ Complete(d)
             /\ d.encData = [l \in DOMAIN ClearData |-> G1(Measured(p)[l])]
             /\ d.fdKey = Halves(part)
             /\ Joined(d.fdKey)[1] = part
             /\ part.key = p /\ part.index = Place[p] /\ part.index \in Nat
             /\ part.peers \in [1 .. BatchSize -> Client]
             /\ \A j \in 1 .. BatchSize : Place[part.peers[j]] = j - 1
<1> DEFINE part == getFunctionalDecryptionKey(core[p].encryptor)
           e == [l \in DOMAIN ClearData |-> G1(Measured(p)[l])]
           h == Halves(part)
<1>1. /\ p \in Client /\ core[p].encryptor # nullptr
      /\ core[p].data = ClearData
      /\ core[p].encryptor.key = p
      /\ core[p].encryptor \in Encryptor(Client)
      /\ GenuineKeys(core, core[p].encryptor.peers)
  BY DEF SubmittedBy, Inv, ClientsInv, CoreInv, Shared, Ready, StateType, CoreType
<1>2. d = AnalyticsData(core[p].encryptor.index, e, h)
  BY <1>1 DEF SubmittedBy, getEncryptedAnalyticsData, Measured
<1>3. part.key = p /\ part.index = core[p].encryptor.index
        /\ part.peers = core[p].encryptor.peers
        /\ core[p].encryptor.index \in Nat
  BY <1>1 DEF getFunctionalDecryptionKey, Encryptor
<1>4. Joined(h)[1] = part
  <2> HIDE DEF part
  <2> QED
    BY DEF Joined, Halves, G1
<1>5. Place[p] = core[p].encryptor.index
  BY <1>1 DEF Place
<1>6. part.peers \in [1 .. BatchSize -> Client]
  BY <1>1, <1>3 DEF GenuineKeys
<1>7. \A j \in 1 .. BatchSize : Place[part.peers[j]] = j - 1
  BY <1>1, <1>3, <1>6 DEF GenuineKeys, Place
<1>8. /\ d.index = core[p].encryptor.index /\ d.encData = e /\ d.fdKey = h
      /\ d = AnalyticsData(d.index, d.encData, d.fdKey)
      /\ Complete(d)
  <2> HIDE DEF e, h
  <2> QED
    BY <1>2 DEF AnalyticsData, Complete
<1> QED
  BY <1>3, <1>4, <1>5, <1>6, <1>7, <1>8

LEMMA EverySubmitted ==
  ASSUME Inv, NEW k \in DOMAIN mParticipantsAnalyticsDataList
  PROVE  \E p : SubmittedBy(mParticipantsAnalyticsDataList[k], p)
  BY DEF Inv, RecordsInv, GenuineDocument, SubmittedBy

(***************************************************************************)
(* The sum of what BatchSize clients measured fits into an unsigned long.  *)
(***************************************************************************)
LEMMA SumFits ==
  ASSUME NEW l \in DOMAIN ClearData
  PROVE  /\ ClearData[l] % ULongRange = ClearData[l]
         /\ (BatchSize * ClearData[l]) % ULongRange = BatchSize * ClearData[l]
<1>1. /\ BatchSize \in Nat \ {0} /\ ClearData[l] \in Nat
      /\ ULongRange \in Nat \ {0}
      /\ BatchSize * ClearData[l] < ULongRange
  BY ServerAssumptions, ClearDataAssumption DEF ClearDataAssumption
<1>2. \A a \in Nat \ {0}, b \in Nat : b <= a * b /\ a * b \in Nat
  <2>1. \A a \in Nat, b \in Nat : a * b \in Nat /\ b <= (a + 1) * b
    <3>1. \A a \in Nat, b \in Nat : (a + 1) * b = a * b + b /\ a * b \in Nat
      OBVIOUS
    <3> QED
      BY <3>1
  <2> TAKE a \in Nat \ {0}, b \in Nat
  <2>2. a - 1 \in Nat /\ (a - 1) + 1 = a
    OBVIOUS
  <2> QED
    BY <2>1, <2>2
<1>3. \A r \in Nat \ {0}, b \in Nat : b < r => b % r = b
  OBVIOUS
<1>4. ClearData[l] < ULongRange /\ BatchSize * ClearData[l] \in Nat
  BY <1>1, <1>2
<1> QED
  BY <1>1, <1>3, <1>4

(***************************************************************************)
(* What a successful analysis of the stored documents says: each of them   *)
(* is from another client, the key part of each names the others at their  *)
(* places, and the result is the sum.                                      *)
(***************************************************************************)
Mutual(ds) ==
  LET Part(k) == Joined(ds[k].fdKey)[1]
  IN  \A j, k \in DOMAIN ds :
        /\ Part(j).key = Part(k).key => j = k
        /\ j # k => Part(k).peers[j] = Part(j).key

LEMMA SuccessIsGroupSum ==
  ASSUME Inv, Len(mParticipantsAnalyticsDataList) = BatchSize,
         InIndexOrder(mParticipantsAnalyticsDataList),
         NEW a \in getInnerProductAnalysis(mParticipantsAnalyticsDataList,
                                           BatchSize, Bound),
         a.status = "kOk"
  PROVE  a.result = ExpectedSum /\ Mutual(mParticipantsAnalyticsDataList)
<1> DEFINE ds == mParticipantsAnalyticsDataList
           N == BatchSize
           from == [k \in 1 .. N |-> CHOOSE p : SubmittedBy(ds[k], p)]
           cipher == [k \in 1 .. N |-> Measured(from[k])]
           part == [k \in 1 .. N |->
                      getFunctionalDecryptionKey(core[from[k]].encryptor)]
           v == [l \in DOMAIN ClearData |-> ClearData[l] % ULongRange]
<1>1. N \in Nat \ {0} /\ DOMAIN ds = 1 .. N /\ ds = [k \in 1 .. N |-> ds[k]]
  BY ServerAssumptions, ServerType DEF Inv, ServerFacts
<1>2. ASSUME NEW k \in 1 .. N PROVE SubmittedBy(ds[k], from[k])
  BY <1>1, EverySubmitted
<1> HIDE DEF from
<1>3. ASSUME NEW k \in 1 .. N
      PROVE  /\ ds[k].index = Place[from[k]]
             /\ ds[k] = AnalyticsData(ds[k].index, ds[k].encData, ds[k].fdKey)
             /\ Complete(ds[k])
             /\ ds[k].encData = [l \in DOMAIN ClearData |-> G1(cipher[k][l])]
             /\ ds[k].fdKey = Halves(part[k])
             /\ Joined(ds[k].fdKey)[1] = part[k]
             /\ part[k].key = from[k]
             /\ part[k].index = Place[from[k]] /\ part[k].index \in Nat
             /\ part[k].peers \in [1 .. N -> Client]
             /\ \A j \in 1 .. N : Place[part[k].peers[j]] = j - 1
  BY <1>2, SubmittedDocument
<1>4. \A k \in 1 .. N : ds[k].index = k - 1
  BY <1>1 DEF InIndexOrder
<1>5. Orderly(ds, N, DOMAIN ClearData, cipher, part)
  <2>1. part = [k \in 1 .. N |-> part[k]]
    OBVIOUS
  <2> HIDE DEF cipher, part, ds
  <2> QED
    BY <1>1, <2>1, <1>3, <1>4 DEF Orderly, ds
<1>6. InPlace(part, N, Place)
  <2>1. part = [k \in 1 .. N |-> part[k]]
    OBVIOUS
  <2>2. ASSUME NEW k \in 1 .. N
        PROVE  /\ part[k].index = k - 1
               /\ Place[part[k].key] = k - 1
               /\ DOMAIN part[k].peers = 1 .. N
               /\ \A j \in 1 .. N : Place[part[k].peers[j]] = j - 1
    <3> HIDE DEF part, ds, cipher
    <3>1. /\ part[k].key = from[k] /\ part[k].index = ds[k].index
          /\ ds[k].index = Place[from[k]] /\ ds[k].index = k - 1
          /\ part[k].peers \in [1 .. N -> Client]
          /\ \A j \in 1 .. N : Place[part[k].peers[j]] = j - 1
      BY <1>3, <1>4
    <3> QED
      BY <3>1
  <2> HIDE DEF part
  <2> QED
    BY <2>1, <2>2 DEF InPlace
<1>7. AllContain(cipher, N, DOMAIN ClearData, v)
  <2>1. \A k \in 1 .. N : \A l \in DOMAIN ClearData : cipher[k][l].value = v[l]
    BY DEF Measured, encrypt
  <2>2. v \in [DOMAIN ClearData -> Nat]
    BY SumFits, ClearDataAssumption DEF ClearDataAssumption
  <2> HIDE DEF cipher, v
  <2> QED
    BY <2>1, <2>2 DEF AllContain
<1>8. DOMAIN ClearData # {}
  BY ClearDataAssumption DEF ClearDataAssumption
<1> HIDE DEF cipher, part, v, ds
<1>9. /\ Sums(a.result, N, DOMAIN ClearData, v)
      /\ \A j, k \in 1 .. N : Knows(part, j, k)
  <2>1. a \in getInnerProductAnalysis(ds, N, Bound)
    BY DEF ds
  <2> QED
    BY <1>1, <1>5, <1>6, <1>7, <1>8, <2>1, OrderlySum
<1>10. \A l \in DOMAIN ClearData :
         (N * v[l]) % ULongRange = BatchSize * ClearData[l]
  BY SumFits DEF v
<1>11. a.result = ExpectedSum
  BY <1>9, <1>10 DEF ExpectedSum, Sums
<1>12. \A k \in 1 .. N : Joined(ds[k].fdKey)[1] = part[k]
  BY <1>3
<1>13. Mutual(ds)
  BY <1>1, <1>9, <1>12 DEF Mutual, Knows
<1> QED
  BY <1>11, <1>13 DEF ds
----------------------------------------------------------------------------
(***************************************************************************)
(* The answer, step by step.                                               *)
(***************************************************************************)
LEMMA ClientLeavesServer ==
  ASSUME NEW p \in Client, ClientStep(p) \/ Kill(p)
  PROVE  UNCHANGED serverVars
<1>1. ASSUME NEW call, NEW body, Invoke(p, call, body)
      PROVE  UNCHANGED serverVars
  BY <1>1 DEF Invoke
<1>2. ASSUME NEW place, GoTo(p, place) PROVE UNCHANGED serverVars
  BY <1>2 DEF GoTo
<1>3. CASE Submit(p)
  BY <1>1, <1>2, <1>3 DEF Submit
<1>4. CASE Launch(p) \/ FetchScheme(p) \/ PublishKey(p) \/ WakeUp(p)
  BY <1>1, <1>4 DEF Launch, FetchScheme, PublishKey, WakeUp
<1>5. CASE Sleep(p) \/ Exit(p) \/ Abort(p) \/ Fail(p) \/ Kill(p)
  BY <1>2, <1>5 DEF Sleep, Exit, Abort, Fail, Kill
<1> QED
  BY <1>3, <1>4, <1>5 DEF ClientStep

LEMMA DeliveryIsNoAnswer ==
  ASSUME NEW m, Handle(m) PROVE exchange'.handler # "doGetAnalysis"
<1>1. ASSUME NEW c, Server!doRegisterParticipant(c)
      PROVE  exchange'.handler = "doRegisterParticipant"
  <2>1. \E client, sent : Server!SendTo(client, "doRegisterParticipant", sent)
    BY <1>1 DEF Server!doRegisterParticipant, Server!Send
  <2> QED
    BY <2>1 DEF Server!SendTo
<1>2. ASSUME NEW h, NEW sent, Server!Send(h, sent)
      PROVE  exchange'.handler = h
  BY <1>2 DEF Server!Send, Server!SendTo
<1>3. ASSUME NEW i, Server!doGetAnalyticsSchemeParams(i)
      PROVE  exchange'.handler = "doGetAnalyticsSchemeParams"
  BY <1>2, <1>3 DEF Server!doGetAnalyticsSchemeParams
<1>4. ASSUME NEW b, Server!doRecordParticipantsPublicData(b)
      PROVE  exchange'.handler = "doRecordParticipantsPublicData"
  BY <1>2, <1>4 DEF Server!doRecordParticipantsPublicData
<1>5. ASSUME Server!doGetParticipantsPublicData
      PROVE  exchange'.handler = "doGetParticipantsPublicData"
  BY <1>2, <1>5 DEF Server!doGetParticipantsPublicData
<1>6. ASSUME NEW b, Server!doRecordAnalyticsData(b)
      PROVE  exchange'.handler = "doRecordAnalyticsData"
  BY <1>2, <1>6 DEF Server!doRecordAnalyticsData
<1> QED
  BY <1>1, <1>3, <1>4, <1>5, <1>6 DEF Handle

\* An answer comes of a successful analysis of the documents stored.
LEMMA AnswerFromAnalysis ==
  ASSUME Server!doGetAnalysis, AnswerGiven'
  PROVE  /\ Len(mParticipantsAnalyticsDataList) = BatchSize
         /\ UNCHANGED mParticipantsAnalyticsDataList
         /\ \E a \in getInnerProductAnalysis(mParticipantsAnalyticsDataList,
                                             BatchSize, Bound) :
              a.status = "kOk" /\ Answer' = a.result
<1>1. /\ serving' /\ Server!FirstReply' = exchange'.sent[1]
      /\ exchange'.sent[1].code = "Ok"
      /\ Answer' = exchange'.sent[1].result
  BY DEF AnswerGiven, Answer, Server!FirstReply
<1>2. ASSUME NEW sent, Server!Send("doGetAnalysis", sent)
      PROVE  exchange'.sent = sent
  BY <1>2 DEF Server!Send, Server!SendTo
<1>3. \A text : Server!ServerError(text).code = "Internal_Server_Error"
  BY DEF Server!ServerError
<1>4. ~Server!Send("doGetAnalysis", <<Server!NotEnough>>)
  <2> SUFFICES ASSUME Server!Send("doGetAnalysis", <<Server!NotEnough>>)
               PROVE  FALSE
    OBVIOUS
  <2>1. exchange'.sent = <<Server!NotEnough>>
    BY <1>2
  <2>2. Server!NotEnough.code = "Internal_Server_Error"
    BY <1>3 DEF Server!NotEnough
  <2> QED
    BY <1>1, <2>1, <2>2
<1>5. PICK a \in getInnerProductAnalysis(mParticipantsAnalyticsDataList,
                                         BatchSize, Bound) :
        /\ Server!EnoughForAnalysis
        /\ a.status # "crash"
        /\ Server!Send("doGetAnalysis", Server!AnalysisReplies(a))
        /\ UNCHANGED mParticipantsAnalyticsDataList
  BY <1>1, <1>4, SameAnalysis DEF Server!doGetAnalysis
<1>6. a.status = "kOk"
  <2> SUFFICES ASSUME a.status # "kOk" PROVE FALSE
    OBVIOUS
  <2>1. \E text : Server!AnalysisReplies(a)[1] = Server!ServerError(text)
    BY DEF Server!AnalysisReplies
  <2> QED
    BY <1>1, <1>2, <1>3, <1>5, <2>1
<1>7. Server!AnalysisReplies(a)[1] = Server!Result(a.result)
  BY <1>6 DEF Server!AnalysisReplies
<1>8. Server!Result(a.result).result = a.result
  BY DEF Server!Result
<1> QED
  BY <1>1, <1>2, <1>5, <1>6, <1>7, <1>8 DEF Server!EnoughForAnalysis

LEMMA AskedAnswer ==
  ASSUME Inv, Ask, AnswerGiven', InIndexOrder(mParticipantsAnalyticsDataList')
  PROVE  /\ Answer' = ExpectedSum
         /\ Len(mParticipantsAnalyticsDataList') = BatchSize
         /\ Mutual(mParticipantsAnalyticsDataList')
<1>1. /\ Len(mParticipantsAnalyticsDataList) = BatchSize
      /\ UNCHANGED mParticipantsAnalyticsDataList
  BY AnswerFromAnalysis DEF Ask
<1>2. PICK a \in getInnerProductAnalysis(mParticipantsAnalyticsDataList,
                                         BatchSize, Bound) :
        a.status = "kOk" /\ Answer' = a.result
  BY AnswerFromAnalysis DEF Ask
<1>3. a.result = ExpectedSum /\ Mutual(mParticipantsAnalyticsDataList)
  BY <1>1, <1>2, SuccessIsGroupSum
<1> QED
  BY <1>1, <1>2, <1>3

(***************************************************************************)
(* Whatever was lost, late, killed or restarted, the number the analyst is *)
(* given is the sum over BatchSize different clients whose key parts name  *)
(* each other, unless the documents arrived out of index order (core.cpp:  *)
(* 183-250, server main.cpp:224-240).                                      *)
(***************************************************************************)
THEOREM AnswersAreSums == Spec => []AnswerIsGroupSum
<1> DEFINE Given ==
      AnswerGiven /\ InIndexOrder(mParticipantsAnalyticsDataList)
        => /\ Answer = ExpectedSum
           /\ Len(mParticipantsAnalyticsDataList) = BatchSize
           /\ Mutual(mParticipantsAnalyticsDataList)
<1>1. Given <=> AnswerIsGroupSum
  BY DEF AnswerIsGroupSum, Mutual
<1>2. Init => Given
  BY DEF Init, AnswerGiven, Server!NoExchange
<1>3. Inv /\ Given /\ [Next]_vars => Given'
  <2> SUFFICES ASSUME Inv, Given, [Next]_vars PROVE Given'
    OBVIOUS
  <2>1. CASE UNCHANGED serverVars
    BY <2>1 DEF serverVars, AnswerGiven, Answer, Server!FirstReply,
               InIndexOrder, Mutual
  <2>2. CASE exchange'.handler # "doGetAnalysis"
    BY <2>2 DEF AnswerGiven
  <2>3. CASE Ask
    <3>1. ASSUME AnswerGiven', InIndexOrder(mParticipantsAnalyticsDataList')
          PROVE  /\ Answer' = ExpectedSum
                 /\ Len(mParticipantsAnalyticsDataList') = BatchSize
                 /\ Mutual(mParticipantsAnalyticsDataList')
      BY <2>3, <3>1, AskedAnswer
    <3>2. InIndexOrder(mParticipantsAnalyticsDataList)'
            <=> InIndexOrder(mParticipantsAnalyticsDataList')
      BY DEF InIndexOrder
    <3>3. Mutual(mParticipantsAnalyticsDataList)'
            <=> Mutual(mParticipantsAnalyticsDataList')
      BY DEF Mutual
    <3>4. ExpectedSum' = ExpectedSum
      BY DEF ExpectedSum
    <3> QED
      BY <3>1, <3>2, <3>3, <3>4
  <2>4. CASE StartServer \/ StopServer
    <3>1. exchange'.handler = "none"
      BY <2>4, StartStopEffect DEF StartServer, StopServer, Inv
    <3> QED
      BY <2>2, <3>1
  <2>5. ASSUME NEW m, Deliver(m) PROVE exchange'.handler # "doGetAnalysis"
    BY <2>5, DeliveryIsNoAnswer DEF Deliver
  <2>6. ASSUME NEW m, Refuse(m) \/ Lose(m) PROVE UNCHANGED serverVars
    BY <2>6 DEF Refuse, Lose, Drop
  <2>7. UNCHANGED vars => UNCHANGED serverVars
    BY DEF vars
  <2> HIDE DEF Given
  <2> QED
    BY <2>1, <2>2, <2>3, <2>4, <2>5, <2>6, <2>7, ClientLeavesServer DEF Next
<1> HIDE DEF Given
<1> QED
  BY <1>1, <1>2, <1>3, Invariance, PTL DEF Spec
----------------------------------------------------------------------------
(***************************************************************************)
(* What somebody learns who decrypts some of the documents.                *)
(***************************************************************************)
LEMMA Listed ==
  ASSUME NEW S, IsFiniteSet(S)
  PROVE  /\ SetToSeq(S) \in [1 .. Cardinality(S) -> S]
         /\ Cardinality(S) \in Nat
<1>1. Cardinality(S) \in Nat /\ ExistsBijection(1 .. Cardinality(S), S)
  BY FS_CardinalityType
<1>2. \E f \in [1 .. Cardinality(S) -> S] : IsInjective(f)
  BY <1>1 DEF ExistsBijection, Bijection, Injection, IsInjective
<1> QED
  BY <1>1, <1>2 DEF SetToSeq

(***************************************************************************)
(* Whatever was lost, late, killed or restarted, no fewer than BatchSize   *)
(* of the documents that the server has stored decrypt to a number         *)
(* (README.md:44, dmcfe_encryptor.cpp:91-113).                             *)
(***************************************************************************)
THEOREM DataStaysHidden == Spec => []IndividualDataStaysHidden
<1>1. Inv => IndividualDataStaysHidden
  <2> SUFFICES ASSUME Inv, NEW l \in DOMAIN ClearData,
                      NEW D \in SUBSET DOMAIN mParticipantsAnalyticsDataList,
                      NEW ds,
                      ds = SetToSeq({mParticipantsAnalyticsDataList[k] : k \in D}),
                      ds # <<>>, Len(ds) < BatchSize,
                      NEW ciphers, NEW fdKeys,
                      fdKeys = [k \in DOMAIN ds |-> Joined(ds[k].fdKey)[1]],
                      NEW o \in cfe_dmcfe_decrypt(ciphers, fdKeys, BatchSize,
                                                  l, Bound)
               PROVE  o.value = Unpredictable
    BY DEF IndividualDataStaysHidden
  <2> DEFINE list == mParticipantsAnalyticsDataList
             S == {list[k] : k \in D}
  <2>1. IsFiniteSet(S)
    <3>1. DOMAIN list = 1 .. Len(list) /\ Len(list) \in Nat
      BY ServerType DEF Inv, ServerFacts
    <3>2. IsFiniteSet(D)
      <4>1. IsFiniteSet(1 .. Len(list)) /\ D \in SUBSET (1 .. Len(list))
        BY <3>1, FS_Interval
      <4> QED
        BY <4>1, FS_Subset
    <3>3. [k \in D |-> list[k]] \in Surjection(D, S)
      BY DEF Surjection
    <3> HIDE DEF S
    <3> QED
      BY <3>2, <3>3, FS_Surjection
  <2>2. /\ ds \in [1 .. Cardinality(S) -> S] /\ Cardinality(S) \in Nat
        /\ Len(ds) = Cardinality(S) /\ DOMAIN ds = 1 .. Len(ds)
        /\ DOMAIN ds # {}
    <3> HIDE DEF S
    <3>1. ds \in [1 .. Cardinality(S) -> S] /\ Cardinality(S) \in Nat
      BY <2>1, Listed DEF S
    <3>2. Len(ds) = Cardinality(S) /\ DOMAIN ds = 1 .. Cardinality(S)
      BY <3>1
    <3>3. Cardinality(S) # 0
      <4> SUFFICES ASSUME Cardinality(S) = 0 PROVE FALSE
        OBVIOUS
      <4>1. ds \in [1 .. 0 -> S]
        BY <3>1
      <4>2. ds = <<>>
        BY <4>1
      <4> QED
        BY <4>2
    <3>4. 1 \in 1 .. Cardinality(S)
      BY <3>1, <3>3
    <3> QED
      BY <3>1, <3>2, <3>4
  <2>3. ASSUME NEW k \in DOMAIN ds
        PROVE  /\ fdKeys[k].index \in Nat
               /\ Place[fdKeys[k].key] = fdKeys[k].index
               /\ DOMAIN fdKeys[k].peers = 1 .. BatchSize
               /\ \A j \in 1 .. BatchSize : Place[fdKeys[k].peers[j]] = j - 1
    <3>1. ds[k] \in S
      BY <2>2
    <3>2. PICK p : SubmittedBy(ds[k], p)
      BY <3>1, EverySubmitted
    <3> DEFINE part == getFunctionalDecryptionKey(core[p].encryptor)
    <3>3. /\ Joined(ds[k].fdKey)[1] = part
          /\ part.key = p /\ part.index = Place[p] /\ part.index \in Nat
          /\ part.peers \in [1 .. BatchSize -> Client]
          /\ \A j \in 1 .. BatchSize : Place[part.peers[j]] = j - 1
      BY <3>2, SubmittedDocument
    <3>4. fdKeys[k] = part
      BY <3>3
    <3> HIDE DEF part
    <3> QED
      BY <3>3, <3>4
  <2>4. DOMAIN fdKeys = 1 .. Len(ds) /\ IsFiniteSet(DOMAIN fdKeys)
          /\ Cardinality(DOMAIN fdKeys) = Len(ds)
    <3>1. DOMAIN fdKeys = 1 .. Len(ds) /\ Len(ds) \in Nat
      BY <2>2
    <3> QED
      BY <3>1, FS_Interval
  <2>5. Placed(fdKeys, BatchSize, Place)
    BY <2>2, <2>3, <2>4 DEF Placed
  <2>6. ~MasksCancel(fdKeys)
    <3>1. BatchSize \in Nat
      BY ServerAssumptions
    <3>2. DOMAIN fdKeys # {} /\ Cardinality(DOMAIN fdKeys) < BatchSize
      BY <2>2, <2>4
    <3> QED
      BY ONLY <2>5, <3>1, <3>2, FewerNeverCancel
  <2>7. cfe_dmcfe_decrypt(ciphers, fdKeys, BatchSize, l, Bound)
          \subseteq {NotFound, Stray}
    BY <2>6 DEF cfe_dmcfe_decrypt
  <2>8. o \in {NotFound, Stray}
    BY <2>7
  <2> QED
    BY <2>8 DEF NotFound, Stray
<1> QED
  BY <1>1, Invariance, PTL

----------------------------------------------------------------------------
(***************************************************************************)
(* Clients, network and server implement SecureSum while one server        *)
(* process lives: the client that submits releases its key part for the    *)
(* group whose keys it was given, the analysis of all documents reveals    *)
(* the sum over this group, and every other step of the server makes the   *)
(* number of the last answer forgotten.                                    *)
(***************************************************************************)
\* The state of SecureSum, as ImplementsSecureSum reads it off.
Group == UNION {Range(Peers(p)) : p \in Sharing}
Learnt == IF AnswerGiven /\ InIndexOrder(mParticipantsAnalyticsDataList)
            THEN Answer ELSE NoData

LEMMA PromiseSteps ==
  /\ Promise!Init <=> Group = {} /\ Sharing = {} /\ Learnt = NoData
  /\ \A p, G : Promise!Release(p, G)
       <=> /\ p \in G \ Sharing
           /\ Cardinality(G) = BatchSize
           /\ Group \in {{}, G}
           /\ Group' = G /\ Sharing' = Sharing \cup {p} /\ Learnt' = Learnt
  /\ Promise!Total = [l \in DOMAIN ClearData |-> Cardinality(Group) * ClearData[l]]
  /\ Promise!Reveal
       <=> /\ Group # {} /\ Sharing = Group /\ Learnt' = Promise!Total
           /\ Group' = Group /\ Sharing' = Sharing
  /\ Promise!Forget
       <=> Learnt' = NoData /\ Group' = Group /\ Sharing' = Sharing
  /\ UNCHANGED Promise!vars
       <=> Group' = Group /\ Sharing' = Sharing /\ Learnt' = Learnt
<1>1. Promise!Init <=> Group = {} /\ Sharing = {} /\ Learnt = NoData
  BY DEF Promise!Init, Group, Learnt
<1>2. ASSUME NEW p, NEW G
      PROVE  Promise!Release(p, G)
               <=> /\ p \in G \ Sharing
                   /\ Cardinality(G) = BatchSize
                   /\ Group \in {{}, G}
                   /\ Group' = G
                   /\ Sharing' = Sharing \cup {p}
                   /\ Learnt' = Learnt
  BY DEF Promise!Release, Group, Learnt, Promise!Cardinality, Cardinality
<1>3. Promise!Total = [l \in DOMAIN ClearData |-> Cardinality(Group) * ClearData[l]]
  BY DEF Promise!Total, Group, Promise!Cardinality, Cardinality
<1>4. Promise!Reveal
       <=> /\ Group # {} /\ Sharing = Group /\ Learnt' = Promise!Total
           /\ Group' = Group /\ Sharing' = Sharing
  BY DEF Promise!Reveal, Group, Learnt
<1>5. Promise!Forget
       <=> Learnt' = NoData /\ Group' = Group /\ Sharing' = Sharing
  BY DEF Promise!Forget, Group, Learnt
<1>6. UNCHANGED Promise!vars
       <=> Group' = Group /\ Sharing' = Sharing /\ Learnt' = Learnt
  BY DEF Promise!vars, Group, Learnt
<1> QED
  BY <1>1, <1>2, <1>3, <1>4, <1>5, <1>6

----------------------------------------------------------------------------
\* The clients with a share, and the lists they have.
LEMMA SharingIs ==
  /\ Sharing = {p \in Client : Shared(core, p)}
  /\ \A p : Peers(p) = core[p].encryptor.peers
  BY DEF Sharing, Initialized, Uninitialized, Shared, Ready, Peers

LEMMA SharingIsAfter ==
  /\ Sharing' = {p \in Client : Shared(core', p)}
  /\ \A p : Peers(p)' = core'[p].encryptor.peers
  BY DEF Sharing, Initialized, Uninitialized, Shared, Ready, Peers

LEMMA SameShares ==
  ASSUME \A p \in Client : Shared(core', p) <=> Shared(core, p),
         \A p \in Client : Shared(core, p) => core'[p] = core[p]
  PROVE  Sharing' = Sharing /\ Group' = Group
<1>1. Sharing' = Sharing
  BY SharingIs, SharingIsAfter
<1>2. \A p \in Sharing : core'[p].encryptor.peers = core[p].encryptor.peers
  BY SharingIs
<1>3. Group' = UNION {Range(core'[p].encryptor.peers) : p \in Sharing'}
  BY DEF Group, Peers
<1>4. Group = UNION {Range(core[p].encryptor.peers) : p \in Sharing}
  BY DEF Group, Peers
<1>5. {Range(core'[p].encryptor.peers) : p \in Sharing}
        = {Range(core[p].encryptor.peers) : p \in Sharing}
  BY <1>2
<1> QED
  BY <1>1, <1>3, <1>4, <1>5

LEMMA SameLearnt == UNCHANGED serverVars => Learnt' = Learnt
  BY DEF serverVars, Learnt, AnswerGiven, Answer, Server!FirstReply,
         InIndexOrder

\* A list of keys that are at different places.
LEMMA GroupSize ==
  ASSUME NEW c, NEW keys, GenuineKeys(c, keys)
  PROVE  Cardinality(Range(keys)) = BatchSize /\ Range(keys) \in SUBSET Client
<1>1. /\ keys \in [1 .. BatchSize -> Client]
      /\ \A k \in 1 .. BatchSize : c[keys[k]].encryptor.index = k - 1
      /\ BatchSize \in Nat
  BY ServerAssumptions DEF GenuineKeys
<1>2. keys \in Surjection(1 .. BatchSize, Range(keys))
  BY <1>1 DEF Surjection, Range
<1>3. keys \in Injection(1 .. BatchSize, Range(keys))
  <2>1. ASSUME NEW j \in 1 .. BatchSize, NEW k \in 1 .. BatchSize,
               keys[j] = keys[k]
        PROVE  j = k
    <3>1. j - 1 = k - 1
      BY <1>1, <2>1
    <3> QED
      BY <3>1
  <2>2. IsInjective(keys)
    BY <1>1, <2>1 DEF IsInjective
  <2> QED
    BY <1>2, <2>1, <2>2 DEF Injection, Surjection
<1>4. IsFiniteSet(1 .. BatchSize) /\ Cardinality(1 .. BatchSize) = BatchSize
  BY <1>1, FS_Interval
<1>5. Cardinality(Range(keys)) = BatchSize
  BY <1>2, <1>3, <1>4, FS_Surjection
<1>6. Range(keys) \subseteq Client
  BY <1>1 DEF Range
<1> QED
  BY <1>5, <1>6

\* While one server process lives, all clients with a share have one list, and
\* find themselves in it.
LEMMA OneGroup ==
  ASSUME Inv, EpochInv, starts <= 1, NEW p \in Client, Shared(core, p)
  PROVE  LET keys == core[p].encryptor.peers
             index == core[p].encryptor.index
         IN  /\ GenuineKeys(core, keys)
             /\ index + 1 \in 1 .. BatchSize
             /\ keys[index + 1] = p
             /\ \A q \in Client :
                  Shared(core, q) => core[q].encryptor.peers = keys
<1> DEFINE keys == core[p].encryptor.peers
<1>1. ASSUME NEW q \in Client, Shared(core, q)
      PROVE  /\ GenuineKeys(core, core[q].encryptor.peers)
             /\ core[q].encryptor.peers \in KeysHeld(core, q, pc[q], replies[q])
  BY <1>1 DEF Inv, ClientsInv, CoreInv, GenuineKeys, KeysHeld
<1>2. keys \in KeysHeld(core, p, pc[p], replies[p])
  BY <1>1
<1> HIDE DEF keys
<1>3. /\ core[p].encryptor.index + 1 \in 1 .. BatchSize
      /\ keys[core[p].encryptor.index + 1] = p
      /\ \A q \in Client : KeysHeld(core, q, pc[q], replies[q]) \subseteq {keys}
  BY <1>2 DEF EpochInv, KeysInv
<1>4. \A q \in Client : Shared(core, q) => core[q].encryptor.peers = keys
  BY <1>1, <1>3
<1> QED
  BY <1>1, <1>3, <1>4 DEF keys

LEMMA GroupIs ==
  ASSUME Inv, EpochInv, starts <= 1, NEW p \in Client, Shared(core, p)
  PROVE  Group = Range(core[p].encryptor.peers)
<1>1. \A q \in Sharing : Peers(q) = core[p].encryptor.peers
  BY OneGroup, SharingIs
<1>2. p \in Sharing
  BY SharingIs
<1>3. {Range(Peers(q)) : q \in Sharing} = {Range(core[p].encryptor.peers)}
  BY <1>1, <1>2
<1> QED
  BY <1>3 DEF Group

\* The same after a step.
Alike(p) ==
  /\ GenuineKeys(core, core[p].encryptor.peers)
  /\ core[p].encryptor.index + 1 \in 1 .. BatchSize
  /\ core[p].encryptor.peers[core[p].encryptor.index + 1] = p
  /\ \A q \in Client :
       Shared(core, q) => core[q].encryptor.peers = core[p].encryptor.peers
  /\ Group = Range(core[p].encryptor.peers)

LEMMA AllAlike ==
  Inv /\ EpochInv /\ starts <= 1
    => \A p \in Client : Shared(core, p) => Alike(p)
  BY OneGroup, GroupIs DEF Alike

LEMMA AllAlikeAfter ==
  Inv' /\ EpochInv' /\ starts' <= 1
    => \A p \in Client : Shared(core', p) => Alike(p)'
<1>1. (\A p \in Client : Shared(core, p) => Alike(p))'
        => \A p \in Client : Shared(core', p) => Alike(p)'
  BY DEF Shared, Ready
<1>2. (Inv /\ EpochInv /\ starts <= 1)'
        => (\A p \in Client : Shared(core, p) => Alike(p))'
  BY AllAlike, PTL
<1> QED
  BY <1>1, <1>2

LEMMA OneGroupAfter ==
  ASSUME Inv', EpochInv', starts' <= 1, NEW p \in Client, Shared(core', p)
  PROVE  /\ GenuineKeys(core', core'[p].encryptor.peers)
         /\ core'[p].encryptor.index + 1 \in 1 .. BatchSize
         /\ core'[p].encryptor.peers[core'[p].encryptor.index + 1] = p
         /\ \A q \in Client :
              Shared(core', q)
                => core'[q].encryptor.peers = core'[p].encryptor.peers
         /\ Group' = Range(core'[p].encryptor.peers)
<1>1. Alike(p)'
  BY AllAlikeAfter
<1> QED
  BY <1>1 DEF Alike, GenuineKeys, Shared, Ready

----------------------------------------------------------------------------
\* The client that submits releases its key part.
LEMMA SubmitReleases ==
  ASSUME Inv, EpochInv, Inv', EpochInv', starts' <= 1,
         NEW p \in Client, Submit(p)
  PROVE  \E G \in SUBSET Client : Promise!Release(p, G)
<1> DEFINE G == Range(core'[p].encryptor.peers)
<1>1. /\ ~Shared(core, p)
      /\ \A q \in Client \ {p} : core'[q] = core[q]
      /\ UNCHANGED serverVars
  <2>1. /\ ~Shared(core, p) /\ Invoke(p, "analyticsdata",
                                      getEncryptedAnalyticsData(core'[p]))
        /\ core' = [core EXCEPT ![p] =
                      [encryptor |-> [core[p].encryptor EXCEPT
                                        !.peers = PubKeyList(replies[p].list)],
                       data |-> ClearData]]
    BY SharedCore
  <2> QED
    BY <2>1 DEF Invoke, Inv, StateType
<1>2. Shared(core', p)
  <2>1. pc'[p] = "analyticsdata"
    BY SharedCore DEF Invoke, Inv, StateType
  <2> QED
    BY <2>1 DEF Inv, ClientsInv, PlaceInv
<1>3. /\ GenuineKeys(core', core'[p].encryptor.peers)
      /\ core'[p].encryptor.index + 1 \in 1 .. BatchSize
      /\ core'[p].encryptor.peers[core'[p].encryptor.index + 1] = p
      /\ \A q \in Client :
           Shared(core', q) => core'[q].encryptor.peers = core'[p].encryptor.peers
      /\ Group' = G
  BY <1>2, OneGroupAfter
<1>4. Cardinality(G) = BatchSize /\ G \in SUBSET Client
  BY <1>3, GroupSize
<1>5. p \in G
  BY <1>3 DEF Range, GenuineKeys
<1>6. Sharing' = Sharing \cup {p} /\ p \notin Sharing
  BY <1>1, <1>2, SharingIs, SharingIsAfter DEF Shared, Ready
<1>7. Group \in {{}, G}
  <2>1. ASSUME NEW q \in Sharing PROVE Range(Peers(q)) = G
    <3>1. q \in Client /\ q # p /\ Shared(core, q)
      BY <1>1, SharingIs
    <3>2. Shared(core', q) /\ core'[q].encryptor.peers = Peers(q)
      BY <1>1, <3>1, SharingIs DEF Shared, Ready
    <3> QED
      BY <1>3, <3>1, <3>2
  <2> HIDE DEF G
  <2> QED
    BY <2>1 DEF Group
<1>8. Learnt' = Learnt
  BY <1>1, SameLearnt
<1> HIDE DEF G
<1>9. Promise!Release(p, G)
  BY <1>3, <1>4, <1>5, <1>6, <1>7, <1>8, PromiseSteps DEF G
<1> QED
  BY <1>4, <1>9

----------------------------------------------------------------------------
\* All of the group, and nobody else, has released when the sum comes out.
LEMMA AllReleased ==
  ASSUME Inv, EpochInv, starts <= 1,
         Len(mParticipantsAnalyticsDataList) = BatchSize,
         InIndexOrder(mParticipantsAnalyticsDataList),
         Mutual(mParticipantsAnalyticsDataList)
  PROVE  Group # {} /\ Sharing = Group /\ Cardinality(Group) = BatchSize
<1> DEFINE ds == mParticipantsAnalyticsDataList
           from == [k \in 1 .. BatchSize |-> CHOOSE p : SubmittedBy(ds[k], p)]
<1>1. BatchSize \in Nat \ {0} /\ DOMAIN ds = 1 .. BatchSize
  BY ServerAssumptions, ServerType DEF Inv, ServerFacts
<1>2. ASSUME NEW k \in 1 .. BatchSize PROVE SubmittedBy(ds[k], from[k])
  BY <1>1, EverySubmitted
<1> HIDE DEF from
<1>3. ASSUME NEW k \in 1 .. BatchSize
      PROVE  /\ from[k] \in Client /\ Shared(core, from[k])
             /\ Joined(ds[k].fdKey)[1].key = from[k]
             /\ Joined(ds[k].fdKey)[1].peers = core[from[k]].encryptor.peers
             /\ core[from[k]].encryptor.index = k - 1
  <2>1. from[k] \in Client /\ Shared(core, from[k])
    BY <1>2 DEF SubmittedBy
  <2> DEFINE part == getFunctionalDecryptionKey(core[from[k]].encryptor)
  <2>2. /\ ds[k].index = Place[from[k]]
        /\ Joined(ds[k].fdKey)[1] = part
        /\ part.key = from[k]
    BY <1>2, SubmittedDocument
  <2>3. part.peers = core[from[k]].encryptor.peers
    BY DEF getFunctionalDecryptionKey
  <2>4. core[from[k]].encryptor.index = k - 1
    BY <1>1, <2>1, <2>2 DEF InIndexOrder, Place
  <2> HIDE DEF part
  <2> QED
    BY <2>1, <2>2, <2>3, <2>4
<1> DEFINE keys == core[from[1]].encryptor.peers
<1>4. 1 \in 1 .. BatchSize
  BY <1>1
<1>5. /\ GenuineKeys(core, keys)
      /\ keys[1] = from[1]
      /\ \A q \in Client : Shared(core, q) => core[q].encryptor.peers = keys
      /\ Group = Range(keys)
  <2>1. from[1] \in Client /\ Shared(core, from[1])
          /\ core[from[1]].encryptor.index + 1 = 1
    BY <1>3, <1>4
  <2> QED
    BY <2>1, OneGroup, GroupIs
<1>6. Cardinality(Group) = BatchSize
  BY <1>5, GroupSize
<1>7. ASSUME NEW j \in 1 .. BatchSize PROVE keys[j] = from[j]
  <2>1. CASE j = 1
    BY <1>5, <2>1
  <2>2. CASE j # 1
    <3>1. Joined(ds[1].fdKey)[1].peers[j] = Joined(ds[j].fdKey)[1].key
      BY <1>1, <1>4, <2>2 DEF Mutual
    <3> QED
      BY <1>3, <1>4, <3>1
  <2> QED
    BY <2>1, <2>2
<1> HIDE DEF keys, ds
<1>8. DOMAIN keys = 1 .. BatchSize
  BY <1>5 DEF GenuineKeys
<1>9. Group = {from[j] : j \in 1 .. BatchSize}
  BY <1>5, <1>7, <1>8 DEF Range
<1>10. Group \subseteq Sharing
  BY <1>3, <1>9, SharingIs
<1>11. ASSUME NEW q \in Sharing PROVE q \in Group
  <2>1. q \in Client /\ Shared(core, q) /\ core[q].encryptor.peers = keys
    BY <1>5, SharingIs
  <2>2. /\ core[q].encryptor.index + 1 \in 1 .. BatchSize
        /\ core[q].encryptor.peers[core[q].encryptor.index + 1] = q
    BY <2>1, OneGroup
  <2> QED
    BY <1>5, <1>8, <2>1, <2>2 DEF Range
<1>12. Group # {}
  BY <1>4, <1>9
<1> QED
  BY <1>6, <1>10, <1>11, <1>12

LEMMA AskReveals ==
  ASSUME Inv, EpochInv, starts <= 1, Ask
  PROVE  Promise!Reveal \/ Promise!Forget
<1>1. UNCHANGED core
  BY DEF Ask, clientVars
<1>2. Sharing' = Sharing /\ Group' = Group
  BY <1>1, SameShares DEF Shared, Ready
<1>3. CASE AnswerGiven' /\ InIndexOrder(mParticipantsAnalyticsDataList')
  <2>1. /\ Answer' = ExpectedSum
        /\ Len(mParticipantsAnalyticsDataList') = BatchSize
        /\ Mutual(mParticipantsAnalyticsDataList')
    BY <1>3, AskedAnswer
  <2>2. UNCHANGED mParticipantsAnalyticsDataList
    BY <1>3, AnswerFromAnalysis DEF Ask
  <2>3. Group # {} /\ Sharing = Group /\ Cardinality(Group) = BatchSize
    BY <1>3, <2>1, <2>2, AllReleased
  <2>4. Learnt' = Answer'
    BY <1>3 DEF Learnt, InIndexOrder
  <2>5. Promise!Total = ExpectedSum
    BY <2>3, PromiseSteps DEF ExpectedSum
  <2> QED
    BY <1>2, <2>1, <2>3, <2>4, <2>5, PromiseSteps
<1>4. CASE ~(AnswerGiven' /\ InIndexOrder(mParticipantsAnalyticsDataList'))
  <2>1. Learnt' = NoData
    BY <1>4 DEF Learnt, InIndexOrder
  <2> QED
    BY <1>2, <2>1, PromiseSteps
<1> QED
  BY <1>3, <1>4

\* A step of the server that answers somebody else.
LEMMA OtherServerStep ==
  ASSUME UNCHANGED core, exchange'.handler # "doGetAnalysis"
  PROVE  Promise!Forget
<1>1. Sharing' = Sharing /\ Group' = Group
  BY SameShares DEF Shared, Ready
<1>2. Learnt' = NoData
  BY DEF Learnt, AnswerGiven
<1> QED
  BY <1>1, <1>2, PromiseSteps

\* Every other step of a client.
LEMMA OtherClientStep ==
  ASSUME Inv, NEW p \in Client, ClientStep(p) \/ Kill(p), ~Submit(p)
  PROVE  UNCHANGED Promise!vars
<1>1. UNCHANGED serverVars
  BY ClientLeavesServer
<1>2. Sharing' = Sharing /\ Group' = Group
  <2>1. CASE PublishKey(p)
    <3>1. /\ ~Ready(core, p) /\ ~Shared(core', p)
          /\ \A q \in Client \ {p} : core'[q] = core[q]
      BY <2>1, SchemeCore
    <3> QED
      BY <3>1, SameShares DEF Shared, Ready
  <2>2. CASE UNCHANGED core
    BY <2>2, SameShares DEF Shared, Ready
  <2> QED
    BY <2>1, <2>2 DEF ClientStep, Launch, FetchScheme, Sleep, WakeUp, Exit,
                      Abort, Fail, Kill, GoTo
<1> QED
  BY <1>1, <1>2, SameLearnt, PromiseSteps

LEMMA InitPromise == Init => Promise!Init
<1> SUFFICES ASSUME Init PROVE Promise!Init
  OBVIOUS
<1>1. \A p \in Client : core[p].encryptor = nullptr
  BY DEF Init, NewCore
<1>2. Sharing = {}
  BY <1>1, SharingIs DEF Shared, Ready
<1>3. Group = {}
  BY <1>2 DEF Group
<1>4. Learnt = NoData
  BY DEF Init, Learnt, AnswerGiven, Server!NoExchange
<1> QED
  BY <1>2, <1>3, <1>4, PromiseSteps

LEMMA StepPromise ==
  ASSUME Inv, EpochInv, starts <= 1, Inv', EpochInv', starts' <= 1, [Next]_vars
  PROVE  [Promise!Next]_(Promise!vars)
<1>1. ASSUME NEW p \in Client, ClientStep(p) \/ Kill(p)
      PROVE  [Promise!Next]_(Promise!vars)
  <2>1. CASE Submit(p)
    BY <2>1, SubmitReleases DEF Promise!Next
  <2>2. CASE ~Submit(p)
    BY <1>1, <2>2, OtherClientStep
  <2> QED
    BY <2>1, <2>2
<1>2. CASE Ask
  BY <1>2, AskReveals DEF Promise!Next
<1>3. ASSUME NEW m, Deliver(m) PROVE Promise!Next
  BY <1>3, DeliveryIsNoAnswer, OtherServerStep
     DEF Deliver, clientVars, Promise!Next
<1>4. CASE StartServer \/ StopServer
  <2>1. exchange'.handler = "none"
    BY <1>4, StartStopEffect DEF StartServer, StopServer, Inv
  <2>2. UNCHANGED core
    BY <1>4 DEF StartServer, StopServer, clientVars
  <2> QED
    BY <2>1, <2>2, OtherServerStep DEF Promise!Next
<1>5. CASE UNCHANGED <<serverVars, core>>
  <2>1. UNCHANGED serverVars /\ UNCHANGED core
    BY <1>5
  <2>2. Sharing' = Sharing /\ Group' = Group
    BY <2>1, SameShares DEF Shared, Ready
  <2> QED
    BY <2>1, <2>2, SameLearnt, PromiseSteps
<1>6. ASSUME NEW m, Refuse(m) \/ Lose(m) PROVE UNCHANGED <<serverVars, core>>
  BY <1>6 DEF Refuse, Lose, Drop, clientVars
<1>7. UNCHANGED vars => UNCHANGED <<serverVars, core>>
  BY DEF vars, clientVars
<1> QED
  BY <1>1, <1>2, <1>3, <1>4, <1>5, <1>6, <1>7 DEF Next

(***************************************************************************)
(* While one server process lives, the system implements SecureSum: the    *)
(* clients that release a key part are members of one group of BatchSize   *)
(* clients, which the first of them settles, and the sum comes out only    *)
(* when all of this group have released (README.md:44).                    *)
(***************************************************************************)
THEOREM Refinement == Spec /\ [](starts <= 1) => ImplementsSecureSum
<1> DEFINE First == starts <= 1
<1>1. Inv /\ EpochInv /\ First /\ (Inv /\ EpochInv /\ First)' /\ [Next]_vars
        => [Promise!Next]_(Promise!vars)
  BY StepPromise
<1> HIDE DEF First
<1>2. Spec /\ []First => ImplementsSecureSum
  BY <1>1, InitPromise, Invariance, EpochInvariance, PTL
     DEF Spec, ImplementsSecureSum, Promise!Spec
<1> QED
  BY <1>2 DEF First
==============================================================================
