----------------------- MODULE AnalyticsAnswersProofs -----------------------
(***************************************************************************)
(* Every number the server gives is about everybody, whatever documents it *)
(* was sent, made with encryptors that hold a share or hold none.          *)
(*                                                                         *)
(* The guard of the handler asks for as many documents as the batch has    *)
(* participants.  That the documents are one of each, in index order, is   *)
(* due to the key parts: SumsAreOfGroups.                                  *)
(***************************************************************************)
EXTENDS AnalyticsAnswers, AnalyticsServiceProofs, GroupProofs

\* The list when an analysis is made.
LEMMA ListOfDocuments ==
  ASSUME TypeOK, EnoughForAnalysis
  PROVE  LET list == mParticipantsAnalyticsDataList
         IN  /\ IsBatch(list, BatchSize)
             /\ MadeByThese(list, BatchSize, Encryptors)
             /\ DOMAIN list = 1 .. BatchSize
<1> DEFINE list == mParticipantsAnalyticsDataList
<1>1. list \in Seq(AnalyticsBody) /\ Len(list) = BatchSize
  BY DEF TypeOK, EnoughForAnalysis
<1>2. DOMAIN list = 1 .. BatchSize /\ list = [k \in 1 .. BatchSize |-> list[k]]
  BY <1>1
<1>3. ASSUME NEW k \in 1 .. BatchSize
      PROVE  \E e \in Encryptors : MadeBy(e, list[k]) /\ list[k].index \in Nat
  <2>1. list[k] \in AnalyticsBody
    <3>1. k \in DOMAIN list
      BY <1>2
    <3> HIDE DEF list
    <3> QED
      BY <1>1, <3>1
  <2>2. PICK e \in Encryptors : MadeBy(e, list[k])
    BY <2>1, MakersAssumption DEF MakersAssumption
  <2>3. list[k].index \in Nat
    BY <2>2, MakersAssumption DEF MakersAssumption, NoKeyEarly, MadeBy
  <2> QED
    BY <2>2, <2>3
<1> HIDE DEF list
<1> QED
  BY <1>1, <1>2, <1>3 DEF IsBatch, MadeByThese, list

\* What a handler answers first with a number.
LEMMA NumberIsResult ==
  ASSUME doGetAnalysis, serving', exchange'.sent[1].code = "Ok"
  PROVE  /\ EnoughForAnalysis
         /\ UNCHANGED <<participants, mParticipantsAnalyticsDataList>>
         /\ \E analysis \in getInnerProductAnalysis(
                              mParticipantsAnalyticsDataList, BatchSize, Bound) :
              analysis.status = "kOk" /\ exchange'.sent[1].result = analysis.result
<1>1. ASSUME NEW text PROVE ServerError(text).code # "Ok"
  BY DEF ServerError
<1>2. ASSUME NEW r, NEW s PROVE <<r>>[1] = r /\ <<r, s>>[1] = r
  OBVIOUS
<1>3. CASE ~EnoughForAnalysis
  <2>1. exchange'.sent = <<NotEnough>>
    BY <1>3, SendRecords DEF doGetAnalysis, Send
  <2>2. exchange'.sent[1] = NotEnough
    BY <1>2, <2>1
  <2>3. NotEnough.code # "Ok"
    BY <1>1 DEF NotEnough
  <2> QED
    BY <2>2, <2>3
<1>4. CASE EnoughForAnalysis
  <2>1. PICK analysis \in getInnerProductAnalysis(
                            mParticipantsAnalyticsDataList, BatchSize, Bound) :
          /\ Send("doGetAnalysis", AnalysisReplies(analysis))
          /\ UNCHANGED <<participants, mParticipantsAnalyticsDataList>>
    BY <1>4 DEF doGetAnalysis
  <2>2. exchange'.sent = AnalysisReplies(analysis)
    BY <2>1, SendRecords DEF Send
  <2>3. analysis.status = "kOk"
    <3> SUFFICES ASSUME analysis.status # "kOk" PROVE FALSE
      OBVIOUS
    <3>1. \/ exchange'.sent = <<ServerError("parse error")>>
          \/ exchange'.sent = <<ServerError("unknown error"), Result(analysis.result)>>
      BY <2>2 DEF AnalysisReplies
    <3>2. CASE exchange'.sent = <<ServerError("parse error")>>
      <4>1. exchange'.sent[1] = ServerError("parse error")
        BY ONLY <1>2, <3>2
      <4> QED
        BY <1>1, <4>1
    <3>3. CASE exchange'.sent = <<ServerError("unknown error"), Result(analysis.result)>>
      <4>1. exchange'.sent[1] = ServerError("unknown error")
        BY ONLY <1>2, <3>3
      <4> QED
        BY <1>1, <4>1
    <3> QED
      BY <3>1, <3>2, <3>3
  <2>4. exchange'.sent = <<Result(analysis.result)>>
    BY <2>2, <2>3 DEF AnalysisReplies
  <2>5. exchange'.sent[1] = Result(analysis.result)
    BY <1>2, <2>4
  <2>6. exchange'.sent[1].result = analysis.result
    BY <2>5 DEF Result
  <2> QED
    BY <1>4, <2>1, <2>3, <2>6
<1> QED
  BY <1>3, <1>4

\* When the list is in index order, what is on record is what is in the list.
LEMMA RecordIsList ==
  ASSUME RecordInv, EnoughForAnalysis,
         \A k \in 1 .. BatchSize : mParticipantsAnalyticsDataList[k].index = k - 1
  PROVE  /\ Len(participants) = BatchSize
         /\ mParticipantsAnalyticsDataList
              = [k \in DOMAIN participants |-> participants[k].analyticsData]
<1> DEFINE list == mParticipantsAnalyticsDataList
<1>1. Len(participants) = BatchSize
  BY DEF EnoughForAnalysis, BatchIsFull, RecordInv, Inv, RegistryInv, IndexIsPosition
<1>2. DOMAIN participants = 1 .. BatchSize
  BY <1>1 DEF RecordInv, Inv, TypeOK
<1>3. /\ DOMAIN list = 1 .. BatchSize
      /\ list = [k \in 1 .. BatchSize |-> list[k]]
  BY DEF EnoughForAnalysis, RecordInv, Inv, TypeOK
<1>4. ASSUME NEW k \in 1 .. BatchSize
      PROVE  participants[k].analyticsData = list[k]
  <2> DEFINE own == {j \in DOMAIN list : list[j].index = participants[k].index}
  <2>1. participants[k].index = k - 1
    BY <1>2 DEF RecordInv, Inv, RegistryInv, IndexIsPosition
  <2>2. ASSUME NEW j \in 1 .. BatchSize, list[j].index = k - 1 PROVE j = k
    <3>1. j - 1 = k - 1
      BY <2>2
    <3> QED
      BY <3>1
  <2>3. own = {k}
    <3> HIDE DEF list
    <3>1. list[k].index = k - 1
      BY DEF list
    <3> QED
      BY <1>3, <2>1, <2>2, <3>1
  <2>4. \A j \in own : (\A i \in own : i <= j) => participants[k].analyticsData = list[j]
    BY <1>2 DEF RecordInv, RecordIsLatestArrival
  <2> HIDE DEF own, list
  <2> QED
    BY <2>3, <2>4
<1> HIDE DEF list
<1>5. list = [k \in DOMAIN participants |-> participants[k].analyticsData]
  BY <1>2, <1>3, <1>4
<1> QED
  BY <1>1, <1>5 DEF list

(***************************************************************************)
(* A number from GET /analysis counts every participant once, with the     *)
(* document on record (main.cpp:224-240): for every batch size, and        *)
(* whatever was sent in whatever order and repetition.                     *)
(***************************************************************************)
THEOREM NumbersCountEveryone == Spec => []AnswerCountsEveryone
<1>1. Init => AnswerCountsEveryone
  BY DEF Init, NoExchange, AnswerCountsEveryone
<1>2. RecordInv /\ AnswerCountsEveryone /\ [Next]_vars => AnswerCountsEveryone'
  <2> SUFFICES ASSUME RecordInv, AnswerCountsEveryone, [Next]_vars
               PROVE  AnswerCountsEveryone'
    OBVIOUS
  <2>1. CASE UNCHANGED vars
    BY <2>1 DEF vars, AnswerCountsEveryone, FirstReply
  <2>2. CASE exchange'.handler # "doGetAnalysis"
    BY <2>2 DEF AnswerCountsEveryone
  <2>3. CASE doGetAnalysis
    <3> SUFFICES ASSUME serving', exchange'.sent[1].code = "Ok",
                        NEW l \in DOMAIN exchange'.sent[1].result,
                        exchange'.sent[1].result[l] # Unpredictable
                 PROVE  /\ Len(participants') = BatchSize
                        /\ mParticipantsAnalyticsDataList'
                             = [k \in DOMAIN participants' |->
                                  participants'[k].analyticsData]
      BY DEF AnswerCountsEveryone, FirstReply
    <3>1. /\ EnoughForAnalysis
          /\ UNCHANGED <<participants, mParticipantsAnalyticsDataList>>
      BY <2>3, NumberIsResult
    <3>2. PICK a \in getInnerProductAnalysis(
                       mParticipantsAnalyticsDataList, BatchSize, Bound) :
            a.status = "kOk" /\ exchange'.sent[1].result = a.result
      BY <2>3, NumberIsResult
    <3>3. /\ IsBatch(mParticipantsAnalyticsDataList, BatchSize)
          /\ MadeByThese(mParticipantsAnalyticsDataList, BatchSize, Encryptors)
      BY <3>1, ListOfDocuments DEF RecordInv, Inv
    <3>4. BatchSize \in Nat /\ NoKeyEarly(Encryptors)
      BY BatchSizeAssumption, MakersAssumption DEF MakersAssumption
    <3>5. l \in DOMAIN a.result /\ a.result[l] # Unpredictable
      BY <3>2
    <3>6. \A k \in 1 .. BatchSize : mParticipantsAnalyticsDataList[k].index = k - 1
      BY <3>2, <3>3, <3>4, <3>5, SummedInOrder
    <3>7. /\ Len(participants) = BatchSize
          /\ mParticipantsAnalyticsDataList
               = [k \in DOMAIN participants |-> participants[k].analyticsData]
      BY <3>1, <3>6, RecordIsList
    <3> QED
      BY <3>1, <3>7
  <2>4. doGetParticipantsPublicData => exchange'.handler # "doGetAnalysis"
    BY ReadersSign
  <2> QED
    BY <2>1, <2>2, <2>3, <2>4, HandlerSigns
<1> QED
  BY <1>1, <1>2, RecordsKept, PTL DEF Spec
=============================================================================
