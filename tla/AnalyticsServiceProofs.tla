----------------------- MODULE AnalyticsServiceProofs -----------------------
(***************************************************************************)
(* What holds of the server for every number of clients, every batch size  *)
(* and every sequence of requests.                                         *)
(*                                                                         *)
(* The inductive invariant is Inv.  IndexIsPosition and ClientIdsDistinct  *)
(* carry each other through a registration: the appended participant gets  *)
(* participantsIndex, which is the next position.  FiledUnderOwnIndex is   *)
(* kept because a document is filed where its index is found.              *)
(***************************************************************************)
EXTENDS AnalyticsServiceProperties, SequenceTheorems, TLAPS

Inv == TypeOK /\ RegistryInv

----------------------------------------------------------------------------
\* Init establishes the invariant.
LEMMA InitInv == Init => Inv
  BY DEF Init, Inv, TypeOK, RegistryInv, IndexIsPosition, ClientIdsDistinct,
         FiledUnderOwnIndex, LostWithProcess

\* So does every way of losing the registry.
LEMMA EmptyInv ==
  ASSUME EmptyRegistry, serving' \in BOOLEAN
  PROVE  Inv'
  BY DEF EmptyRegistry, Inv, TypeOK, RegistryInv, IndexIsPosition,
         ClientIdsDistinct, FiledUnderOwnIndex, LostWithProcess

\* A handler that only reads keeps the invariant.
LEMMA ReadOnlyInv ==
  ASSUME Inv, UNCHANGED <<serving, participants, participantsIndex,
                          mParticipantsAnalyticsDataList>>
  PROVE  Inv'
  BY DEF Inv, TypeOK, RegistryInv, IndexIsPosition, ClientIdsDistinct,
         FiledUnderOwnIndex, LostWithProcess

\* Registration appends a participant whose index is the next position and
\* whose client id is new.
LEMMA RegisterInv ==
  ASSUME NEW c \in ClientId \cup {Malformed}, Inv, doRegisterParticipant(c)
  PROVE  Inv'
<1>1. CASE c = Malformed \/ FirstOfClient(c) # {}
  <2>1. UNCHANGED <<serving, participants, participantsIndex,
                    mParticipantsAnalyticsDataList>>
    BY <1>1 DEF doRegisterParticipant
  <2> QED
    BY <2>1, ReadOnlyInv
<1>2. CASE c # Malformed /\ FirstOfClient(c) = {}
  <2> DEFINE new == Participant(c, participantsIndex)
  <2>1. /\ participantsIndex' = participantsIndex + 1
        /\ participants' = Append(participants, new)
        /\ UNCHANGED <<serving, mParticipantsAnalyticsDataList>>
    BY <1>2 DEF doRegisterParticipant, Add
  <2>2. new \in ParticipantType
    BY <1>2 DEF Participant, ParticipantType, Inv, TypeOK
  <2>3. TypeOK'
    BY <2>1, <2>2 DEF Inv, TypeOK
  <2>4. IndexIsPosition'
    BY <2>1 DEF Inv, TypeOK, RegistryInv, IndexIsPosition, Participant
  <2>5. \A k \in DOMAIN participants : participants[k].clientId # c
    BY <1>2 DEF Inv, TypeOK, RegistryInv, ClientIdsDistinct, FirstOfClient
  <2>6. ClientIdsDistinct'
    BY <2>1, <2>5 DEF Inv, TypeOK, RegistryInv, ClientIdsDistinct, Participant
  <2>7. FiledUnderOwnIndex'
    BY <2>1 DEF Inv, TypeOK, RegistryInv, FiledUnderOwnIndex, Participant
  <2>8. LostWithProcess'
    BY <2>1 DEF doRegisterParticipant, LostWithProcess
  <2> QED
    BY <2>3, <2>4, <2>6, <2>7, <2>8 DEF Inv, RegistryInv
<1> QED
  BY <1>1, <1>2

\* Public data is filed under the index it carries.
LEMMA RecordPublicDataInv ==
  ASSUME NEW body \in PublicBody \cup {Malformed}, Inv,
         doRecordParticipantsPublicData(body)
  PROVE  Inv'
<1>1. CASE UNCHANGED participants
  BY <1>1, ReadOnlyInv DEF doRecordParticipantsPublicData
<1>2. CASE body # Malformed /\ FirstOfIndex(body.index) # {}
  <2>1. PICK k \in FirstOfIndex(body.index) :
          participants' = [participants EXCEPT ![k].publicData = body]
    BY <1>2 DEF doRecordParticipantsPublicData
  <2>2. k \in DOMAIN participants /\ participants[k].index = body.index
    BY <2>1 DEF FirstOfIndex
  <2>3. UNCHANGED <<serving, participantsIndex, mParticipantsAnalyticsDataList>>
    BY DEF doRecordParticipantsPublicData
  <2>4. TypeOK'
    <3> DEFINE p == [participants[k] EXCEPT !.publicData = body]
    <3>1. participants[k] \in ParticipantType
      BY <2>2 DEF Inv, TypeOK
    <3>2. p \in ParticipantType
      BY <1>2, <3>1 DEF ParticipantType
    <3>3. participants' = [participants EXCEPT ![k] = p]
      BY <2>1
    <3> HIDE DEF p
    <3>4. participants' \in Seq(ParticipantType)
      BY <2>2, <3>2, <3>3, ExceptSeq DEF Inv, TypeOK
    <3> QED
      BY <1>2, <2>3, <3>4 DEF Inv, TypeOK
  <2>5. IndexIsPosition' /\ ClientIdsDistinct'
    BY <2>1, <2>2, <2>3
       DEF Inv, TypeOK, ParticipantType, RegistryInv, IndexIsPosition,
           ClientIdsDistinct
  <2>6. FiledUnderOwnIndex'
    BY <2>1, <2>2 DEF Inv, TypeOK, ParticipantType, RegistryInv,
                      FiledUnderOwnIndex
  <2>7. LostWithProcess'
    BY <2>3 DEF doRecordParticipantsPublicData, LostWithProcess
  <2> QED
    BY <2>4, <2>5, <2>6, <2>7 DEF Inv, RegistryInv
<1> QED
  BY <1>1, <1>2 DEF doRecordParticipantsPublicData

\* So is an analytics data document, which also joins the list.
LEMMA RecordAnalyticsDataInv ==
  ASSUME NEW body \in AnalyticsBody \cup {Malformed}, Inv,
         doRecordAnalyticsData(body)
  PROVE  Inv'
<1>1. CASE UNCHANGED <<participants, mParticipantsAnalyticsDataList>>
  BY <1>1, ReadOnlyInv DEF doRecordAnalyticsData
<1>2. CASE body # Malformed /\ FirstOfIndex(body.index) # {}
  <2>1. PICK k \in FirstOfIndex(body.index) :
          participants' = [participants EXCEPT ![k].analyticsData = body]
    BY <1>2 DEF doRecordAnalyticsData
  <2>2. k \in DOMAIN participants /\ participants[k].index = body.index
    BY <2>1 DEF FirstOfIndex
  <2>3. /\ UNCHANGED <<serving, participantsIndex>>
        /\ mParticipantsAnalyticsDataList'
             = Append(mParticipantsAnalyticsDataList, body)
    BY <1>2 DEF doRecordAnalyticsData, Stored
  <2>4. TypeOK'
    <3> DEFINE p == [participants[k] EXCEPT !.analyticsData = body]
    <3>1. participants[k] \in ParticipantType
      BY <2>2 DEF Inv, TypeOK
    <3>2. p \in ParticipantType
      BY <1>2, <3>1 DEF ParticipantType
    <3>3. participants' = [participants EXCEPT ![k] = p]
      BY <2>1
    <3> HIDE DEF p
    <3>4. participants' \in Seq(ParticipantType)
      BY <2>2, <3>2, <3>3, ExceptSeq DEF Inv, TypeOK
    <3> QED
      BY <1>2, <2>3, <3>4 DEF Inv, TypeOK
  <2>5. IndexIsPosition' /\ ClientIdsDistinct'
    BY <2>1, <2>2, <2>3
       DEF Inv, TypeOK, ParticipantType, RegistryInv, IndexIsPosition,
           ClientIdsDistinct
  <2>6. FiledUnderOwnIndex'
    BY <2>1, <2>2 DEF Inv, TypeOK, ParticipantType, RegistryInv,
                      FiledUnderOwnIndex
  <2>7. LostWithProcess'
    BY <2>3 DEF doRecordAnalyticsData, LostWithProcess
  <2> QED
    BY <2>4, <2>5, <2>6, <2>7 DEF Inv, RegistryInv
<1> QED
  BY <1>1, <1>2 DEF doRecordAnalyticsData

\* Every step keeps the invariant.
LEMMA NextInv == Inv /\ [Next]_vars => Inv'
<1> SUFFICES ASSUME Inv, [Next]_vars PROVE Inv'
  OBVIOUS
<1>1. ASSUME NEW c \in ClientId \cup {Malformed}, doRegisterParticipant(c)
      PROVE  Inv'
  BY <1>1, RegisterInv
<1>2. ASSUME NEW i \in (0 .. BatchSize) \cup {Malformed}, doGetAnalyticsSchemeParams(i)
      PROVE  Inv'
  BY <1>2, ReadOnlyInv DEF doGetAnalyticsSchemeParams
<1>3. ASSUME NEW b \in PublicBody \cup {Malformed},
             doRecordParticipantsPublicData(b)
      PROVE  Inv'
  BY <1>3, RecordPublicDataInv
<1>4. CASE doGetParticipantsPublicData
  BY <1>4, ReadOnlyInv DEF doGetParticipantsPublicData
<1>5. ASSUME NEW b \in AnalyticsBody \cup {Malformed}, doRecordAnalyticsData(b)
      PROVE  Inv'
  BY <1>5, RecordAnalyticsDataInv
<1>6. CASE doGetAnalysis
  <2>1. \/ EmptyRegistry /\ serving' = FALSE
        \/ UNCHANGED <<serving, participants, participantsIndex,
                       mParticipantsAnalyticsDataList>>
    BY <1>6 DEF doGetAnalysis
  <2> QED
    BY <2>1, EmptyInv, ReadOnlyInv
<1>7. CASE Start \/ Stop
  BY <1>7, EmptyInv DEF Start, Stop
<1>8. CASE UNCHANGED vars
  BY <1>8, ReadOnlyInv DEF vars
<1> QED
  BY <1>1, <1>2, <1>3, <1>4, <1>5, <1>6, <1>7, <1>8 DEF Next

----------------------------------------------------------------------------
(***************************************************************************)
(* Type correctness and the registry invariant (main.cpp:75-257).          *)
(***************************************************************************)
THEOREM Invariance == Spec => []Inv
<1> QED
  BY InitInv, NextInv, PTL DEF Spec

THEOREM RegistryCorrect == Spec => [](TypeOK /\ RegistryInv)
<1>1. Inv => TypeOK /\ RegistryInv
  BY DEF Inv
<1> QED
  BY <1>1, Invariance, PTL

(***************************************************************************)
(* Type correctness by itself: the registry holds participants and the     *)
(* list documents, whatever is posted (main.cpp:16-37, 245-253).           *)
(***************************************************************************)
THEOREM ServiceTypeCorrect == Spec => []TypeOK
<1>1. Inv => TypeOK
  BY DEF Inv
<1> QED
  BY <1>1, Invariance, PTL

----------------------------------------------------------------------------
\* What SendTo records.
LEMMA SendRecords ==
  ASSUME NEW client, NEW handler, NEW replies, SendTo(client, handler, replies)
  PROVE  exchange'.handler = handler /\ exchange'.sent = replies
  BY DEF SendTo

\* Every step is one of a handler that leaves its name in the exchange, or a
\* start or a stop.
LEMMA HandlerSigns ==
  ASSUME Next
  PROVE  \/ doGetParticipantsPublicData
         \/ doGetAnalysis
         \/ \E c \in ClientId \cup {Malformed} :
              /\ doRegisterParticipant(c)
              /\ exchange'.handler = "doRegisterParticipant"
         \/ exchange'.handler \notin {"doGetParticipantsPublicData",
                                     "doGetAnalysis", "doRegisterParticipant"}
<1>1. ASSUME NEW c \in ClientId \cup {Malformed}, doRegisterParticipant(c)
      PROVE  exchange'.handler = "doRegisterParticipant"
  BY <1>1, SendRecords DEF doRegisterParticipant
<1>2. ASSUME NEW i \in (0 .. BatchSize) \cup {Malformed}, doGetAnalyticsSchemeParams(i)
      PROVE  exchange'.handler = "doGetAnalyticsSchemeParams"
  BY <1>2, SendRecords DEF doGetAnalyticsSchemeParams, Send
<1>3. ASSUME NEW b \in PublicBody \cup {Malformed},
             doRecordParticipantsPublicData(b)
      PROVE  exchange'.handler = "doRecordParticipantsPublicData"
  BY <1>3, SendRecords DEF doRecordParticipantsPublicData, Send
<1>4. ASSUME NEW b \in AnalyticsBody \cup {Malformed}, doRecordAnalyticsData(b)
      PROVE  exchange'.handler = "doRecordAnalyticsData"
  BY <1>4, SendRecords DEF doRecordAnalyticsData, Send
<1>5. ASSUME Start \/ Stop PROVE exchange'.handler = "none"
  BY <1>5 DEF Start, Stop, NoExchange
<1> QED
  BY <1>1, <1>2, <1>3, <1>4, <1>5 DEF Next

\* The two reading handlers sign differently.
LEMMA ReadersSign ==
  /\ doGetParticipantsPublicData
       => exchange'.handler = "doGetParticipantsPublicData"
  /\ doGetAnalysis => exchange'.handler = "doGetAnalysis"
  BY SendRecords DEF doGetParticipantsPublicData, doGetAnalysis, Send

\* What doGetParticipantsPublicData sends first is usable if it is a list.
LEMMA SentListUsable ==
  ASSUME Inv, doGetParticipantsPublicData
  PROVE  PublicDataListUsable'
<1>1. CASE ~BatchIsFull
  <2>1. exchange'.sent[1] = NotEnough
    BY <1>1 DEF doGetParticipantsPublicData, Send, SendTo, RefusalIfNotEnough
  <2>2. NotEnough.code # "Ok"
    BY DEF NotEnough, ServerError
  <2> QED
    BY <2>1, <2>2 DEF PublicDataListUsable, FirstReply
<1>2. CASE BatchIsFull /\ SerializedPublicData # PublicDataList(AllPublicData)
  <2>1. SerializedPublicData = ServerError("parse error")
    BY <1>2 DEF SerializedPublicData
  <2>2. exchange'.sent[1] = SerializedPublicData
    BY <1>2, SendRecords DEF doGetParticipantsPublicData, Send, RefusalIfNotEnough
  <2>3. ServerError("parse error").code # "Ok"
    BY DEF ServerError
  <2> QED
    BY <2>1, <2>2, <2>3 DEF PublicDataListUsable, FirstReply
<1>3. CASE BatchIsFull /\ SerializedPublicData = PublicDataList(AllPublicData)
  <2>1. \A k \in DOMAIN participants : participants[k].publicData # NoData
    BY <1>3 DEF SerializedPublicData, ServerError, PublicDataList
  <2>2. exchange'.sent[1] = PublicDataList(AllPublicData)
    BY <1>3 DEF doGetParticipantsPublicData, Send, SendTo, RefusalIfNotEnough
  <2>3. FirstReply'.list = AllPublicData
    BY <2>2 DEF FirstReply, PublicDataList
  <2>4. Len(participants) = BatchSize
    BY <1>3 DEF BatchIsFull, Inv, RegistryInv, IndexIsPosition
  <2>5. AllPublicData = [k \in 1 .. BatchSize |-> participants[k].publicData]
    BY <2>4 DEF AllPublicData, Inv, TypeOK
  <2>6. Len(AllPublicData) = BatchSize
    BY <2>5, BatchSizeAssumption
  <2>7. \A k \in 1 .. BatchSize : AllPublicData[k].index = k - 1
    BY <2>1, <2>4, <2>5
       DEF Inv, TypeOK, RegistryInv, IndexIsPosition, FiledUnderOwnIndex
  <2> QED
    BY <2>3, <2>6, <2>7 DEF PublicDataListUsable
<1> QED
  BY <1>1, <1>2, <1>3

(***************************************************************************)
(* Every list of public data a client takes for an answer (main.cpp:166-   *)
(* 183) is complete and in index order.  The guard makes it complete, and  *)
(* the registry invariant says that a complete registry has its entries in *)
(* index order, each with public data of its own index.                    *)
(***************************************************************************)
THEOREM ListsUsable == Spec => []PublicDataListUsable
<1>1. Init => PublicDataListUsable
  BY DEF Init, NoExchange, PublicDataListUsable
<1>2. Inv /\ PublicDataListUsable /\ [Next]_vars => PublicDataListUsable'
  <2> SUFFICES ASSUME Inv, PublicDataListUsable, [Next]_vars
               PROVE  PublicDataListUsable'
    OBVIOUS
  <2>1. CASE doGetParticipantsPublicData
    BY <2>1, SentListUsable
  <2>2. CASE exchange'.handler # "doGetParticipantsPublicData"
    BY <2>2 DEF PublicDataListUsable
  <2>3. CASE UNCHANGED vars
    BY <2>3 DEF vars, PublicDataListUsable, FirstReply
  <2>4. doGetAnalysis => exchange'.handler # "doGetParticipantsPublicData"
    BY ReadersSign
  <2> QED
    BY <2>1, <2>2, <2>3, <2>4, HandlerSigns
<1> QED
  BY <1>1, <1>2, Invariance, PTL DEF Spec

----------------------------------------------------------------------------
\* A refusal comes before whatever else is sent.
LEMMA RefusalFirst ==
  ASSUME NEW reply
  PROVE  /\ BatchIsFull => (RefusalIfFull \o <<reply>>)[1].code
                              = "Internal_Server_Error"
         /\ ~BatchIsFull => (RefusalIfFull \o <<reply>>)[1] = reply
<1>1. CASE BatchIsFull
  <2>1. RefusalIfFull = <<ServerError("batch is full")>>
    BY <1>1 DEF RefusalIfFull
  <2>2. ServerError("batch is full").code = "Internal_Server_Error"
    BY DEF ServerError
  <2>3. ASSUME NEW refusal PROVE (<<refusal>> \o <<reply>>)[1] = refusal
    OBVIOUS
  <2> QED
    BY <1>1, <2>1, <2>2, <2>3
<1>2. CASE ~BatchIsFull
  <2>1. RefusalIfFull = <<>>
    BY <1>2 DEF RefusalIfFull
  <2>2. (RefusalIfFull \o <<reply>>)[1] = reply
    BY <2>1
  <2> QED
    BY <1>2, <2>2
<1> QED
  BY <1>1, <1>2

\* A registration, new or repeated, is acknowledged with the client's own index,
\* unless something else is sent first.
LEMMA RegistrationAcks ==
  ASSUME NEW c \in ClientId \cup {Malformed}, Inv, doRegisterParticipant(c)
  PROVE  AckCarriesOwnIndex'
<1> DEFINE Says(reply) ==
      SendTo(c, "doRegisterParticipant", RefusalIfFull \o <<reply>>)
<1>1. ASSUME NEW reply, Says(reply)
      PROVE  /\ exchange'.client = c
             /\ FirstReply'.code \in {"Created", "Ok"} => FirstReply' = reply
  <2>1. /\ exchange'.client = c
        /\ FirstReply' = (RefusalIfFull \o <<reply>>)[1]
    BY <1>1 DEF SendTo, FirstReply
  <2> QED
    BY <2>1, RefusalFirst
<1>2. CASE Says(BadRequest)
  <2>1. BadRequest.code \notin {"Created", "Ok"}
    BY DEF BadRequest
  <2> QED
    BY <1>1, <1>2, <2>1 DEF AckCarriesOwnIndex
<1>3. CASE Add(c) /\ Says(Created(participantsIndex))
  <2>1. /\ Len(participants) + 1 \in DOMAIN participants'
        /\ participants'[Len(participants) + 1]
             = Participant(c, participantsIndex)
    BY <1>3 DEF Add, Inv, TypeOK
  <2>2. Created(participantsIndex).regId = participantsIndex
    BY DEF Created
  <2>3. /\ Participant(c, participantsIndex).clientId = c
        /\ Participant(c, participantsIndex).index = participantsIndex
    BY DEF Participant
  <2> QED
    BY <1>1, <1>3, <2>1, <2>2, <2>3 DEF AckCarriesOwnIndex
<1>4. ASSUME NEW k \in FirstOfClient(c), Says(Registered(participants[k].index)),
             UNCHANGED participants
      PROVE  AckCarriesOwnIndex'
  <2>1. k \in DOMAIN participants /\ participants[k].clientId = c
    BY DEF FirstOfClient
  <2>2. Registered(participants[k].index).regId = participants[k].index
    BY DEF Registered
  <2> QED
    BY <1>1, <1>4, <2>1, <2>2 DEF AckCarriesOwnIndex
<1> QED
  BY <1>2, <1>3, <1>4 DEF doRegisterParticipant

(***************************************************************************)
(* A client that is answered with an index (main.cpp:92-98) is in the      *)
(* registry under this index.  With RegistryCorrect: no two clients are    *)
(* ever told the same one while the process lives.                         *)
(***************************************************************************)
THEOREM OwnIndexAcknowledged == Spec => []AckCarriesOwnIndex
<1>1. Init => AckCarriesOwnIndex
  BY DEF Init, NoExchange, AckCarriesOwnIndex
<1>2. Inv /\ AckCarriesOwnIndex /\ [Next]_vars => AckCarriesOwnIndex'
  <2> SUFFICES ASSUME Inv, AckCarriesOwnIndex, [Next]_vars
               PROVE  AckCarriesOwnIndex'
    OBVIOUS
  <2>1. CASE UNCHANGED vars
    BY <2>1 DEF vars, AckCarriesOwnIndex, FirstReply
  <2>2. CASE Next /\ exchange'.handler = "doRegisterParticipant"
    BY <2>2, HandlerSigns, ReadersSign, RegistrationAcks
  <2>3. CASE exchange'.handler # "doRegisterParticipant"
    BY <2>3 DEF AckCarriesOwnIndex
  <2> QED
    BY <2>1, <2>2, <2>3
<1> QED
  BY <1>1, <1>2, Invariance, PTL DEF Spec

----------------------------------------------------------------------------
\* A list is a prefix of itself and of what is appended to it.
LEMMA PrefixOfAppend ==
  ASSUME NEW S, NEW s \in Seq(S), NEW e \in S
  PROVE  IsPrefix(s, s) /\ IsPrefix(s, Append(s, e))
<1>1. SubSeq(Append(s, e), 1, Len(s)) = SubSeq(s, 1, Len(s))
  OBVIOUS
<1> QED
  BY <1>1 DEF IsPrefix

\* Whatever a handler does while the process lives, the registered
\* participants keep their client ids, indexes and published data.
LEMMA StepWithdrawsNothing ==
  ASSUME Inv, Next, serving, serving'
  PROVE  /\ Len(participants) <= Len(participants')
         /\ \A k \in DOMAIN participants :
              /\ participants'[k].clientId = participants[k].clientId
              /\ participants'[k].index = participants[k].index
              /\ participants[k].publicData # NoData
                   => participants'[k].publicData # NoData
         /\ IsPrefix(mParticipantsAnalyticsDataList,
                     mParticipantsAnalyticsDataList')
<1> DEFINE Kept ==
      /\ Len(participants) <= Len(participants')
      /\ \A k \in DOMAIN participants :
           /\ participants'[k].clientId = participants[k].clientId
           /\ participants'[k].index = participants[k].index
           /\ participants[k].publicData # NoData
                => participants'[k].publicData # NoData
<1> SUFFICES Kept /\ IsPrefix(mParticipantsAnalyticsDataList,
                              mParticipantsAnalyticsDataList')
  OBVIOUS
<1>1. ASSUME UNCHANGED mParticipantsAnalyticsDataList
      PROVE  IsPrefix(mParticipantsAnalyticsDataList,
                      mParticipantsAnalyticsDataList')
  BY <1>1 DEF IsPrefix
<1>2. ASSUME UNCHANGED participants PROVE Kept
  BY <1>2 DEF Inv, TypeOK
<1>3. ASSUME NEW c \in ClientId \cup {Malformed}, doRegisterParticipant(c)
      PROVE  Kept /\ UNCHANGED mParticipantsAnalyticsDataList
  <2>1. \/ UNCHANGED participants
        \/ participants' = Append(participants, Participant(c, participantsIndex))
    BY <1>3 DEF doRegisterParticipant, Add
  <2>2. UNCHANGED mParticipantsAnalyticsDataList
    BY <1>3 DEF doRegisterParticipant
  <2> QED
    BY <1>2, <2>1, <2>2 DEF Inv, TypeOK
<1>4. ASSUME NEW b \in PublicBody \cup {Malformed},
             doRecordParticipantsPublicData(b)
      PROVE  Kept /\ UNCHANGED mParticipantsAnalyticsDataList
  <2>1. \/ UNCHANGED participants
        \/ /\ b \in PublicBody
           /\ \E k \in DOMAIN participants :
                participants' = [participants EXCEPT ![k].publicData = b]
    BY <1>4 DEF doRecordParticipantsPublicData, FirstOfIndex
  <2>2. UNCHANGED mParticipantsAnalyticsDataList
    BY <1>4 DEF doRecordParticipantsPublicData
  <2>3. ASSUME b \in PublicBody, NEW k \in DOMAIN participants,
               participants' = [participants EXCEPT ![k].publicData = b]
        PROVE  Kept
    BY <2>3, BodyAssumption DEF Inv, TypeOK, ParticipantType
  <2> QED
    BY <1>2, <2>1, <2>2, <2>3
<1>5. ASSUME NEW b \in AnalyticsBody \cup {Malformed}, doRecordAnalyticsData(b)
      PROVE  Kept /\ IsPrefix(mParticipantsAnalyticsDataList,
                              mParticipantsAnalyticsDataList')
  <2>1. \/ UNCHANGED <<participants, mParticipantsAnalyticsDataList>>
        \/ /\ b \in AnalyticsBody
           /\ \E k \in DOMAIN participants :
                participants' = [participants EXCEPT ![k].analyticsData = b]
           /\ mParticipantsAnalyticsDataList'
                = Append(mParticipantsAnalyticsDataList, b)
    BY <1>5 DEF doRecordAnalyticsData, FirstOfIndex, Stored
  <2>2. ASSUME NEW k \in DOMAIN participants,
               participants' = [participants EXCEPT ![k].analyticsData = b]
        PROVE  Kept
    BY <2>2 DEF Inv, TypeOK, ParticipantType
  <2>3. ASSUME b \in AnalyticsBody,
               mParticipantsAnalyticsDataList'
                 = Append(mParticipantsAnalyticsDataList, b)
        PROVE  IsPrefix(mParticipantsAnalyticsDataList,
                        mParticipantsAnalyticsDataList')
    BY <2>3, PrefixOfAppend DEF Inv, TypeOK
  <2> HIDE DEF Kept
  <2> QED
    BY <1>1, <1>2, <2>1, <2>2, <2>3
<1>6. ASSUME \/ \E i \in (0 .. BatchSize) \cup {Malformed} : doGetAnalyticsSchemeParams(i)
             \/ doGetParticipantsPublicData
             \/ doGetAnalysis
      PROVE  UNCHANGED <<participants, mParticipantsAnalyticsDataList>>
  BY <1>6 DEF doGetAnalyticsSchemeParams, doGetParticipantsPublicData,
              doGetAnalysis
<1>7. ~Start /\ ~Stop
  BY DEF Start, Stop
<1> HIDE DEF Kept
<1> QED
  BY <1>1, <1>2, <1>3, <1>4, <1>5, <1>6, <1>7 DEF Next

(***************************************************************************)
(* While the process lives nothing is taken back (main.cpp:75-214).        *)
(***************************************************************************)
THEOREM Persistence == Spec => NothingWithdrawn
<1> DEFINE Step ==
      (serving /\ serving') =>
        /\ Len(participants) <= Len(participants')
        /\ \A k \in DOMAIN participants :
             /\ participants'[k].clientId = participants[k].clientId
             /\ participants'[k].index = participants[k].index
             /\ participants[k].publicData # NoData
                  => participants'[k].publicData # NoData
        /\ IsPrefix(mParticipantsAnalyticsDataList,
                    mParticipantsAnalyticsDataList')
<1>1. Inv /\ [Next]_vars => [Step]_vars
  BY StepWithdrawsNothing
<1> QED
  BY <1>1, Invariance, PTL DEF Spec, NothingWithdrawn

----------------------------------------------------------------------------
\* An overfull registry stays overfull until the process ends.
LEMMA StaysOverfull ==
  ASSUME Inv, Next, participantsIndex > BatchSize, serving'
  PROVE  participantsIndex' > BatchSize
<1>1. ASSUME NEW c \in ClientId \cup {Malformed}, doRegisterParticipant(c)
      PROVE  participantsIndex' \in {participantsIndex, participantsIndex + 1}
  BY <1>1 DEF doRegisterParticipant, Add
<1>2. ASSUME \/ \E i \in (0 .. BatchSize) \cup {Malformed} : doGetAnalyticsSchemeParams(i)
             \/ \E b \in PublicBody \cup {Malformed} :
                  doRecordParticipantsPublicData(b)
             \/ doGetParticipantsPublicData
             \/ \E b \in AnalyticsBody \cup {Malformed} :
                  doRecordAnalyticsData(b)
             \/ doGetAnalysis
      PROVE  UNCHANGED participantsIndex
  BY <1>2 DEF doGetAnalyticsSchemeParams, doRecordParticipantsPublicData,
              doGetParticipantsPublicData, doRecordAnalyticsData, doGetAnalysis
<1>3. participants # <<>> /\ ~Stop
  BY BatchSizeAssumption DEF Stop, Inv, TypeOK, RegistryInv, IndexIsPosition
<1>4. ~Start
  BY <1>3 DEF Start, Inv, RegistryInv, LostWithProcess
<1> QED
  BY <1>1, <1>2, <1>3, <1>4, BatchSizeAssumption DEF Next, Inv, TypeOK

\* With more participants than the batch has places both readers refuse first.
LEMMA OverfullRefuses ==
  ASSUME Inv, participantsIndex > BatchSize,
         doGetParticipantsPublicData \/ doGetAnalysis
  PROVE  exchange'.sent[1] = NotEnough
<1>1. ~BatchIsFull
  BY BatchSizeAssumption DEF BatchIsFull, Inv, TypeOK
<1>2. CASE doGetParticipantsPublicData
  <2>1. exchange'.sent = <<NotEnough>> \o <<SerializedPublicData>>
    BY <1>1, <1>2, SendRecords
       DEF doGetParticipantsPublicData, Send, RefusalIfNotEnough
  <2> QED
    BY <2>1
<1>3. CASE doGetAnalysis
  <2>1. exchange'.sent = <<NotEnough>>
    BY <1>1, <1>3, SendRecords DEF doGetAnalysis, Send, EnoughForAnalysis
  <2> QED
    BY <2>1
<1> QED
  BY <1>2, <1>3

(***************************************************************************)
(* The refusal that does not keep a client out (main.cpp:79-81) shuts the  *)
(* service for good: an overfull registry refuses every list and every     *)
(* analysis until the process ends.                                        *)
(***************************************************************************)
THEOREM Wedged == Spec => OverfullNeverServes
<1> DEFINE Step ==
      (participantsIndex > BatchSize /\ serving') =>
        /\ participantsIndex' > BatchSize
        /\ exchange'.handler \in {"doGetParticipantsPublicData", "doGetAnalysis"}
             => exchange'.sent[1] = NotEnough
<1>1. Inv /\ [Next]_vars => [Step]_vars
  BY StaysOverfull, HandlerSigns, OverfullRefuses
<1> QED
  BY <1>1, Invariance, PTL DEF Spec, OverfullNeverServes

----------------------------------------------------------------------------
(***************************************************************************)
(* The record and the list.  Every document in the list belongs to a       *)
(* registered participant, so a new participant finds none of its index.   *)
(***************************************************************************)
ListedAreRegistered ==
  \A j \in DOMAIN mParticipantsAnalyticsDataList :
    \E k \in DOMAIN participants :
      participants[k].index = mParticipantsAnalyticsDataList[j].index

RecordInv == Inv /\ ListedAreRegistered /\ RecordIsLatestArrival

\* A step that leaves registry and list alone, or empties them, keeps both.
LEMMA UntouchedRecords ==
  ASSUME ListedAreRegistered, RecordIsLatestArrival,
         \/ UNCHANGED <<participants, mParticipantsAnalyticsDataList>>
         \/ EmptyRegistry
  PROVE  ListedAreRegistered' /\ RecordIsLatestArrival'
<1>1. CASE UNCHANGED <<participants, mParticipantsAnalyticsDataList>>
  BY <1>1 DEF ListedAreRegistered, RecordIsLatestArrival
<1>2. CASE EmptyRegistry
  BY <1>2 DEF EmptyRegistry, ListedAreRegistered, RecordIsLatestArrival
<1> QED
  BY <1>1, <1>2

\* A new participant has nothing on record, and nothing in the list is its own.
LEMMA RegisterRecords ==
  ASSUME NEW c \in ClientId \cup {Malformed}, RecordInv,
         doRegisterParticipant(c)
  PROVE  ListedAreRegistered' /\ RecordIsLatestArrival'
<1>1. UNCHANGED mParticipantsAnalyticsDataList
  BY DEF doRegisterParticipant
<1>2. CASE UNCHANGED participants
  BY <1>1, <1>2, UntouchedRecords DEF RecordInv
<1>3. CASE Add(c)
  <2> DEFINE new == Participant(c, participantsIndex)
             n == Len(participants)
  <2>1. participants' = Append(participants, new) /\ n \in Nat
    BY <1>3 DEF Add, RecordInv, Inv, TypeOK
  <2>2. new.index = n /\ new.analyticsData = NoData
    BY DEF Participant, RecordInv, Inv, RegistryInv, IndexIsPosition
  <2>3. \A k \in DOMAIN participants :
          participants'[k] = participants[k] /\ participants[k].index # n
    BY <2>1 DEF RecordInv, Inv, TypeOK, RegistryInv, IndexIsPosition
  <2>4. /\ DOMAIN participants' = DOMAIN participants \cup {n + 1}
        /\ participants'[n + 1] = new
    BY <2>1 DEF RecordInv, Inv, TypeOK
  <2> HIDE DEF new, n
  <2>5. ListedAreRegistered'
    BY <1>1, <2>3, <2>4 DEF RecordInv, ListedAreRegistered
  <2>6. \A j \in DOMAIN mParticipantsAnalyticsDataList :
          mParticipantsAnalyticsDataList[j].index # n
    BY <2>3 DEF RecordInv, ListedAreRegistered
  <2>7. RecordIsLatestArrival'
    BY <1>1, <2>2, <2>3, <2>4, <2>6 DEF RecordInv, RecordIsLatestArrival
  <2> QED
    BY <2>5, <2>7
<1> QED
  BY <1>2, <1>3 DEF doRegisterParticipant

\* Public data is filed beside the analytics data.
LEMMA PublicDataRecords ==
  ASSUME NEW b \in PublicBody \cup {Malformed}, RecordInv,
         doRecordParticipantsPublicData(b)
  PROVE  ListedAreRegistered' /\ RecordIsLatestArrival'
<1>1. UNCHANGED mParticipantsAnalyticsDataList
  BY DEF doRecordParticipantsPublicData
<1>2. CASE UNCHANGED participants
  BY <1>1, <1>2, UntouchedRecords DEF RecordInv
<1>3. ASSUME NEW k \in DOMAIN participants,
             participants' = [participants EXCEPT ![k].publicData = b]
      PROVE  ListedAreRegistered' /\ RecordIsLatestArrival'
  <2>1. /\ DOMAIN participants' = DOMAIN participants
        /\ \A i \in DOMAIN participants :
             /\ participants'[i].index = participants[i].index
             /\ participants'[i].analyticsData = participants[i].analyticsData
    BY <1>3 DEF RecordInv, Inv, TypeOK, ParticipantType
  <2> QED
    BY <1>1, <2>1 DEF RecordInv, ListedAreRegistered, RecordIsLatestArrival
<1> QED
  BY <1>2, <1>3 DEF doRecordParticipantsPublicData, FirstOfIndex

\* The document that is appended is the one put on record.
LEMMA AnalyticsDataRecords ==
  ASSUME NEW b \in AnalyticsBody \cup {Malformed}, RecordInv,
         doRecordAnalyticsData(b)
  PROVE  ListedAreRegistered' /\ RecordIsLatestArrival'
<1> DEFINE list == mParticipantsAnalyticsDataList
<1>1. CASE UNCHANGED <<participants, mParticipantsAnalyticsDataList>>
  BY <1>1, UntouchedRecords DEF RecordInv
<1>2. ASSUME b \in AnalyticsBody,
             NEW k \in DOMAIN participants, participants[k].index = b.index,
             participants' = [participants EXCEPT ![k].analyticsData = b],
             list' = Append(list, b)
      PROVE  ListedAreRegistered' /\ RecordIsLatestArrival'
  <2> DEFINE n == Len(list)
  <2>1. /\ DOMAIN participants' = DOMAIN participants
        /\ \A i \in DOMAIN participants :
             /\ participants'[i].index = participants[i].index
             /\ participants'[i].analyticsData
                  = IF i = k THEN b ELSE participants[i].analyticsData
    BY <1>2 DEF RecordInv, Inv, TypeOK, ParticipantType
  <2>2. /\ n \in Nat
        /\ DOMAIN list = 1 .. n
        /\ DOMAIN list' = 1 .. (n + 1)
        /\ list'[n + 1] = b
        /\ \A j \in 1 .. n : list'[j] = list[j]
    BY <1>2 DEF RecordInv, Inv, TypeOK
  <2>3. \A i \in DOMAIN participants :
          participants[i].index = participants[k].index => i = k
    BY DEF RecordInv, Inv, TypeOK, RegistryInv, IndexIsPosition
  <2> HIDE DEF n, list
  <2>4. ListedAreRegistered'
    BY <1>2, <2>1, <2>2 DEF RecordInv, ListedAreRegistered, list
  <2>5. ASSUME NEW i \in DOMAIN participants
        PROVE  LET own == {j \in DOMAIN list' :
                             list'[j].index = participants'[i].index}
               IN  /\ own = {} => participants'[i].analyticsData = NoData
                   /\ \A j \in own : (\A m \in own : m <= j)
                        => participants'[i].analyticsData = list'[j]
    <3> DEFINE own == {j \in DOMAIN list' :
                         list'[j].index = participants'[i].index}
    <3>1. CASE i = k
      <4>0. participants'[i].index = b.index
        BY <1>2, <2>1, <3>1
      <4>1. n + 1 \in own /\ \A j \in own : j \in Nat /\ j <= n + 1
        BY <2>2, <4>0
      <4>2. ASSUME NEW j \in own, \A m \in own : m <= j PROVE j = n + 1
        BY <2>2, <4>1, <4>2
      <4> QED
        BY <2>1, <2>2, <3>1, <4>1, <4>2
    <3>2. CASE i # k
      <4>1. own = {j \in DOMAIN list : list[j].index = participants[i].index}
        BY <1>2, <2>1, <2>2, <2>3, <3>2
      <4> QED
        BY <2>1, <2>2, <3>2, <4>1 DEF RecordInv, RecordIsLatestArrival, list
    <3> QED
      BY <3>1, <3>2
  <2>6. RecordIsLatestArrival'
    BY <2>1, <2>5 DEF RecordIsLatestArrival, list
  <2> QED
    BY <2>4, <2>6
<1> QED
  BY <1>1, <1>2 DEF doRecordAnalyticsData, FirstOfIndex, Stored

\* Both together are inductive.
LEMMA RecordsKept == Spec => []RecordInv
<1>1. Init => RecordInv
  BY InitInv DEF Init, RecordInv, ListedAreRegistered, RecordIsLatestArrival
<1>2. RecordInv /\ [Next]_vars => RecordInv'
  <2> SUFFICES ASSUME RecordInv, [Next]_vars PROVE RecordInv'
    OBVIOUS
  <2>1. Inv'
    BY NextInv DEF RecordInv
  <2>2. CASE \/ \E i \in (0 .. BatchSize) \cup {Malformed} : doGetAnalyticsSchemeParams(i)
             \/ doGetParticipantsPublicData \/ doGetAnalysis
             \/ Start \/ Stop \/ UNCHANGED vars
    <3>1. \/ UNCHANGED <<participants, mParticipantsAnalyticsDataList>>
          \/ EmptyRegistry
      BY <2>2 DEF doGetAnalyticsSchemeParams, doGetParticipantsPublicData,
                  doGetAnalysis, Start, Stop, vars
    <3> QED
      BY <2>1, <3>1, UntouchedRecords DEF RecordInv
  <2> QED
    BY <2>1, <2>2, RegisterRecords, PublicDataRecords, AnalyticsDataRecords
       DEF Next, RecordInv
<1> QED
  BY <1>1, <1>2, PTL DEF Spec

(***************************************************************************)
(* The two copies of the documents agree (main.cpp:200-201): what a        *)
(* participant has on record is the last document under its index.         *)
(***************************************************************************)
THEOREM RecordsAgree == Spec => []RecordIsLatestArrival
<1>1. RecordInv => RecordIsLatestArrival
  BY DEF RecordInv
<1> QED
  BY <1>1, RecordsKept, PTL

----------------------------------------------------------------------------
\* While the process lives a list that cannot be answered stays so: it is left
\* alone, or becomes longer than the batch.
LEMMA StaysHopeless ==
  ASSUME RecordInv, Next, Hopeless, serving'
  PROVE  Hopeless'
<1>1. ASSUME UNCHANGED mParticipantsAnalyticsDataList PROVE Hopeless'
  BY <1>1 DEF Hopeless, Answerable
<1>2. ASSUME NEW b \in AnalyticsBody, mParticipantsAnalyticsDataList'
                 = Append(mParticipantsAnalyticsDataList, b)
      PROVE  Hopeless'
  <2>1. Len(mParticipantsAnalyticsDataList') > BatchSize
    BY <1>2, BatchSizeAssumption DEF Hopeless, RecordInv, Inv, TypeOK
  <2>2. Len(mParticipantsAnalyticsDataList') \in Nat
    BY <1>2 DEF RecordInv, Inv, TypeOK
  <2> QED
    BY <2>1, <2>2, BatchSizeAssumption DEF Hopeless, Answerable
<1>3. ASSUME NEW b \in AnalyticsBody \cup {Malformed}, doRecordAnalyticsData(b)
      PROVE  \/ UNCHANGED mParticipantsAnalyticsDataList
             \/ /\ b \in AnalyticsBody
                /\ mParticipantsAnalyticsDataList'
                     = Append(mParticipantsAnalyticsDataList, b)
  BY <1>3 DEF doRecordAnalyticsData, Stored
<1>4. ASSUME \/ \E c \in ClientId \cup {Malformed} : doRegisterParticipant(c)
             \/ \E i \in (0 .. BatchSize) \cup {Malformed} : doGetAnalyticsSchemeParams(i)
             \/ \E b \in PublicBody \cup {Malformed} :
                  doRecordParticipantsPublicData(b)
             \/ doGetParticipantsPublicData
             \/ doGetAnalysis
      PROVE  UNCHANGED mParticipantsAnalyticsDataList
  BY <1>4 DEF doRegisterParticipant, doGetAnalyticsSchemeParams,
              doRecordParticipantsPublicData, doGetParticipantsPublicData,
              doGetAnalysis
<1>5. ~Stop
  BY DEF Stop
<1>6. ~Start
  <2>1. mParticipantsAnalyticsDataList # <<>>
    BY BatchSizeAssumption DEF Hopeless, RecordInv, Inv, TypeOK
  <2>2. participants # <<>>
    BY <2>1 DEF RecordInv, ListedAreRegistered, Inv, TypeOK
  <2> QED
    BY <2>2 DEF Start, RecordInv, Inv, RegistryInv, LostWithProcess
<1> QED
  BY <1>1, <1>2, <1>3, <1>4, <1>5, <1>6 DEF Next

\* Its analysis is refused or fails.
LEMMA HopelessFails ==
  ASSUME Hopeless, doGetAnalysis, serving'
  PROVE  exchange'.sent[1].code # "Ok"
<1>1. CASE ~EnoughForAnalysis
  <2>1. exchange'.sent[1] = NotEnough
    BY <1>1 DEF doGetAnalysis, Send, SendTo
  <2>2. NotEnough.code # "Ok"
    BY DEF NotEnough, ServerError
  <2> QED
    BY <2>1, <2>2
<1>2. CASE EnoughForAnalysis
  <2>1. PICK analysis \in getInnerProductAnalysis(
                            mParticipantsAnalyticsDataList, BatchSize, Bound) :
          Send("doGetAnalysis", AnalysisReplies(analysis))
    BY <1>2 DEF doGetAnalysis
  <2>2. analysis.status # "kOk"
    BY <1>2, <2>1 DEF Hopeless, Answerable, EnoughForAnalysis
  <2>3. \/ exchange'.sent = <<ServerError("parse error")>>
        \/ exchange'.sent = <<ServerError("unknown error"),
                              Result(analysis.result)>>
    BY <2>1, <2>2, SendRecords DEF Send, AnalysisReplies
  <2>4. \/ exchange'.sent[1] = ServerError("parse error")
        \/ exchange'.sent[1] = ServerError("unknown error")
    <3>1. ASSUME NEW r, NEW s PROVE <<r>>[1] = r /\ <<r, s>>[1] = r
      OBVIOUS
    <3> QED
      BY <2>3, <3>1
  <2>5. ASSUME NEW text PROVE ServerError(text).code # "Ok"
    BY DEF ServerError
  <2> QED
    BY <2>4, <2>5
<1> QED
  BY <1>1, <1>2

(***************************************************************************)
(* Documents that do not fit together, or one too many, are final          *)
(* (main.cpp:201, 224), whatever getInnerProductAnalysis computes from     *)
(* other lists: nothing of its definition is used.                         *)
(***************************************************************************)
THEOREM HopelessForGood == Spec => FailureIsFinal
<1> DEFINE Step ==
      (Hopeless /\ serving') =>
        /\ Hopeless'
        /\ exchange'.handler = "doGetAnalysis"
             => exchange'.sent[1].code # "Ok"
<1>1. RecordInv /\ [Next]_vars => [Step]_vars
  <2> SUFFICES ASSUME RecordInv, Next, Hopeless, serving',
                      exchange'.handler = "doGetAnalysis"
               PROVE  exchange'.sent[1].code # "Ok"
    BY StaysHopeless
  <2> QED
    BY HandlerSigns, ReadersSign, HopelessFails
<1> QED
  BY <1>1, RecordsKept, PTL DEF Spec, FailureIsFinal
=============================================================================
