---------------------------- MODULE PrinsightProofs ----------------------------
(***************************************************************************)
(* What holds of clients, network and server together, for every number of *)
(* clients, every batch size and every loss, delay and death.              *)
(*                                                                         *)
(* Inv holds across restarts of the server.  It ties the documents, which  *)
(* are copied from a Core into a request, a registry, a reply and at last  *)
(* into another Core, to the Core they came from.  EpochInv holds while    *)
(* one server process lives: an index that is under way to a client is the *)
(* index under which the registry knows this client.                       *)
(***************************************************************************)
EXTENDS PrinsightProperties, InnerProductProofs, SequenceTheorems

Proofs == INSTANCE AnalyticsServiceProofs
            WITH ClientId <- Client, MaxSubmissions <- Cardinality(Client)

----------------------------------------------------------------------------
(***************************************************************************)
(* The server's part: what AnalyticsServiceProofs shows of its handlers,   *)
(* for the handlers that the system composes.                              *)
(***************************************************************************)
ServerInv == Proofs!Inv

LEMMA ServerAssumptions ==
  /\ NoData \notin PublicBody \cup AnalyticsBody
  /\ Malformed \notin Client \cup PublicBody \cup AnalyticsBody
  /\ BatchSize \in Nat \ {0}
  /\ ULongRange \in Nat \ {0}
  BY SystemAssumption, ULongAssumption DEF SystemAssumption, ULongAssumption

\* What the proofs below need of it.
ServerFacts ==
  /\ serving \in BOOLEAN
  /\ participants \in Seq(Proofs!ParticipantType)
  /\ DOMAIN participants = 1 .. Len(participants)
  /\ Len(participants) \in Nat
  /\ participantsIndex = Len(participants)
  /\ mParticipantsAnalyticsDataList \in Seq(AnalyticsBody)
  /\ \A k \in DOMAIN participants :
       /\ participants[k].index = k - 1
       /\ participants[k].clientId \in Client
       /\ participants[k].publicData \in PublicBody \cup {NoData}
       /\ participants[k].publicData # NoData
            => participants[k].publicData.index = k - 1
  /\ ~serving => participants = <<>>

LEMMA ServerType == ServerInv => ServerFacts
<1> SUFFICES ASSUME ServerInv PROVE ServerFacts
  OBVIOUS
<1>1. Proofs!TypeOK /\ Proofs!IndexIsPosition /\ Proofs!FiledUnderOwnIndex
        /\ Proofs!LostWithProcess
  BY DEF ServerInv, Proofs!Inv, Proofs!RegistryInv
<1>2. /\ participants \in Seq(Proofs!ParticipantType)
      /\ DOMAIN participants = 1 .. Len(participants)
      /\ Len(participants) \in Nat
  BY <1>1 DEF Proofs!TypeOK
<1>3. ASSUME NEW k \in DOMAIN participants
      PROVE  /\ participants[k].clientId \in Client
             /\ participants[k].publicData \in PublicBody \cup {NoData}
  <2>1. participants[k] \in Proofs!ParticipantType
    BY <1>2
  <2> QED
    BY <2>1 DEF Proofs!ParticipantType
<1>4. ASSUME NEW k \in DOMAIN participants
      PROVE  /\ participants[k].index = k - 1
             /\ participants[k].publicData # NoData
                  => participants[k].publicData.index = k - 1
  BY <1>1 DEF Proofs!IndexIsPosition, Proofs!FiledUnderOwnIndex
<1> QED
  BY <1>1, <1>2, <1>3, <1>4
     DEF ServerFacts, Proofs!TypeOK, Proofs!IndexIsPosition,
         Proofs!LostWithProcess

LEMMA ServerTypeAfter == ServerInv' => ServerFacts'
  BY ServerType, PTL

\* A client that registers is added, or it is in the registry already.
LEMMA RegisterEffect ==
  ASSUME NEW p \in Client, ServerInv, Server!doRegisterParticipant(p)
  PROVE  /\ Proofs!doRegisterParticipant(p)
         /\ ServerInv'
         /\ UNCHANGED <<serving, mParticipantsAnalyticsDataList>>
         /\ \/ UNCHANGED participants
            \/ participants' = Append(participants,
                                      Server!Participant(p, participantsIndex))
         /\ exchange'.handler = "doRegisterParticipant"
<1>1. Proofs!doRegisterParticipant(p)
  BY DEF Server!doRegisterParticipant, Proofs!doRegisterParticipant,
         Server!FirstOfClient, Proofs!FirstOfClient, Server!Add, Proofs!Add,
         Server!SendTo, Proofs!SendTo, Server!RefusalIfFull,
         Proofs!RefusalIfFull, Server!BatchIsFull, Proofs!BatchIsFull,
         Server!ServerError, Proofs!ServerError, Server!BadRequest,
         Proofs!BadRequest, Server!Created, Proofs!Created,
         Server!Registered, Proofs!Registered, Server!Participant,
         Proofs!Participant
<1>2. ServerInv'
  BY <1>1, Proofs!RegisterInv, ServerAssumptions DEF ServerInv
<1>3. UNCHANGED <<serving, mParticipantsAnalyticsDataList>>
  BY DEF Server!doRegisterParticipant
<1>4. \/ UNCHANGED participants
      \/ participants' = Append(participants,
                                Server!Participant(p, participantsIndex))
  BY DEF Server!doRegisterParticipant, Server!Add
<1>5. exchange'.handler = "doRegisterParticipant"
  <2>1. \E sent : Server!SendTo(p, "doRegisterParticipant", sent)
    BY DEF Server!doRegisterParticipant
  <2> QED
    BY <2>1 DEF Server!SendTo
<1> QED
  BY <1>1, <1>2, <1>3, <1>4, <1>5

\* The answer names the client's own place.
LEMMA RegisterReply ==
  ASSUME NEW p \in Client, ServerInv, Server!doRegisterParticipant(p),
         Succeeded(exchange'.sent[1])
  PROVE  LET index == exchange'.sent[1].regId
         IN  /\ index \in Nat
             /\ index + 1 \in DOMAIN participants'
             /\ participants'[index + 1].clientId = p
<1>1. Proofs!doRegisterParticipant(p) /\ ServerInv'
  BY RegisterEffect
<1>2. Proofs!AckCarriesOwnIndex'
  BY <1>1, Proofs!RegistrationAcks, ServerAssumptions DEF ServerInv
<1>3. exchange'.client = p /\ exchange'.handler = "doRegisterParticipant"
  <2>1. \E sent : Server!SendTo(p, "doRegisterParticipant", sent)
    BY DEF Server!doRegisterParticipant
  <2> QED
    BY <2>1 DEF Server!SendTo
<1>4. PICK k \in DOMAIN participants' :
        /\ participants'[k].clientId = p
        /\ exchange'.sent[1].regId = participants'[k].index
  BY <1>2, <1>3 DEF Proofs!AckCarriesOwnIndex, Proofs!FirstReply, Succeeded
<1>5. k \in Nat \ {0} /\ participants'[k].index = k - 1
  <2>1. /\ DOMAIN participants' = 1 .. Len(participants')
        /\ Len(participants') \in Nat
        /\ participants'[k].index = k - 1
    BY <1>1, ServerTypeAfter DEF ServerFacts
  <2> QED
    BY <2>1
<1> QED
  BY <1>4, <1>5

\* A handler that only reads, and a request that is refused.
LEMMA ReadOnlyEffect ==
  ASSUME ServerInv, UNCHANGED <<serving, participants, participantsIndex,
                                mParticipantsAnalyticsDataList>>
  PROVE  ServerInv'
  BY Proofs!ReadOnlyInv, ServerAssumptions DEF ServerInv

LEMMA EmptyEffect ==
  ASSUME ServerInv, Server!EmptyRegistry, serving' \in BOOLEAN
  PROVE  ServerInv'
<1>1. Proofs!EmptyRegistry
  BY DEF Server!EmptyRegistry, Proofs!EmptyRegistry
<1> QED
  BY <1>1, Proofs!EmptyInv, ServerAssumptions DEF ServerInv

\* The scheme names the index asked for, if it is somebody's.
LEMMA SchemeEffect ==
  ASSUME NEW index, ServerInv, Server!doGetAnalyticsSchemeParams(index)
  PROVE  /\ ServerInv'
         /\ UNCHANGED <<serving, participants, mParticipantsAnalyticsDataList>>
         /\ exchange'.handler = "doGetAnalyticsSchemeParams"
         /\ Succeeded(exchange'.sent[1])
              => /\ exchange'.sent[1].scheme.index = index
                 /\ exchange'.sent[1].scheme.participantsCount = BatchSize
<1>1. UNCHANGED <<serving, participants, participantsIndex,
                  mParticipantsAnalyticsDataList>>
  BY DEF Server!doGetAnalyticsSchemeParams
<1>2. CASE Server!Send("doGetAnalyticsSchemeParams", <<Server!NotRegistered>>)
  <2>1. /\ exchange'.handler = "doGetAnalyticsSchemeParams"
        /\ exchange'.sent[1].code = "Not_Found"
    BY <1>2 DEF Server!Send, Server!SendTo, Server!NotRegistered
  <2> QED
    BY <1>1, <2>1, ReadOnlyEffect DEF Succeeded
<1>3. ASSUME NEW k \in Server!FirstOfIndex(index),
             Server!Send("doGetAnalyticsSchemeParams",
               <<Server!Scheme([index |-> participants[k].index,
                                participantsCount |-> BatchSize,
                                bound |-> Bound])>>)
      PROVE  /\ exchange'.handler = "doGetAnalyticsSchemeParams"
             /\ exchange'.sent[1].scheme.index = index
             /\ exchange'.sent[1].scheme.participantsCount = BatchSize
  <2>1. participants[k].index = index
    BY DEF Server!FirstOfIndex
  <2> QED
    BY <1>3, <2>1 DEF Server!Send, Server!SendTo, Server!Scheme
<1>4. CASE Server!Send("doGetAnalyticsSchemeParams",
                       <<Server!ServerError("no number")>>)
  <2>1. /\ exchange'.handler = "doGetAnalyticsSchemeParams"
        /\ exchange'.sent[1].code = "Internal_Server_Error"
    BY <1>4 DEF Server!Send, Server!SendTo, Server!ServerError
  <2> QED
    BY <1>1, <2>1, ReadOnlyEffect DEF Succeeded
<1> QED
  BY <1>1, <1>2, <1>3, <1>4, ReadOnlyEffect DEF Server!doGetAnalyticsSchemeParams

\* Public data is filed where its index is found, or not at all.
LEMMA PublicDataEffect ==
  ASSUME NEW body \in PublicBody, ServerInv,
         Server!doRecordParticipantsPublicData(body)
  PROVE  /\ ServerInv'
         /\ UNCHANGED <<serving, mParticipantsAnalyticsDataList>>
         /\ exchange'.handler = "doRecordParticipantsPublicData"
         /\ Len(participants') = Len(participants)
         /\ \A k \in DOMAIN participants :
              /\ k \in DOMAIN participants'
              /\ participants'[k].clientId = participants[k].clientId
              /\ participants'[k].publicData
                   \in {participants[k].publicData, body}
<1>1. Proofs!doRecordParticipantsPublicData(body)
  BY DEF Server!doRecordParticipantsPublicData,
         Proofs!doRecordParticipantsPublicData, Server!FirstOfIndex,
         Proofs!FirstOfIndex, Server!Send, Proofs!Send, Server!SendTo,
         Proofs!SendTo, Server!BadRequest, Proofs!BadRequest,
         Server!NotRegistered, Proofs!NotRegistered, Server!Recorded,
         Proofs!Recorded
<1>2. ServerInv'
  BY <1>1, Proofs!RecordPublicDataInv, ServerAssumptions DEF ServerInv
<1>3. UNCHANGED <<serving, mParticipantsAnalyticsDataList>>
  BY DEF Server!doRecordParticipantsPublicData
<1>4. exchange'.handler = "doRecordParticipantsPublicData"
  <2>1. \E sent : Server!Send("doRecordParticipantsPublicData", sent)
    BY DEF Server!doRecordParticipantsPublicData
  <2> QED
    BY <2>1 DEF Server!Send, Server!SendTo
<1> DEFINE Filed ==
      /\ Len(participants') = Len(participants)
      /\ \A k \in DOMAIN participants :
           /\ k \in DOMAIN participants'
           /\ participants'[k].clientId = participants[k].clientId
           /\ participants'[k].publicData
                \in {participants[k].publicData, body}
<1>5. Filed
  <2>1. CASE UNCHANGED participants
    BY <2>1
  <2>2. ASSUME NEW j \in Server!FirstOfIndex(body.index),
               participants' = [participants EXCEPT ![j].publicData = body]
        PROVE  Filed
    <3>1. /\ participants \in Seq(Proofs!ParticipantType)
          /\ DOMAIN participants = 1 .. Len(participants)
      BY ServerType DEF ServerFacts
    <3>2. \A k \in DOMAIN participants :
            participants[k] \in Proofs!ParticipantType
      BY <3>1
    <3>3. Len(participants') = Len(participants)
      BY <3>1, <2>2
    <3> QED
      BY <2>2, <3>1, <3>2, <3>3 DEF Proofs!ParticipantType
  <2> QED
    BY <2>1, <2>2 DEF Server!doRecordParticipantsPublicData
<1> QED
  BY <1>2, <1>3, <1>4, <1>5

\* A list that is granted has an entry for every participant of a full batch.
LEMMA AllPublicDataEffect ==
  ASSUME ServerInv, Server!doGetParticipantsPublicData
  PROVE  /\ ServerInv'
         /\ UNCHANGED <<serving, participants, mParticipantsAnalyticsDataList>>
         /\ exchange'.handler = "doGetParticipantsPublicData"
         /\ Succeeded(exchange'.sent[1])
              => LET list == exchange'.sent[1].list
                 IN  /\ serving
                     /\ Len(participants) = BatchSize
                     /\ list = [k \in 1 .. BatchSize |-> participants[k].publicData]
                     /\ \A k \in 1 .. BatchSize :
                          participants[k].publicData # NoData
<1>1. UNCHANGED <<serving, participants, participantsIndex,
                  mParticipantsAnalyticsDataList>>
  BY DEF Server!doGetParticipantsPublicData
<1>2. /\ serving
      /\ exchange'.handler = "doGetParticipantsPublicData"
      /\ exchange'.sent
           = Server!RefusalIfNotEnough \o <<Server!SerializedPublicData>>
  BY DEF Server!doGetParticipantsPublicData, Server!Send, Server!SendTo
<1>3. CASE ~Server!BatchIsFull
  <2>1. exchange'.sent[1] = Server!NotEnough
    BY <1>2, <1>3 DEF Server!RefusalIfNotEnough
  <2>2. Server!NotEnough.code = "Internal_Server_Error"
    BY DEF Server!NotEnough, Server!ServerError
  <2> QED
    BY <1>1, <1>2, <2>1, <2>2, ReadOnlyEffect DEF Succeeded
<1>4. CASE Server!BatchIsFull
  <2>1. exchange'.sent[1] = Server!SerializedPublicData
    BY <1>2, <1>4 DEF Server!RefusalIfNotEnough
  <2>2. CASE \E k \in DOMAIN participants : participants[k].publicData = NoData
    <3>1. Server!SerializedPublicData = Server!ServerError("parse error")
      BY <2>2 DEF Server!SerializedPublicData
    <3>2. Server!ServerError("parse error").code = "Internal_Server_Error"
      BY DEF Server!ServerError
    <3> QED
      BY <1>1, <1>2, <2>1, <3>1, <3>2, ReadOnlyEffect DEF Succeeded
  <2>3. CASE \A k \in DOMAIN participants : participants[k].publicData # NoData
    <3>3. Server!SerializedPublicData
            = Server!PublicDataList(Server!AllPublicData)
      BY <2>3 DEF Server!SerializedPublicData
    <3>4. exchange'.sent[1].list = Server!AllPublicData
      BY <2>1, <3>3 DEF Server!PublicDataList
    <3>2. Len(participants) = BatchSize /\ DOMAIN participants = 1 .. BatchSize
      BY <1>4, ServerType DEF ServerFacts, Server!BatchIsFull
    <3> QED
      BY <1>1, <1>2, <2>3, <3>2, <3>4, ReadOnlyEffect
         DEF Server!AllPublicData
  <2> QED
    BY <2>2, <2>3
<1> QED
  BY <1>3, <1>4

\* A document joins the list, or nothing is stored.
LEMMA AnalyticsDataEffect ==
  ASSUME NEW body \in AnalyticsBody, ServerInv,
         Server!doRecordAnalyticsData(body)
  PROVE  /\ ServerInv'
         /\ UNCHANGED serving
         /\ exchange'.handler = "doRecordAnalyticsData"
         /\ Len(participants') = Len(participants)
         /\ \A k \in DOMAIN participants :
              /\ k \in DOMAIN participants'
              /\ participants'[k].clientId = participants[k].clientId
              /\ participants'[k].publicData = participants[k].publicData
         /\ \/ UNCHANGED mParticipantsAnalyticsDataList
            \/ mParticipantsAnalyticsDataList'
                 = Append(mParticipantsAnalyticsDataList, body)
<1>1. Proofs!doRecordAnalyticsData(body)
  BY DEF Server!doRecordAnalyticsData, Proofs!doRecordAnalyticsData,
         Server!FirstOfIndex, Proofs!FirstOfIndex, Server!Send, Proofs!Send,
         Server!SendTo, Proofs!SendTo, Server!BadRequest, Proofs!BadRequest,
         Server!NotRegistered, Proofs!NotRegistered, Server!Recorded,
         Proofs!Recorded, Server!Stored, Proofs!Stored
<1>2. ServerInv'
  BY <1>1, Proofs!RecordAnalyticsDataInv, ServerAssumptions DEF ServerInv
<1>3. UNCHANGED serving
  BY DEF Server!doRecordAnalyticsData
<1>4. exchange'.handler = "doRecordAnalyticsData"
  <2>1. \E sent : Server!Send("doRecordAnalyticsData", sent)
    BY DEF Server!doRecordAnalyticsData
  <2> QED
    BY <2>1 DEF Server!Send, Server!SendTo
<1> DEFINE Filed ==
      /\ Len(participants') = Len(participants)
      /\ \A k \in DOMAIN participants :
           /\ k \in DOMAIN participants'
           /\ participants'[k].clientId = participants[k].clientId
           /\ participants'[k].publicData = participants[k].publicData
<1>5. Filed
  <2>1. CASE UNCHANGED participants
    BY <2>1
  <2>2. ASSUME NEW j \in Server!FirstOfIndex(body.index),
               participants' = [participants EXCEPT ![j].analyticsData = body]
        PROVE  Filed
    <3>1. /\ participants \in Seq(Proofs!ParticipantType)
          /\ DOMAIN participants = 1 .. Len(participants)
      BY ServerType DEF ServerFacts
    <3>2. \A k \in DOMAIN participants :
            participants[k] \in Proofs!ParticipantType
      BY <3>1
    <3>3. Len(participants') = Len(participants)
      BY <3>1, <2>2
    <3> QED
      BY <2>2, <3>1, <3>2, <3>3 DEF Proofs!ParticipantType
  <2> QED
    BY <2>1, <2>2 DEF Server!doRecordAnalyticsData
<1>6. \/ UNCHANGED mParticipantsAnalyticsDataList
      \/ mParticipantsAnalyticsDataList'
           = Append(mParticipantsAnalyticsDataList, body)
  BY DEF Server!doRecordAnalyticsData, Server!Stored
<1> QED
  BY <1>2, <1>3, <1>4, <1>5, <1>6

\* The analysis leaves the registry as it is, or nothing of it.
LEMMA AnalysisEffect ==
  ASSUME ServerInv, Server!doGetAnalysis
  PROVE  /\ ServerInv'
         /\ \/ UNCHANGED <<serving, participants, mParticipantsAnalyticsDataList>>
            \/ /\ ~serving'
               /\ participants' = <<>>
               /\ mParticipantsAnalyticsDataList' = <<>>
<1>1. \/ UNCHANGED <<serving, participants, participantsIndex,
                     mParticipantsAnalyticsDataList>>
      \/ Server!EmptyRegistry /\ serving' = FALSE
  BY DEF Server!doGetAnalysis
<1> QED
  BY <1>1, ReadOnlyEffect, EmptyEffect DEF Server!EmptyRegistry

\* A start and a stop leave nothing of it.
LEMMA StartStopEffect ==
  ASSUME ServerInv, Server!Start \/ Server!Stop
  PROVE  /\ ServerInv'
         /\ participants' = <<>>
         /\ mParticipantsAnalyticsDataList' = <<>>
         /\ exchange'.handler = "none"
<1>1. Server!EmptyRegistry /\ serving' \in BOOLEAN /\ exchange' = Server!NoExchange
  BY DEF Server!Start, Server!Stop
<1> QED
  BY <1>1, EmptyEffect DEF Server!EmptyRegistry, Server!NoExchange

----------------------------------------------------------------------------
(***************************************************************************)
(* The invariant that holds across restarts of the server.  The predicates *)
(* take the Cores as a parameter: most steps change one of them at most,   *)
(* and what is said of a document stays true as long as the Core it came   *)
(* from keeps its index, and once it has a share, everything.              *)
(***************************************************************************)
Ready(c, p) == c[p].encryptor # nullptr
Shared(c, p) == Ready(c, p) /\ c[p].encryptor.peers # NoPeers

\* What the client with this key publishes.
Genuine(c, body) ==
  /\ body \in PublicBody
  /\ Ready(c, body.pubKey)
  /\ body.index = c[body.pubKey].encryptor.index

GenuineList(c, list) ==
  \E f \in [1 .. BatchSize -> PublicBody] :
    /\ list = f
    /\ \A k \in 1 .. BatchSize : Genuine(c, f[k]) /\ f[k].index = k - 1

GenuineKeys(c, keys) ==
  /\ keys \in [1 .. BatchSize -> Client]
  /\ \A k \in 1 .. BatchSize :
       Ready(c, keys[k]) /\ c[keys[k]].encryptor.index = k - 1

GenuineDocument(c, d) ==
  \E p \in Client : Shared(c, p) /\ d = getEncryptedAnalyticsData(c[p])

CoreType ==
  [encryptor : Encryptor(Client) \cup {nullptr}, data : {<<>>, ClearData}]

CoreInv(c, p) ==
  /\ Ready(c, p) => /\ c[p].encryptor.key = p
                    /\ c[p].encryptor.length = BatchSize
  /\ Shared(c, p) => /\ c[p].data = ClearData
                     /\ GenuineKeys(c, c[p].encryptor.peers)

PlaceInv(c, p, place) ==
  /\ place \in {"ready", "register", "scheme"} => ~Ready(c, p)
  /\ place \in {"pubdata", "sleeping", "allpubdata"}
       => Ready(c, p) /\ ~Shared(c, p)
  /\ place \in {"analyticsdata", "exited"} => Shared(c, p)

RequestInv(c, m) ==
  /\ m.from \in Client /\ m.call \in Calls
  /\ m.call = "register" => m.body.clientId = m.from
  /\ m.call = "scheme" => m.body.regId \in Nat
  /\ m.call = "pubdata" => Genuine(c, m.body)
  /\ m.call = "analyticsdata" => GenuineDocument(c, m.body)

GoodReply(c, place, reply) ==
  Succeeded(reply) =>
    /\ place = "register" => reply.regId \in Nat
    /\ place = "scheme" => /\ reply.scheme.index \in Nat
                           /\ reply.scheme.participantsCount = BatchSize
    /\ place = "allpubdata" => GenuineList(c, reply.list)

ReplyInv(c, place, reply) ==
  reply # NoReply => place \in Calls /\ GoodReply(c, place, reply)

StateType ==
  /\ core \in [Client -> CoreType]
  /\ pc \in [Client -> Places]
  /\ replies = [p \in Client |-> replies[p]]
  /\ starts \in 0 .. MaxStarts

ClientsInv ==
  \A p \in Client :
    /\ CoreInv(core, p)
    /\ PlaceInv(core, p, pc[p])
    /\ ReplyInv(core, pc[p], replies[p])

RequestsInv == \A m \in requests : RequestInv(core, m)

RecordsInv ==
  /\ \A k \in DOMAIN participants :
       \/ participants[k].publicData = NoData
       \/ Genuine(core, participants[k].publicData)
  /\ \A k \in DOMAIN mParticipantsAnalyticsDataList :
       GenuineDocument(core, mParticipantsAnalyticsDataList[k])

Inv == ServerInv /\ StateType /\ ClientsInv /\ RequestsInv /\ RecordsInv

\* From the Cores c to the Cores d.
Kept(c, d) ==
  \A p \in Client :
    /\ Ready(c, p) => /\ Ready(d, p)
                      /\ d[p].encryptor.index = c[p].encryptor.index
    /\ Shared(c, p) => d[p] = c[p]

\* What is said of documents stays true.
LEMMA GenuineStays ==
  ASSUME NEW c, NEW d, Kept(c, d)
  PROVE  /\ \A body : Genuine(c, body) => Genuine(d, body)
         /\ \A list : GenuineList(c, list) => GenuineList(d, list)
         /\ \A keys : GenuineKeys(c, keys) => GenuineKeys(d, keys)
         /\ \A doc : GenuineDocument(c, doc) => GenuineDocument(d, doc)
         /\ \A m : RequestInv(c, m) => RequestInv(d, m)
         /\ \A place, reply : ReplyInv(c, place, reply)
                               => ReplyInv(d, place, reply)
<1>1. ASSUME NEW body, Genuine(c, body) PROVE Genuine(d, body)
  <2>1. body.pubKey \in Client
    BY <1>1 DEF Genuine, PublicBody
  <2> QED
    BY <1>1, <2>1 DEF Genuine, Kept
<1>2. ASSUME NEW list, GenuineList(c, list) PROVE GenuineList(d, list)
  BY <1>1, <1>2 DEF GenuineList
<1>3. ASSUME NEW keys, GenuineKeys(c, keys) PROVE GenuineKeys(d, keys)
  BY <1>3 DEF GenuineKeys, Kept
<1>4. ASSUME NEW doc, GenuineDocument(c, doc) PROVE GenuineDocument(d, doc)
  BY <1>4 DEF GenuineDocument, Kept, Shared, Ready
<1>5. ASSUME NEW m, RequestInv(c, m) PROVE RequestInv(d, m)
  BY <1>1, <1>4, <1>5 DEF RequestInv
<1>6. ASSUME NEW place, NEW reply, ReplyInv(c, place, reply)
      PROVE  ReplyInv(d, place, reply)
  BY <1>2, <1>6 DEF ReplyInv, GoodReply
<1> QED
  BY <1>1, <1>2, <1>3, <1>4, <1>5, <1>6

----------------------------------------------------------------------------
(***************************************************************************)
(* The steps of the clients.                                               *)
(***************************************************************************)
\* A client that goes where its Core allows it to be.
LEMMA GoToInv ==
  ASSUME NEW p \in Client, NEW place \in Places, Inv, GoTo(p, place),
         PlaceInv(core, p, place)
  PROVE  Inv'
<1>1. /\ pc' = [pc EXCEPT ![p] = place]
      /\ replies' = [replies EXCEPT ![p] = NoReply]
      /\ UNCHANGED <<serverVars, starts, core, requests>>
  BY DEF GoTo
<1>2. ServerInv'
  BY <1>1, ReadOnlyEffect DEF Inv, serverVars
<1>3. StateType'
  BY <1>1 DEF Inv, StateType
<1>4. ASSUME NEW q \in Client
      PROVE  /\ CoreInv(core', q)
             /\ PlaceInv(core', q, pc'[q])
             /\ ReplyInv(core', pc'[q], replies'[q])
  <2>1. CoreInv(core, q) /\ PlaceInv(core, q, pc[q])
          /\ ReplyInv(core, pc[q], replies[q])
    BY DEF Inv, ClientsInv
  <2>2. CASE q = p
    <3>1. pc'[q] = place /\ replies'[q] = NoReply
      BY <1>1, <2>2 DEF Inv, StateType
    <3> QED
      BY <1>1, <2>1, <2>2, <3>1 DEF ReplyInv
  <2>3. CASE q # p
    <3>1. pc'[q] = pc[q] /\ replies'[q] = replies[q]
      BY <1>1, <2>3 DEF Inv, StateType
    <3> QED
      BY <1>1, <2>1, <3>1
  <2> QED
    BY <2>2, <2>3
<1>5. ClientsInv'
  BY <1>4 DEF ClientsInv
<1>6. RequestsInv' /\ RecordsInv'
  BY <1>1 DEF Inv, RequestsInv, RecordsInv, serverVars
<1> QED
  BY <1>2, <1>3, <1>5, <1>6 DEF Inv

\* A client that sends its next request, with a Core that may have grown.
LEMMA InvokeInv ==
  ASSUME NEW p \in Client, NEW call \in Calls, NEW body, Inv,
         Invoke(p, call, body),
         core' \in [Client -> CoreType],
         \A q \in Client \ {p} : core'[q] = core[q],
         Kept(core, core'),
         CoreInv(core', p), PlaceInv(core', p, call),
         RequestInv(core', Request(p, call, body))
  PROVE  Inv'
<1>1. /\ pc' = [pc EXCEPT ![p] = call]
      /\ requests' = requests \cup {Request(p, call, body)}
      /\ replies' = [replies EXCEPT ![p] = NoReply]
      /\ UNCHANGED <<serverVars, starts>>
  BY DEF Invoke
<1>2. ServerInv'
  BY <1>1, ReadOnlyEffect DEF Inv, serverVars
<1>3. StateType'
  BY <1>1 DEF Inv, StateType, Places
<1>4. ASSUME NEW q \in Client
      PROVE  /\ CoreInv(core', q)
             /\ PlaceInv(core', q, pc'[q])
             /\ ReplyInv(core', pc'[q], replies'[q])
  <2>1. CoreInv(core, q) /\ PlaceInv(core, q, pc[q])
          /\ ReplyInv(core, pc[q], replies[q])
    BY DEF Inv, ClientsInv
  <2>2. CASE q = p
    <3>1. pc'[q] = call /\ replies'[q] = NoReply
      BY <1>1, <2>2 DEF Inv, StateType
    <3> QED
      BY <2>2, <3>1 DEF ReplyInv
  <2>3. CASE q # p
    <3>1. pc'[q] = pc[q] /\ replies'[q] = replies[q] /\ core'[q] = core[q]
      BY <1>1, <2>3 DEF Inv, StateType
    <3>2. CoreInv(core', q)
      BY <2>1, <3>1, GenuineStays DEF CoreInv, Ready, Shared
    <3>3. PlaceInv(core', q, pc'[q])
      BY <2>1, <3>1 DEF PlaceInv, Ready, Shared
    <3>4. ReplyInv(core', pc'[q], replies'[q])
      BY <2>1, <3>1, GenuineStays
    <3> QED
      BY <3>2, <3>3, <3>4
  <2> QED
    BY <2>2, <2>3
<1>5. ClientsInv'
  BY <1>4 DEF ClientsInv
<1>6. RequestsInv'
  BY <1>1, GenuineStays DEF Inv, RequestsInv
<1>7. RecordsInv'
  BY <1>1, GenuineStays DEF Inv, RecordsInv, serverVars
<1> QED
  BY <1>2, <1>3, <1>5, <1>6, <1>7 DEF Inv

\* A request from a Core that stays as it is.
LEMMA UnchangedCoreInv ==
  ASSUME NEW p \in Client, NEW call \in Calls, NEW body, Inv,
         Invoke(p, call, body), UNCHANGED core,
         PlaceInv(core, p, call),
         RequestInv(core, Request(p, call, body))
  PROVE  Inv'
<1>1. Kept(core, core')
  BY DEF Kept
<1>2. CoreInv(core', p) /\ core' \in [Client -> CoreType]
  BY DEF Inv, ClientsInv, StateType
<1> QED
  BY <1>1, <1>2, InvokeInv

LEMMA LaunchInv ==
  ASSUME NEW p \in Client, Inv, Launch(p) PROVE Inv'
<1>1. PlaceInv(core, p, "register")
  BY DEF Launch, Inv, ClientsInv, PlaceInv
<1>2. RequestInv(core, Request(p, "register", getRegistrationData(p)))
  BY DEF RequestInv, Request, getRegistrationData, Calls
<1> QED
  BY <1>1, <1>2, UnchangedCoreInv DEF Launch, Calls

LEMMA FetchSchemeInv ==
  ASSUME NEW p \in Client, Inv, FetchScheme(p) PROVE Inv'
<1>1. pc[p] = "register" /\ replies[p] # NoReply /\ Succeeded(replies[p])
  BY DEF FetchScheme, Granted, Answered
<1>2. PlaceInv(core, p, "scheme") /\ replies[p].regId \in Nat
  BY <1>1 DEF Inv, ClientsInv, PlaceInv, ReplyInv, GoodReply
<1>3. RequestInv(core, Request(p, "scheme", [regId |-> replies[p].regId]))
  BY <1>2 DEF RequestInv, Request, Calls
<1> QED
  BY <1>2, <1>3, UnchangedCoreInv DEF FetchScheme, Calls

LEMMA WakeUpInv ==
  ASSUME NEW p \in Client, Inv, WakeUp(p) PROVE Inv'
<1>1. PlaceInv(core, p, "allpubdata")
  BY DEF WakeUp, Inv, ClientsInv, PlaceInv
<1>2. RequestInv(core, Request(p, "allpubdata", NoData))
  BY DEF RequestInv, Request, Calls
<1> QED
  BY <1>1, <1>2, UnchangedCoreInv DEF WakeUp, Calls

\* The Core that has been given a scheme.
LEMMA SchemeCore ==
  ASSUME NEW p \in Client, Inv, PublishKey(p)
  PROVE  /\ pc[p] = "scheme" /\ replies[p] # NoReply /\ Succeeded(replies[p])
         /\ ~Ready(core, p) /\ Ready(core', p) /\ ~Shared(core', p)
         /\ core'[p].encryptor.key = p
         /\ core'[p].encryptor.index = replies[p].scheme.index
         /\ core'[p].encryptor.length = BatchSize
         /\ replies[p].scheme.index \in Nat
         /\ core' \in [Client -> CoreType]
         /\ \A q \in Client \ {p} : core'[q] = core[q]
         /\ Invoke(p, "pubdata", getPublicData(core'[p]))
<1> DEFINE index == replies[p].scheme.index
           e == [key |-> p, index |-> index, length |-> BatchSize, peers |-> <<>>]
<1>1. pc[p] = "scheme" /\ replies[p] # NoReply /\ Succeeded(replies[p])
  BY DEF PublishKey, Granted, Answered
<1>2. ~Ready(core, p) /\ index \in Nat
        /\ replies[p].scheme.participantsCount = BatchSize
  BY <1>1 DEF Inv, ClientsInv, PlaceInv, ReplyInv, GoodReply
<1>3. /\ core' = [core EXCEPT ![p] = [core[p] EXCEPT !.encryptor = e]]
      /\ Invoke(p, "pubdata", getPublicData(core'[p]))
  BY <1>2 DEF PublishKey, initializeAnalyticsScheme, DMCFEncryptor, NoPeers
<1>4. e \in Encryptor(Client) /\ e # nullptr
  <2>1. <<>> \in Seq(Client) /\ BatchSize \in Nat
    BY ServerAssumptions
  <2>2. e \in Encryptor(Client)
    BY <1>2, <2>1 DEF Encryptor
  <2> QED
    BY <2>2, SystemAssumption DEF SystemAssumption
<1> HIDE DEF e
<1>5. core \in [Client -> CoreType] /\ core[p] \in CoreType
  BY DEF Inv, StateType
<1>6. core'[p] = [encryptor |-> e, data |-> core[p].data]
  BY <1>3, <1>5 DEF CoreType
<1>7. core' \in [Client -> CoreType]
  <2>1. core'[p] \in CoreType
    BY <1>4, <1>5, <1>6 DEF CoreType
  <2> QED
    BY <1>3, <1>5, <2>1
<1>8. Ready(core', p) /\ ~Shared(core', p)
  BY <1>4, <1>6 DEF Ready, Shared, NoPeers, e
<1> QED
  BY <1>1, <1>2, <1>3, <1>5, <1>6, <1>7, <1>8 DEF e

LEMMA PublishKeyInv ==
  ASSUME NEW p \in Client, Inv, PublishKey(p) PROVE Inv'
<1>1. /\ ~Ready(core, p) /\ Ready(core', p) /\ ~Shared(core', p)
      /\ core'[p].encryptor.key = p
      /\ core'[p].encryptor.length = BatchSize
      /\ core'[p].encryptor.index \in Nat
      /\ core' \in [Client -> CoreType]
      /\ \A q \in Client \ {p} : core'[q] = core[q]
      /\ Invoke(p, "pubdata", getPublicData(core'[p]))
  BY SchemeCore
<1>2. Kept(core, core')
  BY <1>1 DEF Kept, Ready, Shared
<1>3. CoreInv(core', p) /\ PlaceInv(core', p, "pubdata")
  BY <1>1 DEF CoreInv, PlaceInv
<1>4. Genuine(core', getPublicData(core'[p]))
  BY <1>1 DEF Genuine, getPublicData, PublicData, PublicBody
<1>5. RequestInv(core', Request(p, "pubdata", getPublicData(core'[p])))
  BY <1>4 DEF RequestInv, Request, Calls
<1> QED
  BY <1>1, <1>2, <1>3, <1>5, InvokeInv DEF Calls

\* A genuine list is accepted, and leaves its keys in their order.
LEMMA GenuineListAccepted ==
  ASSUME NEW c, NEW p, NEW list, Ready(c, p), GenuineList(c, list),
         c[p].encryptor.length = BatchSize
  PROVE  /\ ProvideStatus(c[p], list) = "kOk"
         /\ PubKeyList(list) = [k \in 1 .. BatchSize |-> list[k].pubKey]
         /\ GenuineKeys(c, PubKeyList(list))
<1>1. /\ DOMAIN list = 1 .. BatchSize
      /\ Len(list) = BatchSize
      /\ \A k \in 1 .. BatchSize :
           /\ list[k] \in PublicBody
           /\ Genuine(c, list[k])
           /\ list[k].index = k - 1
  BY ServerAssumptions DEF GenuineList
<1>2. ProvideStatus(c[p], list) = "kOk"
  <2>1. \A k \in 1 .. BatchSize :
          ~(OutOfRange(list, BatchSize, k) \/ BeyondEnd(list, k))
    BY <1>1, ServerAssumptions DEF OutOfRange, BeyondEnd
  <2> QED
    BY <1>1, <2>1 DEF ProvideStatus, Uninitialized, Ready
<1>3. PubKeyList(list) = [k \in 1 .. BatchSize |-> list[k].pubKey]
  <2> DEFINE entries == [k \in DOMAIN list |->
                           [index |-> list[k].index, item |-> list[k].pubKey]]
  <2>1. /\ DOMAIN entries = 1 .. BatchSize
        /\ BatchSize \in Nat
        /\ \A k \in 1 .. BatchSize : /\ entries[k].index = k - 1
                                     /\ entries[k].item = list[k].pubKey
    BY <1>1, ServerAssumptions
  <2> HIDE DEF entries
  <2>2. InsertedAt(entries) = [k \in 1 .. BatchSize |-> entries[k].item]
    BY <2>1, InsertedInOrder
  <2>3. @ = [k \in 1 .. BatchSize |-> list[k].pubKey]
    BY <2>1
  <2> QED
    BY <2>2, <2>3 DEF PubKeyList, entries
<1>4. GenuineKeys(c, [k \in 1 .. BatchSize |-> list[k].pubKey])
  BY <1>1 DEF GenuineKeys, Genuine, PublicBody
<1> QED
  BY <1>2, <1>3, <1>4

\* The Core that has been given the keys of its group.
LEMMA SharedCore ==
  ASSUME NEW p \in Client, Inv, Submit(p)
  PROVE  /\ Ready(core, p) /\ ~Shared(core, p)
         /\ GenuineList(core, replies[p].list)
         /\ core' = [core EXCEPT ![p] =
                      [encryptor |-> [core[p].encryptor EXCEPT
                                        !.peers = PubKeyList(replies[p].list)],
                       data |-> ClearData]]
         /\ Invoke(p, "analyticsdata", getEncryptedAnalyticsData(core'[p]))
<1> DEFINE list == replies[p].list
           c == core[p]
<1>1. pc[p] = "allpubdata" /\ replies[p] # NoReply /\ Succeeded(replies[p])
  BY DEF Submit, Granted, Answered
<1>2. Ready(core, p) /\ ~Shared(core, p) /\ GenuineList(core, list)
        /\ c.encryptor.length = BatchSize
  BY <1>1 DEF Inv, ClientsInv, PlaceInv, ReplyInv, GoodReply, CoreInv
<1>3. ProvideStatus(c, list) = "kOk"
  BY <1>2, GenuineListAccepted
<1>4. c \in CoreType
  BY DEF Inv, StateType
<1> DEFINE d == provideParticipantsPublicData(c, list)
<1>5. d = [encryptor |-> [c.encryptor EXCEPT !.peers = PubKeyList(list)],
           data |-> c.data]
  BY <1>4 DEF provideParticipantsPublicData, setParticipantsPublicKeys, CoreType
<1>6. ~Uninitialized(d)
  <2>1. c.encryptor \in Encryptor(Client)
    BY <1>2, <1>4 DEF CoreType, Ready
  <2>2. PubKeyList(list) \in Seq(Client)
    BY <1>2, GenuineListAccepted, ServerAssumptions DEF GenuineKeys
  <2>3. [c.encryptor EXCEPT !.peers = PubKeyList(list)] \in Encryptor(Client)
    BY <2>1, <2>2 DEF Encryptor
  <2> QED
    BY <1>5, <2>3, SystemAssumption DEF SystemAssumption, Uninitialized
<1>7. Provided(c, list) = {d}
  BY <1>3 DEF Provided
<1>8. /\ core' = [core EXCEPT ![p] = WithClearData(d)]
      /\ Invoke(p, "analyticsdata", getEncryptedAnalyticsData(core'[p]))
  BY <1>6, <1>7 DEF Submit
<1>9. WithClearData(d)
        = [encryptor |-> [c.encryptor EXCEPT !.peers = PubKeyList(list)],
           data |-> ClearData]
  BY <1>5 DEF WithClearData
<1> QED
  BY <1>2, <1>8, <1>9

LEMMA SubmitInv ==
  ASSUME NEW p \in Client, Inv, Submit(p) PROVE Inv'
<1> DEFINE keys == PubKeyList(replies[p].list)
           e == [core[p].encryptor EXCEPT !.peers = keys]
<1>1. /\ Ready(core, p) /\ ~Shared(core, p)
      /\ GenuineList(core, replies[p].list)
      /\ core' = [core EXCEPT ![p] = [encryptor |-> e, data |-> ClearData]]
      /\ Invoke(p, "analyticsdata", getEncryptedAnalyticsData(core'[p]))
  BY SharedCore
<1>2. /\ core \in [Client -> CoreType]
      /\ core[p].encryptor \in Encryptor(Client)
      /\ core[p].encryptor.key = p
      /\ core[p].encryptor.length = BatchSize
  BY <1>1 DEF Inv, StateType, ClientsInv, CoreInv, CoreType, Ready
<1>3. GenuineKeys(core, keys)
  BY <1>1, <1>2, GenuineListAccepted
<1>4. keys \in Seq(Client) /\ keys # <<>>
  BY <1>3, ServerAssumptions DEF GenuineKeys
<1>5. /\ e \in Encryptor(Client)
      /\ e # nullptr
      /\ e.key = p
      /\ e.length = BatchSize
      /\ e.index = core[p].encryptor.index
      /\ e.peers = keys
  <2>1. e \in Encryptor(Client)
    BY <1>2, <1>4 DEF Encryptor
  <2> QED
    BY <1>2, <2>1, SystemAssumption DEF Encryptor, SystemAssumption
<1> HIDE DEF e, keys
<1>6. /\ core'[p] = [encryptor |-> e, data |-> ClearData]
      /\ \A q \in Client \ {p} : core'[q] = core[q]
      /\ core' \in [Client -> CoreType]
  BY <1>1, <1>2, <1>5 DEF CoreType
<1>7. Ready(core', p) /\ Shared(core', p)
  BY <1>4, <1>5, <1>6 DEF Ready, Shared, NoPeers
<1>8. Kept(core, core')
  BY <1>1, <1>5, <1>6, <1>7 DEF Kept, Ready, Shared
<1>9. CoreInv(core', p) /\ PlaceInv(core', p, "analyticsdata")
  BY <1>3, <1>5, <1>6, <1>7, <1>8, GenuineStays DEF CoreInv, PlaceInv
<1>10. GenuineDocument(core', getEncryptedAnalyticsData(core'[p]))
  BY <1>7 DEF GenuineDocument
<1>11. RequestInv(core', Request(p, "analyticsdata",
                                 getEncryptedAnalyticsData(core'[p])))
  BY <1>10 DEF RequestInv, Request, Calls
<1> QED
  BY <1>1, <1>6, <1>8, <1>9, <1>11, InvokeInv DEF Calls

\* Whatever becomes of a call, its client goes where its Core allows it to be.
LEMMA LeaveInv ==
  ASSUME NEW p \in Client, Inv,
         Sleep(p) \/ Exit(p) \/ Abort(p) \/ Fail(p) \/ Kill(p)
  PROVE  Inv'
<1>1. PlaceInv(core, p, pc[p]) /\ pc[p] \in Places
  BY DEF Inv, ClientsInv, StateType
<1>2. CASE Sleep(p)
  BY <1>1, <1>2, GoToInv DEF Sleep, Answered, PlaceInv, Places
<1>3. CASE Exit(p)
  BY <1>1, <1>3, GoToInv DEF Exit, Answered, PlaceInv, Places, Over
<1>4. CASE Abort(p)
  BY <1>4, GoToInv DEF Abort, PlaceInv, Places, Over
<1>5. CASE Kill(p)
  BY <1>5, GoToInv DEF Kill, PlaceInv, Places, Over
<1>6. CASE Fail(p)
  <2>1. CASE pc[p] \in Needed
    <3>1. GoTo(p, "aborted")
      BY <1>6, <2>1 DEF Fail, Needed
    <3> QED
      BY <3>1, GoToInv DEF PlaceInv, Places, Over
  <2>2. CASE pc[p] = "pubdata"
    <3>1. GoTo(p, "sleeping")
      BY <1>6, <2>2 DEF Fail, Needed
    <3> QED
      BY <1>1, <2>2, <3>1, GoToInv DEF PlaceInv, Places
  <2>3. CASE pc[p] = "analyticsdata"
    <3>1. GoTo(p, "exited")
      BY <1>6, <2>3 DEF Fail, Needed
    <3> QED
      BY <1>1, <2>3, <3>1, GoToInv DEF PlaceInv, Places, Over
  <2> QED
    BY <1>6, <2>1, <2>2, <2>3 DEF Fail, Calls, Needed
<1> QED
  BY <1>2, <1>3, <1>4, <1>5, <1>6

----------------------------------------------------------------------------
(***************************************************************************)
(* The steps of network, server and analyst.                               *)
(***************************************************************************)
\* A document from a Core with a share has the form that the server expects.
LEMMA GenuineDocumentType ==
  ASSUME Inv, NEW d, GenuineDocument(core, d)
  PROVE  d \in AnalyticsBody
<1>1. PICK p \in Client : Shared(core, p) /\ d = getEncryptedAnalyticsData(core[p])
  BY DEF GenuineDocument
<1> DEFINE e == core[p].encryptor
<1>2. core[p].data = ClearData /\ e \in Encryptor(Client)
  BY <1>1 DEF Inv, StateType, ClientsInv, CoreInv, CoreType, Shared, Ready
<1>3. /\ e.key \in Client /\ e.index \in Nat
      /\ e.length \in Nat /\ e.peers \in Seq(Client)
  BY <1>2 DEF Encryptor
<1> HIDE DEF e
<1>4. ASSUME NEW l \in DOMAIN ClearData
      PROVE  G1(encrypt(e, l, ClearData[l]))
               \in Seq([key : Client, label : DOMAIN ClearData, value : Nat])
  <2>1. ClearData[l] % ULongRange \in Nat
    BY ClearDataAssumption, ServerAssumptions DEF ClearDataAssumption
  <2>2. encrypt(e, l, ClearData[l])
          \in [key : Client, label : DOMAIN ClearData, value : Nat]
    BY <1>3, <2>1 DEF encrypt
  <2> QED
    BY <2>2 DEF G1
<1>5. Halves(getFunctionalDecryptionKey(e))
        \in Seq(Seq([key : Client, index : Nat, peers : Seq(Client),
                     policy : Nat]))
  <2>1. getFunctionalDecryptionKey(e)
          \in [key : Client, index : Nat, peers : Seq(Client), policy : Nat]
    BY <1>3 DEF getFunctionalDecryptionKey
  <2> QED
    BY <2>1 DEF Halves, G1
<1>6. d = [index |-> e.index,
           encData |-> [l \in DOMAIN ClearData |->
                          G1(encrypt(e, l, ClearData[l]))],
           fdKey |-> Halves(getFunctionalDecryptionKey(e))]
  BY <1>1, <1>2 DEF getEncryptedAnalyticsData, AnalyticsData, e
<1> QED
  BY <1>3, <1>4, <1>5, <1>6 DEF AnalyticsBody

\* What comes back from the server.
LEMMA AnsweredInv ==
  ASSUME Inv, NEW m \in requests, ServerInv', RecordsInv',
         requests' = requests \ {m},
         replies' = IF pc[m.from] = m.call
                      THEN [replies EXCEPT ![m.from] = exchange'.sent[1]]
                      ELSE replies,
         UNCHANGED <<starts, pc, core>>,
         GoodReply(core, m.call, exchange'.sent[1])
  PROVE  Inv'
<1>1. m.from \in Client /\ m.call \in Calls
  BY DEF Inv, RequestsInv, RequestInv
<1>2. StateType'
  BY <1>1 DEF Inv, StateType
<1>3. ASSUME NEW q \in Client PROVE ReplyInv(core, pc[q], replies'[q])
  <2>1. ReplyInv(core, pc[q], replies[q])
    BY DEF Inv, ClientsInv
  <2>2. CASE q = m.from /\ pc[q] = m.call
    <3>1. replies'[q] = exchange'.sent[1]
      BY <2>2 DEF Inv, StateType
    <3> QED
      BY <1>1, <2>2, <3>1 DEF ReplyInv
  <2>3. CASE ~(q = m.from /\ pc[q] = m.call)
    <3>1. replies'[q] = replies[q]
      BY <1>1, <2>3 DEF Inv, StateType
    <3> QED
      BY <2>1, <3>1
  <2> QED
    BY <2>2, <2>3
<1>4. ClientsInv'
  BY <1>3 DEF Inv, ClientsInv
<1>5. RequestsInv'
  BY DEF Inv, RequestsInv
<1> QED
  BY <1>2, <1>4, <1>5 DEF Inv

\* The records that a handler leaves.
LEMMA RecordsStay ==
  ASSUME Inv, UNCHANGED core,
         Len(participants') = Len(participants),
         DOMAIN participants' = 1 .. Len(participants'),
         \A k \in DOMAIN participants :
           \/ participants'[k].publicData = participants[k].publicData
           \/ Genuine(core, participants'[k].publicData),
         UNCHANGED mParticipantsAnalyticsDataList
  PROVE  RecordsInv'
<1>1. DOMAIN participants = 1 .. Len(participants)
  BY ServerType DEF Inv, ServerFacts
<1> QED
  BY <1>1 DEF Inv, RecordsInv

LEMMA DeliverInv ==
  ASSUME NEW m \in requests, Inv, Deliver(m) PROVE Inv'
<1> DEFINE reply == exchange'.sent[1]
<1>1. /\ Handle(m)
      /\ requests' = requests \ {m}
      /\ replies' = IF pc[m.from] = m.call
                      THEN [replies EXCEPT ![m.from] = reply] ELSE replies
      /\ UNCHANGED <<starts, pc, core>>
  BY DEF Deliver, clientVars
<1>2. RequestInv(core, m) /\ ServerInv /\ ServerFacts /\ RecordsInv
  BY ServerType DEF Inv, RequestsInv
<1>3. SUFFICES ServerInv' /\ RecordsInv' /\ GoodReply(core, m.call, reply)
  BY <1>1, AnsweredInv
<1>4. CASE m.call = "register"
  <2>1. Server!doRegisterParticipant(m.body.clientId)
    BY <1>1, <1>4 DEF Handle
  <2>2. m.body.clientId \in Client
    BY <1>2, <1>4 DEF RequestInv
  <2>3. /\ ServerInv'
        /\ UNCHANGED mParticipantsAnalyticsDataList
        /\ \/ UNCHANGED participants
           \/ participants' = Append(participants,
                 Server!Participant(m.body.clientId, participantsIndex))
    BY <1>2, <2>1, <2>2, RegisterEffect
  <2>4. GoodReply(core, m.call, reply)
    BY <1>2, <1>4, <2>1, <2>2, RegisterReply DEF GoodReply
  <2>5. RecordsInv'
    <3>1. CASE UNCHANGED participants
      BY <1>1, <1>2, <2>3, <3>1 DEF RecordsInv
    <3>2. CASE participants' = Append(participants,
                 Server!Participant(m.body.clientId, participantsIndex))
      <4>1. Server!Participant(m.body.clientId, participantsIndex).publicData
              = NoData
        BY DEF Server!Participant
      <4>2. participants \in Seq(Proofs!ParticipantType)
        BY <1>2 DEF ServerFacts
      <4>3. ASSUME NEW k \in DOMAIN participants'
            PROVE  \/ participants'[k].publicData = NoData
                   \/ /\ k \in DOMAIN participants
                      /\ participants'[k] = participants[k]
        BY <3>2, <4>1, <4>2
      <4> QED
        BY <1>1, <1>2, <2>3, <4>3 DEF RecordsInv
    <3> QED
      BY <2>3, <3>1, <3>2
  <2> QED
    BY <2>3, <2>4, <2>5
<1>5. CASE m.call = "scheme"
  <2>1. Server!doGetAnalyticsSchemeParams(m.body.regId) /\ m.body.regId \in Nat
    BY <1>1, <1>2, <1>5 DEF Handle, RequestInv
  <2>2. /\ ServerInv'
        /\ UNCHANGED <<participants, mParticipantsAnalyticsDataList>>
        /\ Succeeded(reply) => /\ reply.scheme.index = m.body.regId
                              /\ reply.scheme.participantsCount = BatchSize
    BY <1>2, <2>1, SchemeEffect
  <2>3. GoodReply(core, m.call, reply)
    BY <1>5, <2>1, <2>2 DEF GoodReply
  <2> QED
    BY <1>1, <1>2, <2>2, <2>3 DEF RecordsInv
<1>6. CASE m.call = "pubdata"
  <2>1. /\ Server!doRecordParticipantsPublicData(m.body)
        /\ Genuine(core, m.body) /\ m.body \in PublicBody
    BY <1>1, <1>2, <1>6 DEF Handle, RequestInv, Genuine
  <2>2. /\ ServerInv'
        /\ UNCHANGED mParticipantsAnalyticsDataList
        /\ Len(participants') = Len(participants)
        /\ \A k \in DOMAIN participants :
             participants'[k].publicData
               \in {participants[k].publicData, m.body}
    BY <1>2, <2>1, PublicDataEffect
  <2>3. DOMAIN participants' = 1 .. Len(participants')
    BY <2>2, ServerTypeAfter DEF ServerFacts
  <2>4. RecordsInv'
    BY <1>1, <2>1, <2>2, <2>3, RecordsStay
  <2> QED
    BY <1>6, <2>2, <2>4 DEF GoodReply
<1>7. CASE m.call = "allpubdata"
  <2>1. Server!doGetParticipantsPublicData
    BY <1>1, <1>7 DEF Handle
  <2>2. ServerInv' /\ UNCHANGED <<participants, mParticipantsAnalyticsDataList>>
    BY <1>2, <2>1, AllPublicDataEffect
  <2>3. ASSUME Succeeded(reply) PROVE GenuineList(core, reply.list)
    <3>1. /\ Len(participants) = BatchSize
          /\ reply.list = [k \in 1 .. BatchSize |-> participants[k].publicData]
          /\ \A k \in 1 .. BatchSize : participants[k].publicData # NoData
      BY <1>2, <2>1, <2>3, AllPublicDataEffect
    <3>2. ASSUME NEW k \in 1 .. BatchSize
          PROVE  /\ participants[k].publicData \in PublicBody
                 /\ Genuine(core, participants[k].publicData)
                 /\ participants[k].publicData.index = k - 1
      BY <1>2, <3>1 DEF ServerFacts, RecordsInv
    <3> QED
      BY <3>1, <3>2 DEF GenuineList
  <2>4. GoodReply(core, m.call, reply)
    BY <1>7, <2>3 DEF GoodReply
  <2> QED
    BY <1>1, <1>2, <2>2, <2>4 DEF RecordsInv
<1>8. CASE m.call = "analyticsdata"
  <2>1. /\ Server!doRecordAnalyticsData(m.body)
        /\ GenuineDocument(core, m.body) /\ m.body \in AnalyticsBody
    BY <1>1, <1>2, <1>8, GenuineDocumentType DEF Handle, RequestInv
  <2>2. /\ ServerInv'
        /\ Len(participants') = Len(participants)
        /\ \A k \in DOMAIN participants :
             participants'[k].publicData = participants[k].publicData
        /\ \/ UNCHANGED mParticipantsAnalyticsDataList
           \/ mParticipantsAnalyticsDataList'
                = Append(mParticipantsAnalyticsDataList, m.body)
    BY <1>2, <2>1, AnalyticsDataEffect
  <2>3. /\ DOMAIN participants' = 1 .. Len(participants')
        /\ DOMAIN participants = 1 .. Len(participants)
        /\ mParticipantsAnalyticsDataList \in Seq(AnalyticsBody)
    BY <1>2, <2>2, ServerTypeAfter DEF ServerFacts
  <2>4. \A k \in DOMAIN participants' :
          \/ participants'[k].publicData = NoData
          \/ Genuine(core, participants'[k].publicData)
    BY <1>2, <2>2, <2>3 DEF RecordsInv
  <2>5. \A k \in DOMAIN mParticipantsAnalyticsDataList' :
          GenuineDocument(core, mParticipantsAnalyticsDataList'[k])
    BY <1>2, <2>1, <2>2, <2>3 DEF RecordsInv
  <2> QED
    BY <1>1, <1>8, <2>2, <2>4, <2>5 DEF RecordsInv, GoodReply
<1> QED
  BY <1>2, <1>4, <1>5, <1>6, <1>7, <1>8 DEF RequestInv, Calls

\* A request that nobody handles.
LEMMA DropInv ==
  ASSUME NEW m \in requests, Inv, Drop(m) PROVE Inv'
<1>1. /\ UNCHANGED <<serving, participants, participantsIndex,
                     mParticipantsAnalyticsDataList>>
      /\ UNCHANGED <<starts, pc, core, replies>>
      /\ requests' = requests \ {m}
  BY DEF Drop, serverVars, clientVars
<1>2. ServerInv'
  BY <1>1, ReadOnlyEffect DEF Inv
<1> QED
  BY <1>1, <1>2 DEF Inv, StateType, ClientsInv, RequestsInv, RecordsInv

\* What the analyst and the server do to the registry is seen by no client.
LEMMA RegistryOnlyInv ==
  ASSUME Inv, ServerInv', UNCHANGED <<pc, core, replies>>,
         starts' \in 0 .. MaxStarts, requests' \subseteq requests,
         \/ UNCHANGED <<participants, mParticipantsAnalyticsDataList>>
         \/ participants' = <<>> /\ mParticipantsAnalyticsDataList' = <<>>
  PROVE  Inv'
  BY DEF Inv, StateType, ClientsInv, RequestsInv, RecordsInv

LEMMA AskInv ==
  ASSUME Inv, Ask PROVE Inv'
<1>1. /\ ServerInv'
      /\ \/ UNCHANGED <<participants, mParticipantsAnalyticsDataList>>
         \/ participants' = <<>> /\ mParticipantsAnalyticsDataList' = <<>>
  BY AnalysisEffect DEF Ask, Inv
<1> QED
  BY <1>1, RegistryOnlyInv DEF Ask, clientVars, Inv, StateType

LEMMA StartStopInv ==
  ASSUME Inv, StartServer \/ StopServer PROVE Inv'
<1>1. /\ ServerInv'
      /\ participants' = <<>> /\ mParticipantsAnalyticsDataList' = <<>>
  BY StartStopEffect DEF StartServer, StopServer, Inv
<1>2. starts' \in 0 .. MaxStarts
  BY SystemAssumption
     DEF StartServer, StopServer, Inv, StateType, SystemAssumption
<1> QED
  BY <1>1, <1>2, RegistryOnlyInv DEF StartServer, StopServer, clientVars

LEMMA ClientInv ==
  ASSUME NEW p \in Client, Inv, ClientStep(p) \/ Kill(p) PROVE Inv'
  BY LaunchInv, FetchSchemeInv, PublishKeyInv, WakeUpInv, SubmitInv, LeaveInv
     DEF ClientStep

LEMMA StepInv == Inv /\ [Next]_vars => Inv'
<1> SUFFICES ASSUME Inv, [Next]_vars PROVE Inv'
  OBVIOUS
<1>1. ASSUME NEW p \in Client, ClientStep(p) \/ Kill(p) PROVE Inv'
  BY <1>1, ClientInv
<1>2. ASSUME NEW m \in requests, Deliver(m) \/ Refuse(m) \/ Lose(m)
      PROVE  Inv'
  BY <1>2, DeliverInv, DropInv DEF Refuse, Lose
<1>3. CASE Ask
  BY <1>3, AskInv
<1>4. CASE StartServer \/ StopServer
  BY <1>4, StartStopInv
<1>5. CASE UNCHANGED vars
  <2>1. /\ UNCHANGED <<serving, participants, participantsIndex,
                       mParticipantsAnalyticsDataList>>
        /\ UNCHANGED <<starts, pc, core, requests, replies>>
    BY <1>5 DEF vars, serverVars, clientVars
  <2>2. ServerInv'
    BY <2>1, ReadOnlyEffect DEF Inv
  <2> QED
    BY <2>1, <2>2, RegistryOnlyInv DEF Inv, StateType
<1> QED
  BY <1>1, <1>2, <1>3, <1>4, <1>5 DEF Next

LEMMA StartInv == Init => Inv
<1> SUFFICES ASSUME Init PROVE Inv
  OBVIOUS
<1>1. ServerInv
  BY SystemAssumption
     DEF Init, SystemAssumption, ServerInv, Proofs!Inv, Proofs!TypeOK,
         Proofs!RegistryInv, Proofs!IndexIsPosition, Proofs!ClientIdsDistinct,
         Proofs!FiledUnderOwnIndex, Proofs!LostWithProcess
<1>2. StateType
  <2>1. NewCore \in CoreType
    BY DEF NewCore, CoreType
  <2> QED
    BY <2>1, SystemAssumption DEF Init, StateType, Places, SystemAssumption
<1>3. ClientsInv
  BY DEF Init, ClientsInv, NewCore, CoreInv, PlaceInv, ReplyInv, Ready, Shared
<1>4. RequestsInv /\ RecordsInv
  BY DEF Init, RequestsInv, RecordsInv
<1> QED
  BY <1>1, <1>2, <1>3, <1>4 DEF Inv

THEOREM Invariance == Spec => []Inv
<1> QED
  BY StartInv, StepInv, PTL DEF Spec

----------------------------------------------------------------------------
(***************************************************************************)
(* Clients and network are always in a state the code knows, whatever is   *)
(* lost, killed or restarted.                                              *)
(***************************************************************************)
THEOREM TypeCorrect == Spec => []TypeOK
<1>1. Inv => TypeOK
  BY DEF Inv, StateType, CoreType, ClientsInv, ReplyInv, RequestsInv,
         RequestInv, TypeOK
<1> QED
  BY <1>1, Invariance, PTL

(***************************************************************************)
(* The status of provideParticipantsPublicData, which the client program   *)
(* ignores (client/source/main.cpp:135), is kOk, and the insertion of      *)
(* core.cpp:100 stays inside the vector, for every number of clients and   *)
(* of restarts: a list that is granted is complete, and FiledUnderOwnIndex *)
(* says that it is in index order.                                         *)
(***************************************************************************)
THEOREM ListsAccepted == Spec => []ListsAlwaysAccepted
<1>1. Inv => ListsAlwaysAccepted
  <2> SUFFICES ASSUME Inv, NEW p \in Client, Granted(p, "allpubdata")
               PROVE  ProvideStatus(core[p], replies[p].list) = "kOk"
    BY DEF ListsAlwaysAccepted
  <2>1. /\ Ready(core, p) /\ core[p].encryptor.length = BatchSize
        /\ GenuineList(core, replies[p].list)
    BY DEF Granted, Answered, Inv, ClientsInv, PlaceInv, CoreInv, ReplyInv,
           GoodReply
  <2> QED
    BY <2>1, GenuineListAccepted
<1> QED
  BY <1>1, Invariance, PTL

----------------------------------------------------------------------------
(***************************************************************************)
(* While one server process lives.  Wherever the index of a client is      *)
(* under way - in the answer to the registration, the request for the      *)
(* scheme, the scheme, the Core - the registry has this client at this     *)
(* index, and whoever has the list of keys has the keys of the first       *)
(* participants.  The second start of a server gives the indexes away      *)
(* again, so all of this is said of the first.                             *)
(***************************************************************************)
Owns(list, p, index) ==
  index + 1 \in DOMAIN list /\ list[index + 1].clientId = p

OwnReply(list, p, place, reply) ==
  (reply # NoReply /\ Succeeded(reply)) =>
    /\ place = "register" => Owns(list, p, reply.regId)
    /\ place = "scheme" => Owns(list, p, reply.scheme.index)

OwnershipInv ==
  serving =>
    /\ \A p \in Client :
         /\ Ready(core, p) => Owns(participants, p, core[p].encryptor.index)
         /\ OwnReply(participants, p, pc[p], replies[p])
    /\ \A m \in requests :
         m.call = "scheme" => Owns(participants, m.from, m.body.regId)

\* The list of keys that a client has in its Core, or is about to put there.
KeysHeld(c, p, place, reply) ==
  {keys \in [1 .. BatchSize -> Client] :
     \/ Shared(c, p) /\ keys = c[p].encryptor.peers
     \/ /\ place = "allpubdata" /\ reply # NoReply /\ Succeeded(reply)
        /\ keys = [k \in 1 .. BatchSize |-> reply.list[k].pubKey]}

\* The keys are those of the first participants.
Registered(keys) ==
  serving => /\ BatchSize <= Len(participants)
             /\ \A k \in 1 .. BatchSize : participants[k].clientId = keys[k]

KeysInv ==
  \A p \in Client : \A keys \in KeysHeld(core, p, pc[p], replies[p]) :
    /\ core[p].encryptor.index + 1 \in 1 .. BatchSize
    /\ keys[core[p].encryptor.index + 1] = p
    /\ Registered(keys)
    /\ \A q \in Client : KeysHeld(core, q, pc[q], replies[q]) \subseteq {keys}

\* Nobody has had an answer before the server is up.
DormantInv ==
  starts = 0 => /\ ~serving
                /\ \A p \in Client : ~Ready(core, p) /\ replies[p] = NoReply
                /\ \A m \in requests : m.call = "register"

EpochInv == starts <= 1 => OwnershipInv /\ KeysInv /\ DormantInv

\* A step of one client, which has no answer yet to the call it is in.
LEMMA ClientEpoch ==
  ASSUME NEW p \in Client, Inv, EpochInv, starts <= 1,
         UNCHANGED <<serving, participants, starts>>,
         replies'[p] = NoReply,
         \A q \in Client \ {p} : /\ core'[q] = core[q]
                                 /\ pc'[q] = pc[q]
                                 /\ replies'[q] = replies[q],
         starts = 0 => ~Ready(core', p),
         starts = 0 => \A m \in requests' \ requests : m.call = "register",
         serving /\ Ready(core', p)
           => Owns(participants, p, core'[p].encryptor.index),
         serving => \A m \in requests' \ requests :
           m.call = "scheme" => Owns(participants, m.from, m.body.regId),
         Shared(core', p)
           => /\ core'[p].encryptor.index = core[p].encryptor.index
              /\ core'[p].encryptor.peers
                   \in KeysHeld(core, p, pc[p], replies[p])
  PROVE  EpochInv'
<1>1. OwnershipInv /\ KeysInv /\ DormantInv
  BY DEF EpochInv
<1>2. OwnershipInv'
  <2> SUFFICES ASSUME serving PROVE OwnershipInv'
    BY DEF OwnershipInv
  <2>1. ASSUME NEW q \in Client
        PROVE  /\ Ready(core', q)
                    => Owns(participants, q, core'[q].encryptor.index)
               /\ OwnReply(participants, q, pc'[q], replies'[q])
    BY <1>1 DEF OwnershipInv, OwnReply, Ready
  <2>2. \A m \in requests' :
          m.call = "scheme" => Owns(participants, m.from, m.body.regId)
    BY <1>1 DEF OwnershipInv
  <2> QED
    BY <2>1, <2>2 DEF OwnershipInv
<1>3. ASSUME NEW q \in Client
      PROVE  KeysHeld(core', q, pc'[q], replies'[q])
               \subseteq KeysHeld(core, q, pc[q], replies[q])
  BY DEF KeysHeld, Shared, Ready
<1>4. ASSUME NEW q \in Client,
             KeysHeld(core', q, pc'[q], replies'[q]) # {}
      PROVE  core'[q].encryptor.index = core[q].encryptor.index
  BY <1>4 DEF KeysHeld
<1>5. KeysInv'
  <2> SUFFICES ASSUME NEW q \in Client,
                      NEW keys \in KeysHeld(core', q, pc'[q], replies'[q])
               PROVE  /\ core'[q].encryptor.index + 1 \in 1 .. BatchSize
                      /\ keys[core'[q].encryptor.index + 1] = q
                      /\ Registered(keys)'
                      /\ \A r \in Client :
                           KeysHeld(core', r, pc'[r], replies'[r])
                             \subseteq {keys}
    BY DEF KeysInv
  <2>1. keys \in KeysHeld(core, q, pc[q], replies[q])
    BY <1>3
  <2>2. core'[q].encryptor.index = core[q].encryptor.index
    BY <1>4
  <2>3. /\ core[q].encryptor.index + 1 \in 1 .. BatchSize
        /\ keys[core[q].encryptor.index + 1] = q
        /\ Registered(keys)
        /\ \A r \in Client :
             KeysHeld(core, r, pc[r], replies[r]) \subseteq {keys}
    BY <1>1, <2>1 DEF KeysInv
  <2>4. Registered(keys)'
    BY <2>3 DEF Registered
  <2>5. \A r \in Client :
          KeysHeld(core', r, pc'[r], replies'[r]) \subseteq {keys}
    BY <1>3, <2>3
  <2> QED
    BY <2>2, <2>3, <2>4, <2>5
<1>6. DormantInv'
  BY <1>1 DEF DormantInv, Ready
<1> QED
  BY <1>2, <1>5, <1>6 DEF EpochInv

LEMMA ClientStepEpoch ==
  ASSUME NEW p \in Client, Inv, EpochInv, ClientStep(p) \/ Kill(p)
  PROVE  EpochInv'
<1> SUFFICES ASSUME starts' <= 1 PROVE EpochInv'
  BY DEF EpochInv
<1>1. /\ UNCHANGED <<serving, participants, starts>>
      /\ replies'[p] = NoReply
      /\ \A q \in Client \ {p} : pc'[q] = pc[q] /\ replies'[q] = replies[q]
      /\ pc[p] \in Places
  BY DEF ClientStep, Launch, FetchScheme, PublishKey, Sleep, WakeUp, Submit,
         Exit, Abort, Fail, Kill, Invoke, GoTo, serverVars, Inv, StateType
<1>2. starts <= 1 /\ OwnershipInv /\ KeysInv /\ DormantInv
  BY <1>1 DEF EpochInv
<1>3. /\ PlaceInv(core, p, pc[p])
      /\ serving /\ Ready(core, p)
           => Owns(participants, p, core[p].encryptor.index)
      /\ serving => OwnReply(participants, p, pc[p], replies[p])
      /\ Shared(core, p)
           => core[p].encryptor.peers \in KeysHeld(core, p, pc[p], replies[p])
      /\ starts = 0 => ~serving /\ ~Ready(core, p) /\ replies[p] = NoReply
  BY <1>2 DEF Inv, ClientsInv, CoreInv, GenuineKeys, OwnershipInv, DormantInv,
              KeysHeld
<1>4. CASE UNCHANGED <<core, requests>>
  BY <1>1, <1>2, <1>3, <1>4, ClientEpoch
<1>5. CASE Launch(p)
  <2>1. UNCHANGED core
          /\ requests' = requests \cup {Request(p, "register", getRegistrationData(p))}
    BY <1>5 DEF Launch, Invoke
  <2>2. \A m \in requests' \ requests : m.call = "register"
    BY <2>1 DEF Request
  <2> QED
    BY <1>1, <1>2, <1>3, <2>1, <2>2, ClientEpoch
<1>6. CASE FetchScheme(p)
  <2>1. /\ UNCHANGED core
        /\ requests' = requests
             \cup {Request(p, "scheme", [regId |-> replies[p].regId])}
        /\ pc[p] = "register" /\ replies[p] # NoReply /\ Succeeded(replies[p])
    BY <1>6 DEF FetchScheme, Granted, Answered, Invoke
  <2>2. \A m \in requests' \ requests :
          m.from = p /\ m.body.regId = replies[p].regId
    BY <2>1 DEF Request
  <2>3. starts # 0 /\ (serving => Owns(participants, p, replies[p].regId))
    BY <1>3, <2>1 DEF OwnReply
  <2> QED
    BY <1>1, <1>2, <1>3, <2>1, <2>2, <2>3, ClientEpoch
<1>7. CASE PublishKey(p)
  <2>1. /\ pc[p] = "scheme" /\ replies[p] # NoReply /\ Succeeded(replies[p])
        /\ ~Shared(core', p)
        /\ core'[p].encryptor.index = replies[p].scheme.index
        /\ \A q \in Client \ {p} : core'[q] = core[q]
        /\ Invoke(p, "pubdata", getPublicData(core'[p]))
    BY <1>7, SchemeCore
  <2>2. \A m \in requests' \ requests : m.call = "pubdata"
    BY <2>1 DEF Invoke, Request
  <2>3. starts # 0
          /\ (serving => Owns(participants, p, core'[p].encryptor.index))
    BY <1>3, <2>1 DEF OwnReply
  <2> QED
    BY <1>1, <1>2, <1>3, <2>1, <2>2, <2>3, ClientEpoch
<1>8. CASE WakeUp(p)
  <2>1. /\ UNCHANGED core /\ pc[p] = "sleeping"
        /\ requests' = requests \cup {Request(p, "allpubdata", NoData)}
    BY <1>8 DEF WakeUp, Invoke
  <2>2. \A m \in requests' \ requests : m.call = "allpubdata"
    BY <2>1 DEF Request
  <2>3. starts # 0
    BY <1>3, <2>1 DEF PlaceInv
  <2> QED
    BY <1>1, <1>2, <1>3, <2>1, <2>2, <2>3, ClientEpoch
<1>9. CASE Submit(p) /\ ~UNCHANGED <<core, requests>>
  <2>1. /\ Ready(core, p)
        /\ GenuineList(core, replies[p].list)
        /\ core' = [core EXCEPT ![p] =
             [encryptor |-> [core[p].encryptor EXCEPT
                               !.peers = PubKeyList(replies[p].list)],
              data |-> ClearData]]
        /\ requests' = requests
             \cup {Request(p, "analyticsdata", getEncryptedAnalyticsData(core'[p]))}
    BY <1>9, SharedCore DEF Invoke
  <2>2. \A m \in requests' \ requests : m.call = "analyticsdata"
    BY <2>1 DEF Request
  <2>3. /\ core[p].encryptor \in Encryptor(Client)
        /\ core[p].encryptor.length = BatchSize
    BY <2>1 DEF Inv, StateType, ClientsInv, CoreInv, CoreType, Ready
  <2>4. /\ core'[p].encryptor.index = core[p].encryptor.index
        /\ core'[p].encryptor.peers = PubKeyList(replies[p].list)
        /\ \A q \in Client \ {p} : core'[q] = core[q]
    BY <2>1, <2>3 DEF Encryptor, Inv, StateType
  <2>5. PubKeyList(replies[p].list)
          \in KeysHeld(core, p, pc[p], replies[p])
    <3> DEFINE list == replies[p].list
    <3>0. /\ Ready(core, p) /\ GenuineList(core, list)
          /\ core[p].encryptor.length = BatchSize
      BY <2>1, <2>3
    <3> HIDE DEF list
    <3>1. /\ GenuineKeys(core, PubKeyList(list))
          /\ PubKeyList(list) = [k \in 1 .. BatchSize |-> list[k].pubKey]
      BY <3>0, GenuineListAccepted
    <3>2. pc[p] = "allpubdata" /\ replies[p] # NoReply /\ Succeeded(replies[p])
      BY <1>9 DEF Submit, Granted, Answered
    <3> QED
      BY <3>1, <3>2 DEF KeysHeld, GenuineKeys, list
  <2>6. starts # 0
    BY <1>3, <2>1
  <2>7. serving => Owns(participants, p, core'[p].encryptor.index)
    BY <1>3, <2>1, <2>4
  <2> QED
    BY <1>1, <1>2, <2>2, <2>4, <2>5, <2>6, <2>7, ClientEpoch
<1> QED
  BY <1>4, <1>5, <1>6, <1>7, <1>8, <1>9
     DEF ClientStep, Sleep, Exit, Abort, Fail, Kill, GoTo

\* The registry grows.
Grows(before, after) ==
  /\ Len(before) <= Len(after)
  /\ \A k \in DOMAIN before :
       k \in DOMAIN after /\ after[k].clientId = before[k].clientId

\* A step of the server that answers one client.
LEMMA AnswerEpoch ==
  ASSUME NEW p \in Client, NEW call, NEW reply,
         Inv, ServerInv', EpochInv, starts = 1, serving,
         UNCHANGED <<serving, starts, pc, core>>,
         Grows(participants, participants'),
         requests' \subseteq requests,
         replies' = IF pc[p] = call THEN [replies EXCEPT ![p] = reply]
                                    ELSE replies,
         OwnReply(participants', p, call, reply),
         call = "allpubdata" /\ Succeeded(reply)
           => /\ UNCHANGED participants
              /\ Len(participants) = BatchSize
              /\ \A k \in 1 .. BatchSize :
                   reply.list[k].pubKey = participants[k].clientId
  PROVE  EpochInv'
<1>1. OwnershipInv /\ KeysInv
  BY DEF EpochInv
<1>2. ServerFacts /\ ServerFacts'
  BY ServerType, ServerTypeAfter DEF Inv
<1>3. ASSUME NEW q, NEW index, Owns(participants, q, index)
      PROVE  Owns(participants', q, index)
  BY <1>3 DEF Owns, Grows
<1>4. ASSUME NEW q \in Client
      PROVE  IF q = p /\ pc[q] = call THEN replies'[q] = reply
                                      ELSE replies'[q] = replies[q]
  BY DEF Inv, StateType
<1>5. OwnershipInv'
  <2>1. ASSUME NEW q \in Client
        PROVE  /\ Ready(core, q)
                    => Owns(participants', q, core[q].encryptor.index)
               /\ OwnReply(participants', q, pc[q], replies'[q])
    <3>1. OwnReply(participants, q, pc[q], replies[q])
      BY <1>1 DEF OwnershipInv
    <3>2. OwnReply(participants', q, pc[q], replies[q])
      BY <1>3, <3>1 DEF OwnReply
    <3>3. OwnReply(participants', q, pc[q], replies'[q])
      BY <1>4, <3>2
    <3> QED
      BY <1>1, <1>3, <3>3 DEF OwnershipInv
  <2>2. \A m \in requests' :
          m.call = "scheme" => Owns(participants', m.from, m.body.regId)
    BY <1>1, <1>3 DEF OwnershipInv
  <2> QED
    BY <2>1, <2>2 DEF OwnershipInv
<1>6. ASSUME NEW q \in Client,
             NEW keys \in KeysHeld(core, q, pc[q], replies'[q])
      PROVE  /\ core[q].encryptor.index + 1 \in 1 .. BatchSize
             /\ keys[core[q].encryptor.index + 1] = q
             /\ BatchSize <= Len(participants')
             /\ \A k \in 1 .. BatchSize : participants'[k].clientId = keys[k]
  <2>1. CASE keys \in KeysHeld(core, q, pc[q], replies[q])
    <3>1. /\ core[q].encryptor.index + 1 \in 1 .. BatchSize
          /\ keys[core[q].encryptor.index + 1] = q
          /\ BatchSize <= Len(participants)
          /\ \A k \in 1 .. BatchSize : participants[k].clientId = keys[k]
      BY <1>1, <2>1 DEF KeysInv, Registered
    <3>2. /\ DOMAIN participants = 1 .. Len(participants)
          /\ Len(participants) \in Nat /\ Len(participants') \in Nat
          /\ BatchSize \in Nat
      BY <1>2, ServerAssumptions DEF ServerFacts
    <3>3. /\ Len(participants) <= Len(participants')
          /\ \A k \in DOMAIN participants :
               participants'[k].clientId = participants[k].clientId
      BY DEF Grows
    <3>4. /\ BatchSize <= Len(participants')
          /\ 1 .. BatchSize \subseteq DOMAIN participants
      <4>1. \A a, b, c \in Nat :
              a <= b => (b <= c => a <= c) /\ 1 .. a \subseteq 1 .. b
        OBVIOUS
      <4>2. BatchSize <= Len(participants)
        BY <3>1
      <4> QED
        BY ONLY <3>2, <3>3, <4>1, <4>2
    <3>5. ASSUME NEW k \in 1 .. BatchSize
          PROVE  participants'[k].clientId = keys[k]
      <4>1. k \in DOMAIN participants
        BY <3>4
      <4> QED
        BY <3>1, <3>3, <4>1
    <3> QED
      BY <3>1, <3>4, <3>5
  <2>2. CASE keys \notin KeysHeld(core, q, pc[q], replies[q])
    <3>1. /\ q = p /\ pc[q] = call /\ call = "allpubdata" /\ Succeeded(reply)
          /\ keys = [k \in 1 .. BatchSize |-> reply.list[k].pubKey]
      BY <1>4, <2>2 DEF KeysHeld
    <3>2. Ready(core, q)
      BY <3>1 DEF Inv, ClientsInv, PlaceInv
    <3>3. Owns(participants, q, core[q].encryptor.index)
      BY <1>1, <3>2 DEF OwnershipInv
    <3> QED
      BY <1>2, <3>1, <3>3, ServerAssumptions DEF Owns, ServerFacts
  <2> QED
    BY <2>1, <2>2
<1>7. KeysInv'
  <2>1. ASSUME NEW q \in Client, NEW r \in Client,
               NEW keys \in KeysHeld(core, q, pc[q], replies'[q]),
               NEW others \in KeysHeld(core, r, pc[r], replies'[r])
        PROVE  others = keys
    <3>1. \A k \in 1 .. BatchSize : others[k] = keys[k]
      BY <1>6
    <3>2. /\ others = [k \in 1 .. BatchSize |-> others[k]]
          /\ keys = [k \in 1 .. BatchSize |-> keys[k]]
      <4>1. /\ others \in [1 .. BatchSize -> Client]
            /\ keys \in [1 .. BatchSize -> Client]
        BY DEF KeysHeld
      <4> QED
        BY <4>1
    <3> QED
      BY <3>1, <3>2
  <2>2. ASSUME NEW q \in Client,
               NEW keys \in KeysHeld(core, q, pc[q], replies'[q])
        PROVE  Registered(keys)'
    BY <1>6 DEF Registered
  <2>3. UNCHANGED <<core, pc>>
    OBVIOUS
  <2> SUFFICES ASSUME NEW q \in Client,
                      NEW keys \in KeysHeld(core', q, pc'[q], replies'[q])
               PROVE  /\ core'[q].encryptor.index + 1 \in 1 .. BatchSize
                      /\ keys[core'[q].encryptor.index + 1] = q
                      /\ Registered(keys)'
                      /\ \A r \in Client :
                           KeysHeld(core', r, pc'[r], replies'[r])
                             \subseteq {keys}
    BY DEF KeysInv
  <2>4. keys \in KeysHeld(core, q, pc[q], replies'[q])
    BY <2>3
  <2>5. \A r \in Client : KeysHeld(core', r, pc'[r], replies'[r])
                            = KeysHeld(core, r, pc[r], replies'[r])
    BY <2>3
  <2>6. /\ core'[q].encryptor.index + 1 \in 1 .. BatchSize
        /\ keys[core'[q].encryptor.index + 1] = q
    BY <1>6, <2>3, <2>4
  <2>7. Registered(keys)'
    BY <2>2, <2>4
  <2>8. ASSUME NEW r \in Client
        PROVE  KeysHeld(core, r, pc[r], replies'[r]) \subseteq {keys}
    BY <2>1, <2>4
  <2> QED
    BY <2>5, <2>6, <2>7, <2>8
<1> QED
  BY <1>5, <1>7 DEF EpochInv, DormantInv

LEMMA DeliverEpoch ==
  ASSUME NEW m \in requests, Inv, EpochInv, Deliver(m) PROVE EpochInv'
<1> DEFINE p == m.from
           reply == exchange'.sent[1]
<1> SUFFICES ASSUME starts' <= 1 PROVE EpochInv'
  BY DEF EpochInv
<1>1. /\ Handle(m)
      /\ requests' \subseteq requests
      /\ replies' = IF pc[p] = m.call THEN [replies EXCEPT ![p] = reply]
                                      ELSE replies
      /\ UNCHANGED <<starts, pc, core>>
  BY DEF Deliver, clientVars
<1>2. /\ RequestInv(core, m) /\ ServerInv /\ ServerFacts /\ RecordsInv
      /\ p \in Client
  BY ServerType DEF Inv, RequestsInv, RequestInv
<1>3. serving
  BY <1>1 DEF Handle, Server!doRegisterParticipant,
              Server!doGetAnalyticsSchemeParams,
              Server!doRecordParticipantsPublicData,
              Server!doGetParticipantsPublicData, Server!doRecordAnalyticsData
<1>4. OwnershipInv /\ starts = 1
  BY <1>1, <1>3 DEF EpochInv, DormantInv, Inv, StateType
<1>5. ServerInv'
  BY DeliverInv DEF Inv
<1>6. SUFFICES /\ UNCHANGED serving
               /\ Grows(participants, participants')
               /\ OwnReply(participants', p, m.call, reply)
               /\ m.call = "allpubdata" /\ Succeeded(reply)
                    => /\ UNCHANGED participants
                       /\ Len(participants) = BatchSize
                       /\ \A k \in 1 .. BatchSize :
                            reply.list[k].pubKey = participants[k].clientId
  BY <1>1, <1>2, <1>3, <1>4, <1>5, AnswerEpoch
<1>7. CASE m.call = "register"
  <2>1. Server!doRegisterParticipant(p)
    BY <1>1, <1>2, <1>7 DEF Handle, RequestInv
  <2>2. /\ UNCHANGED serving
        /\ \/ UNCHANGED participants
           \/ participants' = Append(participants,
                                     Server!Participant(p, participantsIndex))
    BY <1>2, <2>1, RegisterEffect
  <2>3. OwnReply(participants', p, m.call, reply)
    BY <1>2, <1>7, <2>1, RegisterReply DEF OwnReply, Owns
  <2>4. Grows(participants, participants')
    <3>1. participants \in Seq(Proofs!ParticipantType)
      BY <1>2 DEF ServerFacts
    <3>2. CASE UNCHANGED participants
      BY <3>1, <3>2 DEF Grows
    <3>3. ASSUME NEW new, participants' = Append(participants, new)
          PROVE  Grows(participants, participants')
      BY <3>1, <3>3 DEF Grows
    <3> QED
      BY <2>2, <3>2, <3>3
  <2> QED
    BY <1>7, <2>2, <2>3, <2>4
<1>8. CASE m.call = "scheme"
  <2>1. Server!doGetAnalyticsSchemeParams(m.body.regId)
    BY <1>1, <1>8 DEF Handle
  <2>2. /\ UNCHANGED <<serving, participants>>
        /\ Succeeded(reply) => reply.scheme.index = m.body.regId
    BY <1>2, <2>1, SchemeEffect
  <2>3. Owns(participants, p, m.body.regId)
    BY <1>3, <1>4, <1>8 DEF OwnershipInv
  <2> QED
    BY <1>2, <1>8, <2>2, <2>3 DEF OwnReply, Grows, ServerFacts
<1>9. CASE m.call = "pubdata"
  <2>1. Server!doRecordParticipantsPublicData(m.body) /\ m.body \in PublicBody
    BY <1>1, <1>2, <1>9 DEF Handle, RequestInv, Genuine
  <2>2. /\ UNCHANGED serving
        /\ Len(participants') = Len(participants)
        /\ \A k \in DOMAIN participants :
             /\ k \in DOMAIN participants'
             /\ participants'[k].clientId = participants[k].clientId
    BY <1>2, <2>1, PublicDataEffect
  <2> QED
    BY <1>2, <1>9, <2>2 DEF OwnReply, Grows, ServerFacts
<1>10. CASE m.call = "allpubdata"
  <2>1. Server!doGetParticipantsPublicData
    BY <1>1, <1>10 DEF Handle
  <2>2. UNCHANGED <<serving, participants>>
    BY <1>2, <2>1, AllPublicDataEffect
  <2>3. ASSUME Succeeded(reply)
        PROVE  /\ Len(participants) = BatchSize
               /\ \A k \in 1 .. BatchSize :
                    reply.list[k].pubKey = participants[k].clientId
    <3>1. /\ Len(participants) = BatchSize
          /\ reply.list = [k \in 1 .. BatchSize |-> participants[k].publicData]
          /\ \A k \in 1 .. BatchSize : participants[k].publicData # NoData
      BY <1>2, <2>1, <2>3, AllPublicDataEffect
    <3>2. ASSUME NEW k \in 1 .. BatchSize
          PROVE  participants[k].publicData.pubKey = participants[k].clientId
      <4> DEFINE body == participants[k].publicData
      <4>1. Genuine(core, body) /\ body.index = k - 1
        BY <1>2, <3>1 DEF ServerFacts, RecordsInv
      <4>2. body.pubKey \in Client /\ Ready(core, body.pubKey)
              /\ core[body.pubKey].encryptor.index = k - 1
        BY <4>1 DEF Genuine, PublicBody
      <4>3. Owns(participants, body.pubKey, k - 1)
        BY <1>3, <1>4, <4>2 DEF OwnershipInv
      <4> QED
        BY <4>3 DEF Owns
    <3> QED
      BY <3>1, <3>2
  <2> QED
    BY <1>2, <1>10, <2>2, <2>3 DEF OwnReply, Grows, ServerFacts
<1>11. CASE m.call = "analyticsdata"
  <2>1. Server!doRecordAnalyticsData(m.body) /\ m.body \in AnalyticsBody
    BY <1>1, <1>2, <1>11, GenuineDocumentType DEF Handle, RequestInv
  <2>2. /\ UNCHANGED serving
        /\ Len(participants') = Len(participants)
        /\ \A k \in DOMAIN participants :
             /\ k \in DOMAIN participants'
             /\ participants'[k].clientId = participants[k].clientId
    BY <1>2, <2>1, AnalyticsDataEffect
  <2> QED
    BY <1>2, <1>11, <2>2 DEF OwnReply, Grows, ServerFacts
<1> QED
  BY <1>2, <1>7, <1>8, <1>9, <1>10, <1>11 DEF RequestInv, Calls
\* A step in which no client has a part, or only by what is lost on the way.
LEMMA AloneEpoch ==
  ASSUME Inv, EpochInv,
         UNCHANGED <<starts, pc, core, replies>>, requests' \subseteq requests,
         UNCHANGED <<serving, participants>> \/ serving' = FALSE
  PROVE  EpochInv'
<1> SUFFICES ASSUME starts <= 1, OwnershipInv, KeysInv, DormantInv
             PROVE  EpochInv'
  BY DEF EpochInv
<1>1. CASE UNCHANGED <<serving, participants>>
  <2>1. OwnershipInv' /\ DormantInv'
    BY <1>1 DEF OwnershipInv, DormantInv
  <2>2. KeysInv'
    <3> SUFFICES ASSUME NEW p \in Client,
                        NEW keys \in KeysHeld(core', p, pc'[p], replies'[p])
                 PROVE  /\ core'[p].encryptor.index + 1 \in 1 .. BatchSize
                        /\ keys[core'[p].encryptor.index + 1] = p
                        /\ Registered(keys)'
                        /\ \A q \in Client :
                             KeysHeld(core', q, pc'[q], replies'[q])
                               \subseteq {keys}
      BY DEF KeysInv
    <3>1. UNCHANGED <<core, pc, replies, serving, participants>>
      BY <1>1
    <3>2. keys \in KeysHeld(core, p, pc[p], replies[p])
      BY <3>1
    <3>3. Registered(keys) => Registered(keys)'
      BY <3>1 DEF Registered
    <3> QED
      BY <3>1, <3>2, <3>3 DEF KeysInv
  <2> QED
    BY <2>1, <2>2 DEF EpochInv
<1>2. CASE serving' = FALSE
  <2>1. OwnershipInv' /\ DormantInv'
    BY <1>2 DEF OwnershipInv, DormantInv
  <2>2. KeysInv'
    BY <1>2 DEF KeysInv, Registered
  <2> QED
    BY <2>1, <2>2 DEF EpochInv
<1> QED
  BY <1>1, <1>2

LEMMA AskEpoch ==
  ASSUME Inv, EpochInv, Ask PROVE EpochInv'
<1>1. /\ UNCHANGED <<starts, pc, core, replies>>
      /\ requests' \subseteq requests
  BY DEF Ask, clientVars
<1>2. UNCHANGED <<serving, participants>> \/ serving' = FALSE
  BY DEF Ask, Server!doGetAnalysis, Server!EmptyRegistry
<1> QED
  BY <1>1, <1>2, AloneEpoch

LEMMA StopEpoch ==
  ASSUME Inv, EpochInv, StopServer PROVE EpochInv'
<1>1. /\ UNCHANGED <<starts, pc, core, replies>>
      /\ requests' \subseteq requests
      /\ serving' = FALSE
  BY DEF StopServer, clientVars, Server!Stop
<1> QED
  BY <1>1, AloneEpoch

\* The first server that starts finds clients that know nothing yet.
LEMMA StartEpoch ==
  ASSUME Inv, EpochInv, StartServer PROVE EpochInv'
<1>1. starts' = starts + 1 /\ UNCHANGED <<pc, core, requests, replies>>
  BY DEF StartServer, clientVars
<1> SUFFICES ASSUME starts' <= 1 PROVE EpochInv'
  BY DEF EpochInv
<1>2. starts = 0
  BY <1>1, SystemAssumption DEF Inv, StateType, SystemAssumption
<1>3. DormantInv
  BY <1>2 DEF EpochInv
<1>4. /\ \A p \in Client : ~Ready(core', p) /\ replies'[p] = NoReply
      /\ \A m \in requests' : m.call = "register"
  BY <1>1, <1>2, <1>3 DEF DormantInv
<1>5. OwnershipInv'
  BY <1>4 DEF OwnershipInv, OwnReply
<1>6. KeysInv'
  BY <1>4 DEF KeysInv, KeysHeld, Shared
<1>7. DormantInv'
  BY <1>1, <1>2 DEF DormantInv
<1> QED
  BY <1>5, <1>6, <1>7 DEF EpochInv

LEMMA StepEpoch == Inv /\ EpochInv /\ [Next]_vars => EpochInv'
<1> SUFFICES ASSUME Inv, EpochInv, [Next]_vars PROVE EpochInv'
  OBVIOUS
<1>1. ASSUME NEW p \in Client, ClientStep(p) \/ Kill(p) PROVE EpochInv'
  BY <1>1, ClientStepEpoch
<1>2. ASSUME NEW m \in requests, Deliver(m) PROVE EpochInv'
  BY <1>2, DeliverEpoch
<1>3. ASSUME NEW m \in requests, Drop(m) PROVE EpochInv'
  <2>1. /\ UNCHANGED <<serving, participants, starts, pc, core, replies>>
        /\ requests' \subseteq requests
    BY <1>3 DEF Drop, serverVars, clientVars
  <2> QED
    BY <2>1, AloneEpoch
<1>4. CASE UNCHANGED vars
  <2>1. UNCHANGED <<serving, participants, starts, pc, core, replies, requests>>
    BY <1>4 DEF vars, serverVars, clientVars
  <2> QED
    BY <2>1, AloneEpoch
<1> QED
  BY <1>1, <1>2, <1>3, <1>4, AskEpoch, StartEpoch, StopEpoch
     DEF Next, Refuse, Lose

LEMMA InitEpoch == Init => EpochInv
<1> SUFFICES ASSUME Init PROVE EpochInv
  OBVIOUS
<1>1. /\ \A p \in Client : ~Ready(core, p) /\ replies[p] = NoReply
      /\ requests = {}
  BY DEF Init, Ready, NewCore
<1>2. OwnershipInv
  BY <1>1 DEF OwnershipInv, OwnReply
<1>3. KeysInv
  BY <1>1 DEF KeysInv, KeysHeld, Shared
<1>4. DormantInv
  BY <1>1, SystemAssumption DEF DormantInv, Init, SystemAssumption
<1> QED
  BY <1>2, <1>3, <1>4 DEF EpochInv

THEOREM EpochInvariance == Spec => []EpochInv
<1> QED
  BY InitEpoch, StepEpoch, Invariance, PTL DEF Spec

----------------------------------------------------------------------------
(***************************************************************************)
(* While one server process lives, no two clients work under the same      *)
(* index, and the registry names the client each index was given to        *)
(* (main.cpp:86-99, core.cpp:43): neither a lost acknowledgement nor a     *)
(* registration that is handled when its sender has given up mixes two     *)
(* clients up.                                                             *)
(***************************************************************************)
THEOREM IndexesStayDistinct == Spec => [](starts <= 1 => IndexesDistinct)
<1>1. Inv /\ EpochInv => (starts <= 1 => IndexesDistinct)
  <2> SUFFICES ASSUME Inv, EpochInv, starts <= 1, serving,
                      NEW p \in Initialized
               PROVE  /\ Index(p) + 1 \in DOMAIN participants
                      /\ participants[Index(p) + 1].clientId = p
                      /\ \A q \in Initialized \ {p} : Index(q) # Index(p)
    BY DEF IndexesDistinct
  <2>1. ASSUME NEW q \in Initialized
        PROVE  /\ Index(q) + 1 \in DOMAIN participants
               /\ participants[Index(q) + 1].clientId = q
    <3>1. q \in Client /\ Ready(core, q)
      BY DEF Initialized, Uninitialized, Ready
    <3> QED
      BY <3>1 DEF EpochInv, OwnershipInv, Owns, Index
  <2> QED
    BY <2>1
<1> QED
  BY <1>1, Invariance, EpochInvariance, PTL

(***************************************************************************)
(* Every client that computes a share holds the list of keys it shares     *)
(* with all others that do, and its own key stands in this list at its own *)
(* index (core.cpp:87, main.cpp:173-183).                                  *)
(***************************************************************************)
THEOREM OneListOfKeys ==
  Spec => [](starts <= 1 => OneKeyListForAll /\ OwnKeyListed)
<1>1. Inv /\ EpochInv => (starts <= 1 => OneKeyListForAll /\ OwnKeyListed)
  <2> SUFFICES ASSUME Inv, EpochInv, starts <= 1
               PROVE  OneKeyListForAll /\ OwnKeyListed
    OBVIOUS
  <2>1. ASSUME NEW p \in Sharing
        PROVE  /\ p \in Client /\ Key(p) = p
               /\ Peers(p) \in KeysHeld(core, p, pc[p], replies[p])
               /\ Peers(p) \in [1 .. BatchSize -> Client]
    <3>1. p \in Client /\ Shared(core, p)
      BY DEF Sharing, Initialized, Uninitialized, Shared, Ready, Peers
    <3>2. CoreInv(core, p)
      BY <3>1 DEF Inv, ClientsInv
    <3>3. Peers(p) \in [1 .. BatchSize -> Client] /\ Key(p) = p
      BY <3>1, <3>2 DEF CoreInv, GenuineKeys, Peers, Key, Shared
    <3> QED
      BY <3>1, <3>3 DEF KeysHeld, Peers
  <2>2. KeysInv
    BY DEF EpochInv
  <2>3. OneKeyListForAll
    <3> SUFFICES ASSUME NEW p \in Sharing, NEW q \in Sharing
                 PROVE  Peers(p) = Peers(q)
      BY DEF OneKeyListForAll
    <3>1. KeysHeld(core, q, pc[q], replies[q]) \subseteq {Peers(p)}
      BY <2>1, <2>2 DEF KeysInv
    <3> QED
      BY <2>1, <3>1
  <2>4. OwnKeyListed
    <3> SUFFICES ASSUME NEW p \in Sharing
                 PROVE  /\ Index(p) + 1 \in DOMAIN Peers(p)
                        /\ Peers(p)[Index(p) + 1] = Key(p)
      BY DEF OwnKeyListed
    <3>1. Index(p) + 1 \in 1 .. BatchSize /\ Peers(p)[Index(p) + 1] = p
      BY <2>1, <2>2 DEF KeysInv, Index
    <3> QED
      BY <2>1, <3>1
  <2> QED
    BY <2>3, <2>4
<1> QED
  BY <1>1, Invariance, EpochInvariance, PTL

(***************************************************************************)
(* While one server process lives, a client finds its own key in the list  *)
(* it computes its share from, under its own index (core.cpp:87).          *)
(***************************************************************************)
THEOREM OwnKeysListed == Spec => [](starts <= 1 => OwnKeyListed)
<1>1. (starts <= 1 => OneKeyListForAll /\ OwnKeyListed) => (starts <= 1 => OwnKeyListed)
  OBVIOUS
<1> QED
  BY <1>1, OneListOfKeys, PTL
================================================================================
