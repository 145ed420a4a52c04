-------------------------- MODULE AnalyticsService --------------------------
(***************************************************************************)
(* The coordinating server (server/source/main.cpp): class                 *)
(* AnalyticsService and its six REST handlers.                             *)
(*                                                                         *)
(* Every handler holds participantsLock from its first access to the       *)
(* shared members to its last, so with any number of worker threads one    *)
(* handler is one step.  A handler may send more than one response: it     *)
(* goes on after a refusal wherever the code has no return.  `exchange`    *)
(* records the last request handled and everything that was sent to it.    *)
(*                                                                         *)
(* The members live in the memory of the process: a server that was        *)
(* stopped, or that died, starts with an empty registry.                   *)
(***************************************************************************)
EXTENDS InnerProduct

CONSTANTS
  ClientId,       \* the client ids that clients choose
  PublicBody,     \* the bodies posted to /analytics/pubdata, records with .index
  AnalyticsBody,  \* the bodies posted to /analytics/analyticsdata, likewise
  Malformed,      \* a body that is not JSON, or that lacks the member looked up;
                  \* an id in a path that is no number
  NoData,         \* the empty string a Participant starts with
  BatchSize,      \* participants in one analysis
  Bound,          \* the largest sum the analysis has to find
  MaxSubmissions  \* bound: analytics data documents posted in one server run

ASSUME BatchSizeAssumption == BatchSize \in Nat \ {0}

ASSUME BodyAssumption ==
  /\ NoData \notin PublicBody \cup AnalyticsBody
  /\ Malformed \notin ClientId \cup PublicBody \cup AnalyticsBody

VARIABLES
  serving,                         \* the process is up
  participants,                    \* the registry, in order of registration
  participantsIndex,               \* the index the next participant gets
  mParticipantsAnalyticsDataList,  \* posted documents in order of arrival
  exchange                         \* the last request and all responses to it

vars == <<serving, participants, participantsIndex,
          mParticipantsAnalyticsDataList, exchange>>

----------------------------------------------------------------------------
\* Mutant of Participant: the index is stored one too low.
IndexTooLow(clientId, index) ==
  [clientId |-> clientId, index |-> index - 1,
   publicData |-> NoData, analyticsData |-> NoData]

Participant(clientId, index) ==
  [clientId |-> clientId, index |-> index,
   publicData |-> NoData, analyticsData |-> NoData]

\* Responses: a code, and a field named for what the body holds.
\* Mutant of Created: answered after the increment.
AlreadyIncremented(index) == [code |-> "Created", regId |-> index + 1]

Created(index) == [code |-> "Created", regId |-> index]
Registered(index) == [code |-> "Ok", regId |-> index]
Scheme(params) == [code |-> "Ok", scheme |-> params]
Recorded == [code |-> "Ok"]
PublicDataList(list) == [code |-> "Ok", list |-> list]
Result(result) == [code |-> "Ok", result |-> result]
NotRegistered == [code |-> "Not_Found", error |-> "client is not registered"]
BadRequest == [code |-> "Bad_Request", error |-> "parse error"]
ServerError(text) == [code |-> "Internal_Server_Error", error |-> text]
NotEnough == ServerError("not enough participants, retry")

NoExchange == [handler |-> "none", client |-> Malformed, sent |-> <<>>]

\* Only a registration names its client.
SendTo(client, handler, replies) ==
  exchange' = [handler |-> handler, client |-> client, sent |-> replies]

Send(handler, replies) == SendTo(Malformed, handler, replies)

\* The response that reaches the client: the first one on its connection.
FirstReply == exchange.sent[1]

\* Mutant of FirstOfClient: no look-up.
NeverFound(clientId) == {}

\* std::find_if over the registry: the first match.
FirstOfClient(clientId) ==
  {k \in DOMAIN participants :
     /\ participants[k].clientId = clientId
     /\ \A j \in 1 .. (k - 1) : participants[j].clientId # clientId}

\* Mutant of FirstOfIndex: an index taken for a position.
AtPosition(index) == {k \in DOMAIN participants : k = index}

FirstOfIndex(index) ==
  {k \in DOMAIN participants :
     /\ participants[k].index = index
     /\ \A j \in 1 .. (k - 1) : participants[j].index # index}

\* Mutants of BatchIsFull: full from the batch size on, and above it only.
FullOrOverfull == BatchSize <= participantsIndex
OverfullOnly == BatchSize < participantsIndex

BatchIsFull == BatchSize = participantsIndex

EmptyRegistry ==
  /\ participants' = <<>>
  /\ participantsIndex' = 0
  /\ mParticipantsAnalyticsDataList' = <<>>

----------------------------------------------------------------------------
\* POST /register.  A full batch is refused, and the registration goes on.
RefusalIfFull ==
  IF BatchIsFull THEN <<ServerError("batch is full")>> ELSE <<>>

\* Mutant of Add: in a full batch the newcomer takes over the last place.
TakeOverLastPlace(clientId) ==
  IF BatchIsFull
    THEN /\ participants' = [participants EXCEPT
                               ![BatchSize] = Participant(clientId, BatchSize - 1)]
         /\ UNCHANGED participantsIndex
    ELSE /\ participantsIndex' = participantsIndex + 1
         /\ participants' =
              Append(participants, Participant(clientId, participantsIndex))

Add(clientId) ==
  /\ participantsIndex' = participantsIndex + 1
  /\ participants' =
       Append(participants, Participant(clientId, participantsIndex))

doRegisterParticipant(clientId) ==
  /\ serving
  /\ \/ /\ clientId = Malformed
        /\ SendTo(clientId, "doRegisterParticipant",
                RefusalIfFull \o <<BadRequest>>)
        /\ UNCHANGED <<participants, participantsIndex>>
     \/ /\ clientId # Malformed
        /\ FirstOfClient(clientId) = {}
        /\ Add(clientId)
        /\ SendTo(clientId, "doRegisterParticipant",
                RefusalIfFull \o <<Created(participantsIndex)>>)
     \/ \E k \in FirstOfClient(clientId) :
          /\ SendTo(clientId, "doRegisterParticipant",
                  RefusalIfFull \o <<Registered(participants[k].index)>>)
          /\ UNCHANGED <<participants, participantsIndex>>
  /\ UNCHANGED <<serving, mParticipantsAnalyticsDataList>>

\* GET /analytics/scheme/:regId.  What the conversion of the id throws nobody here
\* catches: the HTTP library answers.
doGetAnalyticsSchemeParams(regId) ==
  /\ serving
  /\ \/ /\ regId = Malformed
        /\ Send("doGetAnalyticsSchemeParams", <<ServerError("no number")>>)
     \/ /\ regId # Malformed
        /\ FirstOfIndex(regId) = {}
        /\ Send("doGetAnalyticsSchemeParams", <<NotRegistered>>)
     \/ /\ regId # Malformed
        /\ \E k \in FirstOfIndex(regId) :
             Send("doGetAnalyticsSchemeParams",
                  <<Scheme([index |-> participants[k].index,
                            participantsCount |-> BatchSize,
                            bound |-> Bound])>>)
  /\ UNCHANGED <<serving, participants, participantsIndex,
                 mParticipantsAnalyticsDataList>>

\* POST /analytics/pubdata/
doRecordParticipantsPublicData(body) ==
  /\ serving
  /\ \/ /\ body = Malformed
        /\ Send("doRecordParticipantsPublicData", <<BadRequest>>)
        /\ UNCHANGED participants
     \/ /\ body # Malformed
        /\ FirstOfIndex(body.index) = {}
        /\ Send("doRecordParticipantsPublicData", <<NotRegistered>>)
        /\ UNCHANGED participants
     \/ /\ body # Malformed
        /\ \E k \in FirstOfIndex(body.index) :
             participants' = [participants EXCEPT ![k].publicData = body]
        /\ Send("doRecordParticipantsPublicData", <<Recorded>>)
  /\ UNCHANGED <<serving, participantsIndex, mParticipantsAnalyticsDataList>>

\* GET /analytics/allpubdata.  An incomplete batch is refused, and the list is
\* sent all the same, unless parsing an empty public data string throws: then
\* the HTTP library answers for the handler.
\* Mutant of RefusalIfNotEnough: an incomplete batch is served.
NeverRefused == <<>>

RefusalIfNotEnough == IF BatchIsFull THEN <<>> ELSE <<NotEnough>>

AllPublicData == [k \in DOMAIN participants |-> participants[k].publicData]

SerializedPublicData ==
  IF \E k \in DOMAIN participants : participants[k].publicData = NoData
    THEN ServerError("parse error")
    ELSE PublicDataList(AllPublicData)

doGetParticipantsPublicData ==
  /\ serving
  /\ Send("doGetParticipantsPublicData",
          RefusalIfNotEnough \o <<SerializedPublicData>>)
  /\ UNCHANGED <<serving, participants, participantsIndex,
                 mParticipantsAnalyticsDataList>>

\* The document list is only ever appended to.
\* Mutant of Stored: a former document of the same index gives way.
FormerReplaced(list, body) ==
  LET former == {j \in DOMAIN list : list[j].index = body.index}
  IN  IF former = {} THEN Append(list, body)
      ELSE [j \in DOMAIN list |-> IF j \in former THEN body ELSE list[j]]

Stored(list, body) == Append(list, body)

\* POST /analytics/analyticsdata.  The document replaces the participant's
\* former one, and is appended to the list.
doRecordAnalyticsData(body) ==
  /\ serving
  /\ \/ /\ body = Malformed
        /\ Send("doRecordAnalyticsData", <<BadRequest>>)
        /\ UNCHANGED <<participants, mParticipantsAnalyticsDataList>>
     \/ /\ body # Malformed
        /\ FirstOfIndex(body.index) = {}
        /\ Send("doRecordAnalyticsData", <<NotRegistered>>)
        /\ UNCHANGED <<participants, mParticipantsAnalyticsDataList>>
     \/ /\ body # Malformed
        /\ \E k \in FirstOfIndex(body.index) :
             participants' = [participants EXCEPT ![k].analyticsData = body]
        /\ mParticipantsAnalyticsDataList' =
             Stored(mParticipantsAnalyticsDataList, body)
        /\ Send("doRecordAnalyticsData", <<Recorded>>)
  /\ UNCHANGED <<serving, participantsIndex>>

\* GET /analysis.  After a failed analysis the partial result is sent as well.
\* For an exception the HTTP library answers.
\* Mutants of EnoughForAnalysis: no check of the registry, and a document more
\* than the batch has.
EnoughDocuments == BatchSize = Len(mParticipantsAnalyticsDataList)
MoreThanEnough == BatchIsFull /\ BatchSize < Len(mParticipantsAnalyticsDataList)

EnoughForAnalysis ==
  /\ BatchIsFull
  /\ BatchSize = Len(mParticipantsAnalyticsDataList)

AnalysisReplies(analysis) ==
  CASE analysis.status = "exception" -> <<ServerError("parse error")>>
    [] analysis.status = "kOk" -> <<Result(analysis.result)>>
    [] OTHER -> <<ServerError("unknown error"), Result(analysis.result)>>

doGetAnalysis ==
  /\ serving
  /\ \/ /\ ~EnoughForAnalysis
        /\ Send("doGetAnalysis", <<NotEnough>>)
        /\ UNCHANGED <<serving, participants, participantsIndex,
                       mParticipantsAnalyticsDataList>>
     \/ /\ EnoughForAnalysis
        /\ \E analysis \in getInnerProductAnalysis(
                             mParticipantsAnalyticsDataList, BatchSize, Bound) :
             \/ /\ analysis.status = "crash"
                /\ serving' = FALSE
                /\ EmptyRegistry
                /\ Send("doGetAnalysis", <<>>)
             \/ /\ analysis.status # "crash"
                /\ Send("doGetAnalysis", AnalysisReplies(analysis))
                /\ UNCHANGED <<serving, participants, participantsIndex,
                               mParticipantsAnalyticsDataList>>

----------------------------------------------------------------------------
\* main() makes the service; whoever runs it may stop it.
Start ==
  /\ ~serving
  /\ serving' = TRUE
  /\ EmptyRegistry
  /\ exchange' = NoExchange

Stop ==
  /\ serving
  /\ serving' = FALSE
  /\ EmptyRegistry
  /\ exchange' = NoExchange

Init ==
  /\ serving = TRUE
  /\ participants = <<>>
  /\ participantsIndex = 0
  /\ mParticipantsAnalyticsDataList = <<>>
  /\ exchange = NoExchange

\* Clients of any make, repeating and reordering their requests at will.
Next ==
  \/ \E c \in ClientId \cup {Malformed} : doRegisterParticipant(c)
  \/ \E i \in (0 .. BatchSize) \cup {Malformed} : doGetAnalyticsSchemeParams(i)
  \/ \E b \in PublicBody \cup {Malformed} : doRecordParticipantsPublicData(b)
  \/ doGetParticipantsPublicData
  \/ /\ Len(mParticipantsAnalyticsDataList) < MaxSubmissions
     /\ \E b \in AnalyticsBody \cup {Malformed} : doRecordAnalyticsData(b)
  \/ doGetAnalysis
  \/ Start
  \/ Stop

Spec == Init /\ [][Next]_vars
=============================================================================
