--------------------- MODULE AnalyticsServiceProperties ---------------------
(***************************************************************************)
(* What AnalyticsService has to guarantee to clients of any make, and what *)
(* its comments promise and the code does not do.                          *)
(***************************************************************************)
EXTENDS AnalyticsService

\* The type of the service's state.
ParticipantType ==
  [clientId : ClientId, index : Nat,
   publicData : PublicBody \cup {NoData},
   analyticsData : AnalyticsBody \cup {NoData}]

TypeOK ==
  /\ serving \in BOOLEAN
  /\ participants \in Seq(ParticipantType)
  /\ participantsIndex \in Nat
  /\ mParticipantsAnalyticsDataList \in Seq(AnalyticsBody)

(***************************************************************************)
(* The registry (main.cpp:245-247) identifies participants: the indexes    *)
(* are the positions 0, 1, ... without a gap, no client id occurs twice    *)
(* however often a client repeats its registration, and what is filed      *)
(* under a participant carries that participant's index.  A process that   *)
(* has ended leaves none of it behind.                                     *)
(***************************************************************************)
IndexIsPosition ==
  /\ participantsIndex = Len(participants)
  /\ \A k \in DOMAIN participants : participants[k].index = k - 1

ClientIdsDistinct ==
  \A j, k \in DOMAIN participants :
    participants[j].clientId = participants[k].clientId => j = k

FiledUnderOwnIndex ==
  \A k \in DOMAIN participants :
    LET p == participants[k] IN
      /\ p.publicData # NoData => p.publicData.index = p.index
      /\ p.analyticsData # NoData => p.analyticsData.index = p.index

\* Nothing of the registry outlives the process.
LostWithProcess == ~serving => participants = <<>>

RegistryInv ==
  IndexIsPosition /\ ClientIdsDistinct /\ FiledUnderOwnIndex /\ LostWithProcess

(***************************************************************************)
(* The public data list that a client takes for an answer (main.cpp:166-   *)
(* 183) has an entry for every participant of the batch, in index order.   *)
(* On such a list the insertions of core.cpp:100 are defined, and a client *)
(* reads this list and no other: the list that follows a refusal is never  *)
(* read.                                                                   *)
(***************************************************************************)
PublicDataListUsable ==
  (exchange.handler = "doGetParticipantsPublicData" /\ FirstReply.code = "Ok")
  => /\ Len(FirstReply.list) = BatchSize
     /\ \A k \in 1 .. BatchSize : FirstReply.list[k].index = k - 1

(***************************************************************************)
(* The index that a registration is answered with (main.cpp:92-98) is that *)
(* of the requesting client, at the first and at every repeated request.   *)
(***************************************************************************)
AckCarriesOwnIndex ==
  (exchange.handler = "doRegisterParticipant"
     /\ FirstReply.code \in {"Created", "Ok"})
  => \E k \in DOMAIN participants :
       /\ participants[k].clientId = exchange.client
       /\ FirstReply.regId = participants[k].index

(***************************************************************************)
(* The list of documents in order of arrival and the registry are two      *)
(* copies of the same data (main.cpp:200-201): what a participant has on   *)
(* record is the last document that arrived under its index.               *)
(***************************************************************************)
RecordIsLatestArrival ==
  \A k \in DOMAIN participants :
    LET list == mParticipantsAnalyticsDataList
        own == {j \in DOMAIN list : list[j].index = participants[k].index}
    IN  /\ own = {} => participants[k].analyticsData = NoData
        /\ \A j \in own : (\A i \in own : i <= j)
             => participants[k].analyticsData = list[j]

(***************************************************************************)
(* While the process lives nothing is taken back: a registered client      *)
(* keeps its place and index, published data is replaced at most by data   *)
(* of the same index, and the list of documents only grows.                *)
(***************************************************************************)
NothingWithdrawn ==
  [][(serving /\ serving') =>
       /\ Len(participants) <= Len(participants')
       /\ \A k \in DOMAIN participants :
            /\ participants'[k].clientId = participants[k].clientId
            /\ participants'[k].index = participants[k].index
            /\ participants[k].publicData # NoData
                 => participants'[k].publicData # NoData
       /\ IsPrefix(mParticipantsAnalyticsDataList,
                   mParticipantsAnalyticsDataList')]_vars

(***************************************************************************)
(* A batch that took in one registration too many (main.cpp:79-81 goes on  *)
(* after the refusal) never serves again: until the process is restarted   *)
(* every list and every analysis is refused first, because the conditions  *)
(* of main.cpp:169 and 224 ask for equality.                               *)
(***************************************************************************)
OverfullNeverServes ==
  [][(participantsIndex > BatchSize /\ serving') =>
       /\ participantsIndex' > BatchSize
       /\ exchange'.handler \in {"doGetParticipantsPublicData", "doGetAnalysis"}
            => exchange'.sent[1] = NotEnough]_vars

(***************************************************************************)
(* A set of documents that the analysis cannot answer is final as well:    *)
(* once as many documents have arrived as the batch has participants, and  *)
(* they do not fit together, or once there is one more, every analysis     *)
(* fails or is refused until the process ends.  A participant that sends a *)
(* better document, or the missing one, only makes the list longer         *)
(* (main.cpp:201), and the condition of main.cpp:224 asks for equality.    *)
(***************************************************************************)
Answerable(list) ==
  /\ Len(list) = BatchSize
  /\ \E analysis \in getInnerProductAnalysis(list, BatchSize, Bound) :
       analysis.status = "kOk"

Hopeless ==
  /\ Len(mParticipantsAnalyticsDataList) >= BatchSize
  /\ ~Answerable(mParticipantsAnalyticsDataList)

FailureIsFinal ==
  [][(Hopeless /\ serving') =>
       /\ Hopeless'
       /\ exchange'.handler = "doGetAnalysis"
            => exchange'.sent[1].code # "Ok"]_vars

----------------------------------------------------------------------------
(***************************************************************************)
(* "batch is full" (main.cpp:78-80): a client told so has not been added.  *)
(* The code adds it.                                                       *)
(***************************************************************************)
BatchNeverOverfull == participantsIndex <= BatchSize

(***************************************************************************)
(* "return only if we have enough participants" (main.cpp:168): a refused  *)
(* request for the list is answered by the refusal alone.  The code sends  *)
(* the incomplete list, or an error of the parser, after it.               *)
(***************************************************************************)
RefusalIsTheAnswer ==
  exchange.handler = "doGetParticipantsPublicData" /\ FirstReply = NotEnough
    => Len(exchange.sent) = 1
=============================================================================
