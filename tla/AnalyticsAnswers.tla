-------------------------- MODULE AnalyticsAnswers --------------------------
(***************************************************************************)
(* What the answers of the coordinating server say, when the documents it  *)
(* gets were made with encryptors of clients: however many of them a       *)
(* client has had, with a share or without, whatever became of the texts   *)
(* on the way and whoever posts them, and how often.                       *)
(***************************************************************************)
EXTENDS AnalyticsServiceProperties

CONSTANT Encryptors   \* the encryptors that clients have had

ASSUME MakersAssumption ==
  /\ NoKeyEarly(Encryptors)
  /\ \A d \in AnalyticsBody : \E e \in Encryptors : MadeBy(e, d)

(***************************************************************************)
(* A number that GET /analysis gives as an answer (main.cpp:224-240), and  *)
(* that is not read from stray memory, is about everybody: each            *)
(* participant of the full batch is counted exactly once, with the         *)
(* document it has on record.  Documents sent twice satisfy the count in   *)
(* the guard, and it is the key parts that fail to add up.                 *)
(***************************************************************************)
AnswerCountsEveryone ==
  (/\ exchange.handler = "doGetAnalysis" /\ serving
   /\ FirstReply.code = "Ok"
   /\ \E l \in DOMAIN FirstReply.result : FirstReply.result[l] # Unpredictable)
  => /\ Len(participants) = BatchSize
     /\ mParticipantsAnalyticsDataList
          = [k \in DOMAIN participants |-> participants[k].analyticsData]
=============================================================================
