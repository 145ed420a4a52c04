------------------------------ MODULE Prinsight ------------------------------
(***************************************************************************)
(* The whole system: runs of the client program (client/source/main.cpp),  *)
(* each with a Core of its own, the HTTP calls between them and the        *)
(* coordinating server (AnalyticsService), and an analyst who asks the     *)
(* server for the analysis.                                                *)
(*                                                                         *)
(* A client is always in one call or between two: pc[p] names the call it  *)
(* waits in.  Every call occurs once in main(), in a fixed order, and none *)
(* is repeated.  A run draws a client id and a key pair of its own, both   *)
(* are identified with the run.                                            *)
(***************************************************************************)
EXTENDS Core

CONSTANTS
  Client,          \* runs of the client program
  ClearData,       \* the values every client measures: a function from labels
  BatchSize,       \* participants in one analysis
  Bound,           \* the largest sum the analysis has to find
  Malformed,       \* as in AnalyticsService; no client posts it
  NoData,          \* the public and analytics data of a new participant
  NoReply,         \* the call has not been answered
  ServerUpFirst,   \* the server is up before the first client is launched
  MaxStarts,       \* bound: starts of the server process
  Timely,          \* clients are launched together: the sleep covers the others
  Faulty           \* calls time out, messages get lost, clients are killed

\* What clients post: a public data and an analytics data document.
PublicBody == [index : Nat, pubKey : Client]
AnalyticsBody ==
  [index : Nat,
   encData : [DOMAIN ClearData ->
                Seq([key : Client, label : DOMAIN ClearData, value : Nat])],
   fdKey : Seq(Seq([key : Client, index : Nat, peers : Seq(Client),
                    policy : Nat]))]

ASSUME SystemAssumption ==
  /\ BatchSize \in Nat \ {0}
  /\ MaxStarts \in Nat \ {0}
  /\ ServerUpFirst \in BOOLEAN /\ Timely \in BOOLEAN /\ Faulty \in BOOLEAN
  /\ nullptr \notin Encryptor(Client)
  /\ NoData \notin PublicBody \cup AnalyticsBody
  /\ Malformed \notin Client \cup PublicBody \cup AnalyticsBody

\* There is something to measure, and the sum fits into an unsigned long: the
\* client sets two labels to 1 and 5, and a batch has two participants.
ASSUME ClearDataAssumption ==
  /\ DOMAIN ClearData # {}
  /\ \A l \in DOMAIN ClearData :
       ClearData[l] \in Nat /\ BatchSize * ClearData[l] < ULongRange

VARIABLES
  serving, participants, participantsIndex,     \* see AnalyticsService
  mParticipantsAnalyticsDataList, exchange,
  starts,          \* how often the server has been started
  pc,              \* where every client is
  core,            \* the Core of every client
  requests,        \* requests sent and not handled yet
  replies          \* the answer to the call a client waits in

serverVars == <<serving, participants, participantsIndex,
                mParticipantsAnalyticsDataList, exchange>>
clientVars == <<pc, core>>
vars == <<serverVars, starts, clientVars, requests, replies>>

Server == INSTANCE AnalyticsService
            WITH ClientId <- Client, MaxSubmissions <- Cardinality(Client)

----------------------------------------------------------------------------
Calls == {"register", "scheme", "pubdata", "allpubdata", "analyticsdata"}
Over == {"exited", "aborted", "killed"}
Places == Calls \cup Over \cup {"ready", "sleeping"}

\* The calls without whose answer the client parses the empty string next.
\* (A registration without an answer is followed by a request for the scheme
\* of no client, which matches no route of the server.)
Needed == {"register", "scheme", "allpubdata"}

Request(p, call, body) == [from |-> p, call |-> call, body |-> body]

Succeeded(reply) == reply.code \in {"Ok", "Created"}

\* p leaves the call it was in and sends the next request.
Invoke(p, call, body) ==
  /\ pc' = [pc EXCEPT ![p] = call]
  /\ requests' = requests \cup {Request(p, call, body)}
  /\ replies' = [replies EXCEPT ![p] = NoReply]
  /\ UNCHANGED <<serverVars, starts>>

\* p leaves the call it was in, and sends nothing.
GoTo(p, place) ==
  /\ pc' = [pc EXCEPT ![p] = place]
  /\ replies' = [replies EXCEPT ![p] = NoReply]
  /\ UNCHANGED <<serverVars, starts, core, requests>>

Answered(p, call) == pc[p] = call /\ replies[p] # NoReply

Granted(p, call) == Answered(p, call) /\ Succeeded(replies[p])

----------------------------------------------------------------------------
\* main() of the client, one action from each return of a call to the next call.
Launch(p) ==
  /\ pc[p] = "ready"
  /\ Invoke(p, "register", getRegistrationData(p))
  /\ UNCHANGED core

FetchScheme(p) ==
  /\ Granted(p, "register")
  /\ Invoke(p, "scheme", [regId |-> replies[p].regId])
  /\ UNCHANGED core

PublishKey(p) ==
  /\ Granted(p, "scheme")
  /\ core' = [core EXCEPT ![p] =
                initializeAnalyticsScheme(@, replies[p].scheme, p)]
  /\ Invoke(p, "pubdata", getPublicData(core'[p]))

\* Whatever the server said to the public data, the client goes on.
Sleep(p) == Answered(p, "pubdata") /\ GoTo(p, "sleeping")

\* "sleep for few seconds so that other client can publish data"
Published(p) == pc[p] \notin {"ready", "register", "scheme", "pubdata"}

WakeUp(p) ==
  /\ pc[p] = "sleeping"
  /\ Timely => \A q \in Client : Published(q)
  /\ Invoke(p, "allpubdata", NoData)
  /\ UNCHANGED core

\* The status of provideParticipantsPublicData is ignored: without a share the
\* client encrypts and derives a key part all the same.  An insertion past the
\* end may kill it or leave a share of nobody's keys.
Provided(c, list) ==
  CASE ProvideStatus(c, list) = "kOk" -> {provideParticipantsPublicData(c, list)}
    [] ProvideStatus(c, list) = "undefined" -> {c, NewCore}
    [] OTHER -> {c}

\* One call of setClearAnalyticsData after the other, each for a label of its
\* own, on a Core without data.
WithClearData(c) == [c EXCEPT !.data = ClearData]

Submit(p) ==
  /\ Granted(p, "allpubdata")
  /\ \E c \in Provided(core[p], replies[p].list) :
       IF Uninitialized(c)
         THEN GoTo(p, "aborted")
         ELSE /\ core' = [core EXCEPT ![p] = WithClearData(c)]
              /\ Invoke(p, "analyticsdata", getEncryptedAnalyticsData(core'[p]))

Exit(p) == Answered(p, "analyticsdata") /\ GoTo(p, "exited")

\* Mutant of Abort: told to retry, the client sleeps and asks once more.
RetryLater(p) ==
  /\ \E call \in Needed : Answered(p, call) /\ ~Succeeded(replies[p])
  /\ GoTo(p, IF pc[p] = "allpubdata" THEN "sleeping" ELSE "aborted")

\* A refusal leaves the empty string, and parsing it ends the process.
Abort(p) ==
  /\ \E call \in Needed : Answered(p, call) /\ ~Succeeded(replies[p])
  /\ GoTo(p, "aborted")

\* The call returns without an answer; its request may still be under way.
InFlight(p) == {m \in requests : m.from = p /\ m.call = pc[p]}

Fail(p) ==
  /\ pc[p] \in Calls
  /\ replies[p] = NoReply
  /\ Faulty \/ InFlight(p) = {}
  /\ GoTo(p, CASE pc[p] \in Needed -> "aborted"
               [] pc[p] = "pubdata" -> "sleeping"
               [] OTHER -> "exited")

Kill(p) ==
  /\ Faulty
  /\ pc[p] \notin Over \cup {"ready"}
  /\ GoTo(p, "killed")

ClientStep(p) ==
  \/ Launch(p) \/ FetchScheme(p) \/ PublishKey(p) \/ Sleep(p) \/ WakeUp(p)
  \/ Submit(p) \/ Exit(p) \/ Abort(p) \/ Fail(p)

----------------------------------------------------------------------------
\* The network and the server.
Handle(m) ==
  \/ m.call = "register" /\ Server!doRegisterParticipant(m.body.clientId)
  \/ m.call = "scheme" /\ Server!doGetAnalyticsSchemeParams(m.body.regId)
  \/ m.call = "pubdata" /\ Server!doRecordParticipantsPublicData(m.body)
  \/ m.call = "allpubdata" /\ Server!doGetParticipantsPublicData
  \/ m.call = "analyticsdata" /\ Server!doRecordAnalyticsData(m.body)

\* The first response reaches the client if it still waits in this call.
Deliver(m) ==
  /\ Handle(m)
  /\ requests' = requests \ {m}
  /\ replies' = IF pc[m.from] = m.call
                  THEN [replies EXCEPT ![m.from] = exchange'.sent[1]]
                  ELSE replies
  /\ UNCHANGED <<starts, clientVars>>

\* Nobody listens, or the message is lost.
Drop(m) ==
  /\ requests' = requests \ {m}
  /\ UNCHANGED <<serverVars, starts, clientVars, replies>>

Refuse(m) == ~serving /\ Drop(m)
Lose(m) == Faulty /\ serving /\ Drop(m)

\* The analyst's GET /analysis.  It may be the death of the server, and the
\* connections die with it.
Ask ==
  /\ Server!doGetAnalysis
  /\ requests' = IF serving' THEN requests ELSE {}
  /\ UNCHANGED <<starts, clientVars, replies>>

StartServer ==
  /\ starts < MaxStarts
  /\ starts' = starts + 1
  /\ Server!Start
  /\ UNCHANGED <<clientVars, requests, replies>>

\* Stopped by somebody who will start it again.
StopServer ==
  /\ starts < MaxStarts
  /\ Server!Stop
  /\ requests' = {}
  /\ UNCHANGED <<starts, clientVars, replies>>

Init ==
  /\ serving = ServerUpFirst
  /\ participants = <<>>
  /\ participantsIndex = 0
  /\ mParticipantsAnalyticsDataList = <<>>
  /\ exchange = Server!NoExchange
  /\ starts = IF ServerUpFirst THEN 1 ELSE 0
  /\ pc = [p \in Client |-> "ready"]
  /\ core = [p \in Client |-> NewCore]
  /\ requests = {}
  /\ replies = [p \in Client |-> NoReply]

Next ==
  \/ \E p \in Client : ClientStep(p) \/ Kill(p)
  \/ \E m \in requests : Deliver(m) \/ Refuse(m) \/ Lose(m)
  \/ Ask
  \/ StartServer
  \/ StopServer

\* Processes run, the server handles what reaches it, whoever wants the answer
\* asks again when told to, and starts the server when it is down.
Fairness ==
  /\ \A p \in Client :
       /\ WF_vars(ClientStep(p))
       /\ WF_vars(\E m \in requests : m.from = p /\ (Deliver(m) \/ Refuse(m)))
  /\ WF_vars(Ask)
  /\ WF_vars(StartServer)

Spec == Init /\ [][Next]_vars /\ Fairness
=============================================================================
