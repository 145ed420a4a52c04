------------------------ MODULE PrinsightProperties ------------------------
(***************************************************************************)
(* What clients, network and server achieve together, and what the docs    *)
(* and comments say of the system and it does not do.                      *)
(***************************************************************************)
EXTENDS Prinsight

Key(p) == core[p].encryptor.key
Index(p) == core[p].encryptor.index
Peers(p) == core[p].encryptor.peers

Initialized == {p \in Client : ~Uninitialized(core[p])}
Sharing == {p \in Initialized : Peers(p) # NoPeers}

\* The answer the analyst reads.
AnswerGiven ==
  exchange.handler = "doGetAnalysis" /\ serving /\ Server!FirstReply.code = "Ok"
Answer == Server!FirstReply.result

InIndexOrder(ds) == \A k \in DOMAIN ds : ds[k].index = k - 1

ExpectedSum == [l \in DOMAIN ClearData |-> BatchSize * ClearData[l]]

\* The type of the state of clients and network.
TypeOK ==
  /\ pc \in [Client -> Places]
  /\ \A p \in Client :
       core[p].encryptor \in Encryptor(Client) \cup {nullptr}
  /\ \A m \in requests : m.from \in Client /\ m.call \in Calls
  /\ \A p \in Client : replies[p] # NoReply => pc[p] \in Calls
  /\ starts \in 0 .. MaxStarts

(***************************************************************************)
(* While one server process lives, no two clients work under the same      *)
(* index, and the registry names the client each index was given to:       *)
(* neither lost acknowledgements nor registrations handled after their     *)
(* sender gave up mix two clients up (main.cpp:86-99, core.cpp:43).        *)
(***************************************************************************)
IndexesDistinct ==
  serving => \A p \in Initialized :
    /\ Index(p) + 1 \in DOMAIN participants
    /\ participants[Index(p) + 1].clientId = p
    /\ \A q \in Initialized \ {p} : Index(q) # Index(p)

(***************************************************************************)
(* All clients that compute a share compute it from the same list of       *)
(* public keys, whenever each of them asked for it: the masks of their key *)
(* parts only cancel if they do.  The list of main.cpp:173-183 is served   *)
(* when the batch is complete and never changes after that.                *)
(***************************************************************************)
OneKeyListForAll ==
  \A p, q \in Sharing : Peers(p) = Peers(q)

(***************************************************************************)
(* "server gives the list of pub-keys of all clients including this one"   *)
(* (core.cpp:87): a client finds its own key in the list it computes its   *)
(* share from, under its own index.                                        *)
(***************************************************************************)
OwnKeyListed ==
  \A p \in Sharing :
    Index(p) + 1 \in DOMAIN Peers(p) /\ Peers(p)[Index(p) + 1] = Key(p)

(***************************************************************************)
(* No list that a client takes for an answer to GET allpubdata is rejected *)
(* by core.cpp:82-96, and none makes the insertion of core.cpp:100 run     *)
(* past the end; the status that client/source/main.cpp:135 ignores is     *)
(* kOk, also for a client that outlived the server it registered with.     *)
(***************************************************************************)
ListsAlwaysAccepted ==
  \A p \in Client :
    Granted(p, "allpubdata") => ProvideStatus(core[p], replies[p].list) = "kOk"

(***************************************************************************)
(* The number the analyst is given is the sum over BatchSize different     *)
(* clients that computed their shares from each other's keys, or memory    *)
(* that nobody wrote (the documents did not arrive in index order): never  *)
(* the data of fewer clients, of one counted twice, or of clients whose    *)
(* shares belong to different lists of keys.                               *)
(***************************************************************************)
AnswerIsGroupSum ==
  (AnswerGiven /\ InIndexOrder(mParticipantsAnalyticsDataList))
  => LET ds == mParticipantsAnalyticsDataList
         Part(k) == Joined(ds[k].fdKey)[1]
     IN  /\ Answer = ExpectedSum
         /\ Len(ds) = BatchSize
         /\ \A j, k \in DOMAIN ds :
              /\ Part(j).key = Part(k).key => j = k
              /\ j # k => Part(k).peers[j] = Part(j).key

(***************************************************************************)
(* "server learns the sum of their data without accessing their individual *)
(* clear data" (README.md:44): whatever part of the documents it has       *)
(* stored the server decrypts, fewer than BatchSize of them give it no      *)
(* number.                                                                 *)
(***************************************************************************)
IndividualDataStaysHidden ==
  \A l \in DOMAIN ClearData :
    \A D \in SUBSET DOMAIN mParticipantsAnalyticsDataList :
      LET ds == SetToSeq({mParticipantsAnalyticsDataList[k] : k \in D})
          ciphers == [k \in DOMAIN ds |-> ds[k].encData[l][1]]
          fdKeys == [k \in DOMAIN ds |-> Joined(ds[k].fdKey)[1]]
      IN  (ds # <<>> /\ Len(ds) < BatchSize)
          => \A o \in cfe_dmcfe_decrypt(ciphers, fdKeys, BatchSize, l, Bound) :
               o.value = Unpredictable

(***************************************************************************)
(* While one server process lives, clients, network and server together    *)
(* implement SecureSum: whatever is lost, late or killed, the clients that *)
(* release a key part are members of one group of BatchSize clients, which *)
(* the first of them settles, and the sum comes out only when all of this  *)
(* group have released.  (A number read from memory that nobody wrote      *)
(* counts as nothing learnt.)                                              *)
(***************************************************************************)
Promise ==
  INSTANCE SecureSum WITH
    group <- UNION {Range(Peers(p)) : p \in Sharing},
    released <- Sharing,
    sum <- IF AnswerGiven /\ InIndexOrder(mParticipantsAnalyticsDataList)
             THEN Answer ELSE NoData,
    Nothing <- NoData

ImplementsSecureSum == Promise!Spec

(***************************************************************************)
(* Every client comes to an end, whatever becomes of its calls: no call of *)
(* client/source/main.cpp:81-148 waits for another client.                 *)
(***************************************************************************)
Termination == \A p \in Client : <>(pc[p] \in Over)

(***************************************************************************)
(* When the sleep of client/source/main.cpp:125 covers the other clients,  *)
(* nothing fails and as many clients are launched as the batch has         *)
(* participants, each of them gets through, and the analyst ends up with   *)
(* the sum unless the documents reach the server out of index order.       *)
(***************************************************************************)
EveryoneSubmits == <>(\A p \in Client : pc[p] = "exited")

SumUnlessOutOfOrder ==
  <>(\/ AnswerGiven /\ Answer = ExpectedSum
     \/ ~InIndexOrder(mParticipantsAnalyticsDataList))

----------------------------------------------------------------------------
(***************************************************************************)
(* "server learns the sum of their data" (README.md:44), "If everything is *)
(* fine" (README.md:77).  With two clients, no failure and no delay the    *)
(* sum depends on the order in which the documents arrive.                 *)
(***************************************************************************)
SumIsLearnt == <>(AnswerGiven /\ Answer = ExpectedSum)
=============================================================================
