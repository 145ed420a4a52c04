-------------------------------- MODULE Core --------------------------------
(***************************************************************************)
(* prinsight::Core (include/prinsight/core.hpp, source/core.cpp), the      *)
(* object a client application drives: one operator per method, from the   *)
(* object and the method's input to its status, its output and the object  *)
(* afterwards.                                                             *)
(*                                                                         *)
(* A method that parses JSON throws when it is given the empty string; the *)
(* callers' operators say what becomes of the exception.                   *)
(***************************************************************************)
EXTENDS InnerProduct

CONSTANT nullptr      \* an encryptor pointer that points nowhere

NewCore == [encryptor |-> nullptr, data |-> <<>>]

Uninitialized(core) == core.encryptor = nullptr

\* The id is drawn at every call and kept nowhere in the object.
getRegistrationData(randomString) == [clientId |-> randomString]

PublicData(index, pubKey) == [index |-> index, pubKey |-> pubKey]

\* Every call makes a new encryptor with a key pair of its own.
initializeAnalyticsScheme(core, params, freshKey) ==
  [core EXCEPT !.encryptor =
     DMCFEncryptor(freshKey, params.index, params.participantsCount)]

getPublicData(core) == PublicData(core.encryptor.index, core.encryptor.key)

\* A map after an assignment to what operator[] gives.
Assigned(map, key, value) ==
  [k \in DOMAIN map \cup {key} |-> IF k = key THEN value ELSE map[k]]

setClearAnalyticsData(core, label, value) ==
  [core EXCEPT !.data = Assigned(@, label, value)]

----------------------------------------------------------------------------
\* The loop of provideParticipantsPublicData: entry k is taken in when its
\* index is in range and within the k - 1 keys inserted so far.
OutOfRange(list, n, k) == list[k].index >= n
BeyondEnd(list, k) == list[k].index > k - 1

ProvideStatus(core, list) ==
  LET n == core.encryptor.length
      stops == {k \in DOMAIN list : OutOfRange(list, n, k) \/ BeyondEnd(list, k)}
  IN  IF Uninitialized(core) THEN "kSchemeUninitialized"
      ELSE IF Len(list) # n THEN "kBadParams"
      ELSE IF stops = {} THEN "kOk"
      ELSE IF OutOfRange(list, n, Min(stops)) THEN "kBadParams" ELSE "undefined"

\* Mutant of PubKeyList: every entry starts the vector anew.
LastKeyOnly(list) == <<list[Len(list)].pubKey>>

\* Mutant of PubKeyList: an index that has been visited is skipped.
VisitedSkipped(list) ==
  FoldLeft(LAMBDA v, c : IF c.index < Len(v) THEN v
                         ELSE InsertAt(v, c.index + 1, c.pubKey), <<>>, list)

PubKeyList(list) ==
  InsertedAt([k \in DOMAIN list |->
    [index |-> list[k].index, item |-> list[k].pubKey]])

\* Mutant of provideParticipantsPublicData: the client's own key, which CiFEr
\* ignores, is left out.
OwnKeyLeftOut(core, list) ==
  [core EXCEPT !.encryptor =
     setParticipantsPublicKeys(@, RemoveAt(PubKeyList(list), @.index + 1))]

provideParticipantsPublicData(core, list) ==
  [core EXCEPT !.encryptor = setParticipantsPublicKeys(@, PubKeyList(list))]

\* The clear data under every label encrypted, and a key part.
getEncryptedAnalyticsData(core) ==
  AnalyticsData(core.encryptor.index,
                [l \in DOMAIN core.data |->
                   G1(encrypt(core.encryptor, l, core.data[l]))],
                Halves(getFunctionalDecryptionKey(core.encryptor)))
=============================================================================
