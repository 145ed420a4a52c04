----------------------- MODULE CoreSessionProperties -----------------------
(***************************************************************************)
(* What the SDK guarantees to an application that uses it in any order.    *)
(***************************************************************************)
EXTENDS CoreSession

\* The type of the state.
TypeOK ==
  /\ Live \subseteq Handle
  /\ \A h \in Live : cores[h].encryptor \in DOMAIN encryptors \cup {nullptr}
  /\ DOMAIN encryptors \subseteq Key
  /\ \A key \in DOMAIN encryptors :
       encryptors[key] \in Encryptor(Key) /\ encryptors[key].key = key
  /\ \A c \in published : c.index \in Nat /\ c.pubKey \in Key

(***************************************************************************)
(* Whatever was called before, in whatever order, and whichever of the     *)
(* documents obtained are analysed: a number that comes out, and that is   *)
(* not made of stray memory, is the sum over different encryptors of       *)
(* everybody's index, each with a share over the keys of the others.  Keys *)
(* that were replaced (core.cpp:43), lists with an index twice             *)
(* (core.cpp:92), documents from before the share was set (core.cpp:138)   *)
(* or from two copies of one Core never make a sum.                        *)
(***************************************************************************)
SumOfMutualGroup ==
  \A n \in 1 .. MaxReleased :
    \A ds \in [1 .. n -> released] :
      \A o \in getInnerProductAnalysis(ds, n, Bound) :
        \A l \in DOMAIN o.result :
          LET KeyPart(k) == Joined(ds[k].fdKey)[1]
              cipher == [k \in DOMAIN ds |-> ds[k].encData[l][1]]
          IN  o.result[l] # Unpredictable
              => /\ o.result[l]
                      = MapThenSumSet(LAMBDA k : cipher[k].value, DOMAIN cipher)
                          % ULongRange
                 /\ \A k \in DOMAIN ds :
                      /\ ds[k].index = k - 1
                      /\ Len(KeyPart(k).peers) = n
                      /\ \A j \in DOMAIN ds \ {k} :
                           /\ KeyPart(j).key # KeyPart(k).key
                           /\ KeyPart(k).peers[j] = KeyPart(j).key

\* The object behind g is what it was, and its encryptor is where it points to.
Kept(g) ==
  /\ g \in Live'
  /\ cores'[g].encryptor \in DOMAIN encryptors' \cup {nullptr}
  /\ Object(g)' = Object(g)

\* The object behind g shares the encryptor of the one behind h, and has got the
\* same new share and nothing else.
SameNewShare(h, g) ==
  /\ {g, h} \subseteq Live' /\ cores[g].encryptor = cores[h].encryptor
  /\ Object(g)' = [Object(g) EXCEPT !.encryptor.peers = Object(h)'.encryptor.peers]

(***************************************************************************)
(* A call concerns the object it is made on, and no other Core changes.    *)
(* Copies share an encryptor (core.cpp:24-29 declares no copy constructor, *)
(* and e2e_tests.cpp:31 copies every Core and destroys the original): the  *)
(* destruction of one copy, its re-initialisation (core.cpp:43) and its    *)
(* clear data (core.cpp:107) do not reach the others.  The one call that   *)
(* does is provideParticipantsPublicData: all copies get the same share    *)
(* (core.cpp:103), unless the process dies of the list (core.cpp:100).     *)
(***************************************************************************)
CopiesStandAlone ==
  [][\A h \in Handle : \A g \in Live \ {h} :
       ~Kept(g) /\ Call(h)
       => \E list \in Lists : Provide(h, list) /\ (Crash \/ SameNewShare(h, g))]_vars
=============================================================================
