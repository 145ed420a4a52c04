------------------------- MODULE MCAnalysisBatches -------------------------
(* Three participants.  The one with index 0 was initialised twice: it owns *)
(* the key pairs a and a2, and the others may hold either public key.       *)
EXTENDS AnalysisBatches

CONSTANTS a, a2, b, c, label1, label2

\* The value every owner encrypts under each label.
MCValue == [k \in {a, a2, b, c} |-> CASE k = a -> 1 [] k = a2 -> 2 [] k = b -> 4
                                      [] OTHER -> 8]
MCIndex == [k \in {a, a2, b, c} |-> CASE k \in {a, a2} -> 0 [] k = b -> 1
                                      [] OTHER -> 2]

\* One whose share has not been set.
MCEarly == DMCFEncryptor(b, 1, 2)

MCEncryptors ==
  {MCEarly} \cup
  {setParticipantsPublicKeys(DMCFEncryptor(k, MCIndex[k], Len(peers)), peers) :
     k \in {a, a2, b, c},
     peers \in {<<a, b, c>>, <<a2, b, c>>, <<a, b>>, <<a2, b>>}}

Document(e, labels) ==
  AnalyticsData(e.index, [l \in labels |-> G1(encrypt(e, l, MCValue[e.key]))],
                Halves(getFunctionalDecryptionKey(e)))

\* a was replaced by a2: nothing of a is computed from a2.  The client with a2 has
\* documents for groups of two.
MCInRange ==
  {e \in MCEncryptors \ {MCEarly} :
     /\ e.index < e.length
     /\ ~(e.key = a /\ a2 \in Range(e.peers))
     /\ ~(e.key = a2 /\ e.length = 3)}
MCOne(key, peers) == CHOOSE e \in MCEncryptors : e.key = key /\ e.peers = peers

\* The texts of a damaged document: the second cipher, a half of the key part,
\* or one half is missing altogether; one from before the share; one without its members.
MCDocuments ==
  {Document(e, {label1}) : e \in MCInRange}
  \cup {Document(MCOne(k, <<a, b>>), {label1, label2}) : k \in {a, b}}
  \cup {[Document(MCOne(b, <<a, b>>), {label1, label2})
            EXCEPT !.encData[label2] = Blank],
         [Document(MCOne(b, <<a, b>>), {label1}) EXCEPT !.fdKey[2] = Blank],
         [Document(MCOne(b, <<a, b>>), {label1}) EXCEPT !.fdKey = <<@[1]>>],
         Document(MCEarly, {label1}),
         [index |-> 1]}
=============================================================================
