------------------------- MODULE MCAnalyticsService -------------------------
(* Three clients for a batch of two, two key pairs for index 0 (its owner   *)
(* was restarted, or another client writes over its data), and documents    *)
(* that fit together and that do not.                                       *)
EXTENDS AnalyticsAnswers

CONSTANTS a, a2, b, c, label1

MCEncryptor(key, index, peers) ==
  setParticipantsPublicKeys(DMCFEncryptor(key, index, BatchSize), peers)

MCEncryptors ==
  {MCEncryptor(a, 0, <<a, b>>), MCEncryptor(a2, 0, <<a2, b>>),
   MCEncryptor(b, 1, <<a, b>>), MCEncryptor(c, 2, <<a, b>>)}

\* What the client with this encryptor and this clear value posts.
MCDocument(e, value) ==
  AnalyticsData(e.index, label1 :> G1(encrypt(e, label1, value)),
                Halves(getFunctionalDecryptionKey(e)))

MCPublicBody ==
  {[index |-> 0, pubKey |-> a], [index |-> 0, pubKey |-> a2],
   [index |-> 1, pubKey |-> b], [index |-> 2, pubKey |-> c]}

MCAnalyticsBody ==
  {MCDocument(e, IF e.key = a THEN 1 ELSE 2 * (e.index + 1)) : e \in MCEncryptors}
  \cup {[index |-> 1]}

MCSymmetry == Permutations(ClientId)
=============================================================================
