------------------------------- MODULE Dmcfe -------------------------------
(***************************************************************************)
(* The functional-encryption objects of the SDK: the encryptor that every  *)
(* client owns (source/dmcfe/dmcfe_encryptor.cpp) and the decryptor that   *)
(* the analytics server calls (source/dmcfe/dmcfe_decryptor.cpp).          *)
(*                                                                         *)
(* Group elements are opaque: a key pair is known by its identity `key`,   *)
(* a cipher by what was encrypted, under which label and by whom, a        *)
(* functional decryption key by the encryptor that derived it, the policy  *)
(* it is for and the public keys its share was computed from.              *)
(*                                                                         *)
(* CiFEr, the library that does the arithmetic, is external.  Its share is *)
(* a sum of one pairwise mask per other participant, added when the        *)
(* participant precedes the client and subtracted when it follows.  A mask *)
(* depends on the two key pairs only, and both ends compute the same one.  *)
(***************************************************************************)
EXTENDS Integers, Sequences, FiniteSets, FiniteSetsExt, SequencesExt

CONSTANT ULongRange       \* how many values an unsigned long has: 2^32 or 2^64

ASSUME ULongAssumption == ULongRange \in Nat \ {0}

NoPeers == <<>>           \* cfe_dmcfe_set_share has not been called yet
Unpredictable == -1       \* a number computed from memory nobody wrote

Encryptor(Key) ==
  [key : Key, index : Nat, length : Nat, peers : Seq(Key)]

\* Mutant of DMCFEncryptor: client ids taken to start at one.
CountedFromOne(key, clientId, dataVectorLength) ==
  [key |-> key, index |-> clientId - 1, length |-> dataVectorLength,
   peers |-> NoPeers]

DMCFEncryptor(key, clientId, dataVectorLength) ==
  [key |-> key, index |-> clientId, length |-> dataVectorLength,
   peers |-> NoPeers]

setParticipantsPublicKeys(encryptor, publicKeyList) ==
  [encryptor EXCEPT !.peers = publicKeyList]

\* mpz_init_set_ui takes an unsigned long, the data are 64 bits wide.
encrypt(encryptor, label, data) ==
  [key |-> encryptor.key, label |-> label, value |-> data % ULongRange]

\* The key part for the policy that weighs every participant by one; a policy
\* is known by its length.
getFunctionalDecryptionKey(encryptor) ==
  [key |-> encryptor.key, index |-> encryptor.index,
   peers |-> encryptor.peers, policy |-> encryptor.length]

----------------------------------------------------------------------------
\* The buffers of G1 and G2, and their base64 texts: the sequence of the one
\* element they hold, or of none when they were zeroed or got damaged.
Blank == <<>>
G1(element) == <<element>>

\* G1::fromBase64 ignores the decoder's result.  A damaged text is written not
\* at all, or in part.
fromBase64(buffer, text) == IF text = Blank THEN {buffer, Blank} ELSE {text}

\* G2: two halves, each with a buffer and a text of its own, of use only together.
Halves(fdKey) == <<G1(fdKey), G1(fdKey)>>
Joined(halves) == IF halves[1] = halves[2] THEN halves[1] ELSE Blank

----------------------------------------------------------------------------
\* The masks of all key parts add up to zero: each pair of key pairs occurs as
\* often with one sign as with the other.  The entry at a client's own index is
\* skipped.
MasksCancel(fdKeys) ==
  LET terms == UNION {{m} \X DOMAIN fdKeys[m].peers : m \in DOMAIN fdKeys}
      Pair(t) == {fdKeys[t[1]].key, fdKeys[t[1]].peers[t[2]]}
      added == {t \in terms : t[2] - 1 < fdKeys[t[1]].index}
      subtracted == {t \in terms : t[2] - 1 > fdKeys[t[1]].index}
  IN  \A p \in {Pair(t) : t \in terms} :
        Cardinality({t \in added : Pair(t) = p})
          = Cardinality({t \in subtracted : Pair(t) = p})

\* The secrets inside the ciphers are those the key parts take out again: of the
\* same encryptors, and hashed from the same label and policy.
SecretsMatch(ciphers, fdKeys, policy, label) ==
  LET OwnersOf(s) == ToBag([m \in DOMAIN s |-> s[m].key])
  IN  /\ OwnersOf(ciphers) = OwnersOf(fdKeys)
      /\ \A m \in DOMAIN ciphers : ciphers[m].label = label
      /\ \A m \in DOMAIN fdKeys : fdKeys[m].policy = policy

\* mpz_get_ui, and the error that leaves the result unset.
Found(value) == [status |-> "kOk", value |-> value % ULongRange]
Stray == [status |-> "kOk", value |-> Unpredictable]
NotFound == [status |-> "kCryptoOperationError", value |-> Unpredictable]

\* cfe_dmcfe_decrypt: a sum up to the bound is found.  Beyond it the search may
\* give up, and for an element that hides no small number it does.  Nothing is
\* known of a key part derived before its share was set.
cfe_dmcfe_decrypt(ciphers, fdKeys, policy, label, bound) ==
  LET sum == MapThenSumSet(LAMBDA m : ciphers[m].value, DOMAIN ciphers)
  IN  IF \E m \in DOMAIN fdKeys : fdKeys[m].peers = NoPeers
        THEN {NotFound, Stray}
      ELSE IF ~(MasksCancel(fdKeys) /\ SecretsMatch(ciphers, fdKeys, policy, label))
        THEN {NotFound}
      ELSE {Found(sum)} \cup {o \in {NotFound} : sum > bound}

\* The arrays are as long as the list of key parts, and as many ciphers and
\* weights are read.
LengthsAgree(cipherList, decryptionKeyList, policy) ==
  /\ Len(cipherList) >= Len(decryptionKeyList)
  /\ Len(decryptionKeyList) >= policy

\* mpz_set_si takes a long: the upper half of the range becomes negative.
AsLong(bound) ==
  LET low == bound % ULongRange
  IN  IF 2 * low < ULongRange THEN low ELSE low - ULongRange

\* What is read has been written: a buffer without an element is not converted,
\* and its place in the array stays memory that nobody wrote.
Written(cipherList, decryptionKeyList, policy) ==
  /\ LengthsAgree(cipherList, decryptionKeyList, policy)
  /\ \A m \in 1 .. policy : Blank \notin {cipherList[m], decryptionKeyList[m]}

\* The elements of the first n buffers.
Elements(buffers, n) == [m \in 1 .. n |-> buffers[m][1]]

\* Mutant of decrypt: the error of CiFEr is ignored.
ErrorIgnored(cipherList, decryptionKeyList, policy, label, bound) ==
  IF ~Written(cipherList, decryptionKeyList, policy)
    THEN {Stray}
    ELSE {[o EXCEPT !.status = "kOk"] :
            o \in cfe_dmcfe_decrypt(Elements(cipherList, policy),
                                    Elements(decryptionKeyList, policy),
                                    policy, label, AsLong(bound))}

\* DMCFDecryptor::decrypt.  From memory that nobody wrote, or past the end of an
\* array, comes any number or none.
decrypt(cipherList, decryptionKeyList, policy, label, bound) ==
  IF ~Written(cipherList, decryptionKeyList, policy)
    THEN {NotFound, Stray}
    ELSE cfe_dmcfe_decrypt(Elements(cipherList, policy),
                           Elements(decryptionKeyList, policy),
                           policy, label, AsLong(bound))
=============================================================================
