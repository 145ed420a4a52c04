---------------------------- MODULE InnerProduct ----------------------------
(***************************************************************************)
(* prinsight::getInnerProductAnalysis (source/core.cpp): the server hands  *)
(* it the analytics data of the participants in the order it stored them,  *)
(* and it sorts ciphers and key parts into vectors by inserting each one   *)
(* at the participant's index.                                             *)
(*                                                                         *)
(* An analytics data document is a record                                  *)
(*   index    the participant it comes from                                *)
(*   encData  a function from the labels it carries to texts of ciphers    *)
(*   fdKey    the texts of the functional decryption key, two of them when *)
(*            the document is whole                                        *)
(* It may lack the last two: whoever accepted it has looked at the index.  *)
(***************************************************************************)
EXTENDS Dmcfe

AnalyticsData(index, encData, fdKey) ==
  [index |-> index, encData |-> encData, fdKey |-> fdKey]

Complete(d) == {"encData", "fdKey"} \subseteq DOMAIN d

\* What the client with this encryptor makes (Core::getEncryptedAnalyticsData),
\* when some texts, or halves of the key part, may have been damaged or lost.
MadeBy(encryptor, d) ==
  /\ d.index = encryptor.index
  /\ Complete(d) =>
       /\ d = AnalyticsData(d.index, [l \in DOMAIN d.encData |-> d.encData[l]], d.fdKey)
       /\ \A l \in DOMAIN d.encData : d.encData[l] # Blank =>
            LET value == d.encData[l][1].value
            IN  value \in Nat /\ d.encData[l] = G1(encrypt(encryptor, l, value))
       /\ d.fdKey \in Seq({Blank, G1(getFunctionalDecryptionKey(encryptor))})

\* What is assumed of encryptors where documents come from outside the model: no
\* key that a share was computed from stands before the index of its owner, whom
\* it identifies.  CoreSessionProofs derives it for every list of public data that
\* Core::provideParticipantsPublicData takes in.
NoKeyEarly(encryptors) ==
  \A e \in encryptors :
    /\ e.index \in Nat
    /\ \A q \in encryptors : q.key = e.key => q.index = e.index
    /\ e.peers # NoPeers =>
         /\ DOMAIN e.peers = 1 .. e.length
         /\ \A j \in DOMAIN e.peers :
              \E q \in encryptors : q.key = e.peers[j] /\ q.index < j

Labels(ds) == UNION {DOMAIN d.encData : d \in {x \in Range(ds) : Complete(x)}}

\* The positions of the documents that carry a label.
Carrying(ds, label) ==
  {k \in DOMAIN ds : Complete(ds[k]) /\ label \in DOMAIN ds[k].encData}

----------------------------------------------------------------------------
(* vector::insert(begin() + index, x) is defined up to the end of the      *)
(* vector only.  When entry k is processed, k - 1 key parts are in fdKeys, *)
(* and the ciphers of a label are those of the earlier entries carrying it.*)

\* Mutant of IndexRejected: the last index is rejected as well.
LastIndexRejected(ds, k) == ds[k].index >= Len(ds) - 1

IndexRejected(ds, k) == ds[k].index >= Len(ds)

CipherPastEnd(ds, k) ==
  \E label \in DOMAIN ds[k].encData :
    ds[k].index > Cardinality(Carrying(ds, label) \cap 1 .. (k - 1))

KeyRejected(ds, k) == Len(ds[k].fdKey) # 2

\* Mutant of KeyPastEnd: the end itself is past the end.
KeyAtEnd(ds, k) == ds[k].index >= k - 1

KeyPastEnd(ds, k) == ds[k].index > k - 1

\* One iteration parses the document, or throws, checks the index, inserts the
\* ciphers, checks the key and inserts it, in this order.
Throws(ds, k) == ~Complete(ds[k])

Rejected(ds, k) ==
  /\ ~Throws(ds, k)
  /\ IndexRejected(ds, k) \/ (KeyRejected(ds, k) /\ ~CipherPastEnd(ds, k))

PastEnd(ds, k) ==
  /\ ~Throws(ds, k)
  /\ ~IndexRejected(ds, k)
  /\ CipherPastEnd(ds, k) \/ (~KeyRejected(ds, k) /\ KeyPastEnd(ds, k))

\* What the loop over the documents ends with.
Gathering(ds) ==
  LET stops == {k \in DOMAIN ds :
                  Throws(ds, k) \/ Rejected(ds, k) \/ PastEnd(ds, k)}
  IN  CASE stops = {} -> "kOk"
        [] stops # {} /\ Throws(ds, Min(stops)) -> "exception"
        [] stops # {} /\ Rejected(ds, Min(stops)) -> "kBadParams"
        [] OTHER -> "undefined"

\* One insertion after the other, by position, each item at its own index.
InsertedAt(entries) ==
  MapThenFoldSet(LAMBDA e, v : InsertAt(v, e.index + 1, e.item), <<>>,
                 LAMBDA k : entries[k], Max, DOMAIN entries)

Ciphers(ds, label) ==
  InsertedAt([k \in Carrying(ds, label) |->
    [index |-> ds[k].index, item |-> ds[k].encData[label]]])

FdKeys(ds) ==
  InsertedAt([k \in DOMAIN ds |->
    [index |-> ds[k].index, item |-> Joined(ds[k].fdKey)]])

\* One buffer serves all labels of a document: where a text is damaged, what an
\* earlier label left in it counts once more.
Decoded(d) ==
  LET buffers == {Blank} \cup {d.encData[l] : l \in DOMAIN d.encData}
  IN  {[d EXCEPT !.encData = f] :
         f \in {g \in [DOMAIN d.encData -> buffers] :
                  \A l \in DOMAIN g :
                    \E b \in buffers : g[l] \in fromBase64(b, d.encData[l])}}

Decodings(ds) ==
  LET decoded == [k \in DOMAIN ds |-> Decoded(ds[k])]
  IN  {s \in [DOMAIN ds -> UNION Range(decoded)] :
         \A k \in DOMAIN ds : s[k] \in decoded[k]}

----------------------------------------------------------------------------
Analysis(status, result) == [status |-> status, result |-> result]
NoResult == <<>>

\* Decryption goes label by label in the unspecified order of an unordered
\* map and stops at the first failure, with the labels done so far in `result`.
DecryptAll(ds, policy, bound) ==
  LET outcomes(label) == decrypt(Ciphers(ds, label), FdKeys(ds), policy, label, bound)
      choices == {f \in [Labels(ds) -> UNION {outcomes(l) : l \in Labels(ds)}] :
                    \A l \in Labels(ds) : f[l] \in outcomes(l)}
      Sums(f, done) == [l \in done |-> f[l].value]
      Good(f) == {l \in Labels(ds) : f[l].status = "kOk"}
  IN  UNION {IF Good(f) = Labels(ds)
               THEN {Analysis("kOk", Sums(f, Labels(ds)))}
               ELSE {Analysis("kCryptoOperationError", Sums(f, done)) :
                       done \in SUBSET Good(f)}
             : f \in choices}

\* An insertion past the end is undefined behaviour: the process dies, or the
\* vectors hold memory nobody wrote and any answer comes out.
Undefined(ds) ==
  {Analysis(status, NoResult) :
     status \in {"crash", "exception", "kBadParams", "kCryptoOperationError"}}
  \cup {Analysis("kOk", [l \in Labels(ds) |-> Unpredictable])}

\* The set of possible outcomes.
getInnerProductAnalysis(ds, policy, bound) ==
  IF Len(ds) = 0
    THEN {Analysis("kBadParams", NoResult)}
    ELSE CASE Gathering(ds) \in {"kBadParams", "exception"} ->
                {Analysis(Gathering(ds), NoResult)}
           [] Gathering(ds) = "undefined" -> Undefined(ds)
           [] OTHER -> UNION {DecryptAll(s, policy, bound) : s \in Decodings(ds)}
=============================================================================
